------------------------------ MODULE MCTouches -------------------------------
(*****************************************************************************)
(* What becomes of touches: the blob trackers, the assignment algorithm of   *)
(* the one that uses it, the angle of a turning blob, the calibration and    *)
(* the finder of Hu objects.  A behaviour is one of one part; the others     *)
(* rest in an initial state.                                                 *)
(*****************************************************************************)
EXTENDS VolatileAngle, BlobTracker, Calibration, TLC

CONSTANTS greedy, munkres, NULL

VARIABLES
  part,  \* the part at hand; it never changes
  \* the state of the assignment or of the finder of objects:
  x1, x2, x3, x4, x5, x6, x7

\* The problems of the assignment: matrices of costs up to 3 x 3, of which
\* the square ones have an ascending first row.
Matrices(r, c, costs) ==
  {[nrows |-> r, ncols |-> c, A |-> A] : A \in [(1..r) \X (1..c) -> costs]}
Ascending(p) == \A c \in 2..p.ncols : p.A[1, c - 1] <= p.A[1, c]
SomeProblems ==
  {p \in Matrices(3, 3, {0, 1, 3}) : Ascending(p)}
    \cup Matrices(2, 3, {0, 1, 2}) \cup Matrices(3, 2, {0, 1, 2})

\* Contours of two sizes, of which one differs by a hole and one in shape.
SomeContours ==
  {[size |-> 0, holes |-> 0, shape |-> 0], [size |-> 2, holes |-> 0, shape |-> 0],
   [size |-> 1, holes |-> 1, shape |-> 0], [size |-> 1, holes |-> 0, shape |-> 1]}

\* Scenes: one tracker sees plain blobs at two places, and at one of them two
\* objects or an uncertain one, or both trackers see blobs.
TwoSpots == [x : 0..1, kind : {"blob"}, fid : {0}]
Things == TwoSpots \cup
          {[x |-> 0, kind |-> "object", fid |-> 1],
           [x |-> 0, kind |-> "object", fid |-> 2],
           [x |-> 0, kind |-> "volatile", fid |-> -1]}
BlobScenes ==
  {[sees |-> greedy :> Things @@ munkres :> {}, ids |-> 4],
   [sees |-> [t \in {greedy, munkres} |-> TwoSpots], ids |-> 5]}
PlainScenes == {[sees |-> greedy :> TwoSpots @@ munkres :> {}, ids |-> 4]}

Matrix == INSTANCE Munkres WITH
  problem <- x1, m <- x2, Problems <- SomeProblems
Hu == INSTANCE HuObjects WITH
  module <- x1, clicks <- x2, restarts <- x3, frame <- x4, recognized <- x5,
  known <- x6, pure <- x7, Contours <- SomeContours, max_size_difference <- 1,
  max_match_score <- 1, Flags <- {<<h, s>> : h, s \in BOOLEAN}, MaxFrame <- 2,
  MaxStored <- 3, MaxRestarts <- 1

\* These constants are among those of which the theorems speak.
ASSUME TheoremsApply == BlobAssumption /\ CalibrationAssumption

\* The variables that the assignment leaves at 0.
Rest2 == <<x3, x4, x5, x6, x7>>
Zero2 == x3 = 0 /\ x4 = 0 /\ x5 = 0 /\ x6 = 0 /\ x7 = 0

xs == <<x1, x2, x3, x4, x5, x6, x7>>
all == <<part, vars, tracker_vars, calibration_vars, xs>>

Parts == {"angle", "tracker", "matrix", "calibration", "hu"}

PartInit ==
  /\ part \in Parts
  /\ Init /\ TrackerInit /\ CalibrationInit
  /\ part # "angle" => real = 0
  /\ part # "tracker" => view = CHOOSE v \in Views : TRUE
  /\ part # "calibration" => screenPoints = 1 /\ duration_per_point = 0
  /\ \/ part = "matrix" /\ Matrix!Init /\ Zero2
     \/ part = "hu" /\ Hu!Init
     \/ part \notin {"matrix", "hu"} /\ x1 = 0 /\ x2 = 0 /\ Zero2

PartNext ==
  /\ UNCHANGED part
  /\ \/ part = "angle" /\ Next /\ UNCHANGED <<tracker_vars, calibration_vars, xs>>
     \/ part = "tracker" /\ TrackerNext /\ UNCHANGED <<vars, calibration_vars, xs>>
     \/ part = "calibration" /\ CalibrationNext /\ UNCHANGED <<vars, tracker_vars, xs>>
     \/ /\ part = "matrix" /\ Matrix!Next
        /\ UNCHANGED <<vars, tracker_vars, calibration_vars, Rest2>>
     \/ part = "hu" /\ Hu!Next /\ UNCHANGED <<vars, tracker_vars, calibration_vars>>

\* These parts may come to their end.
Ends == part \in {"matrix", "hu"} /\ UNCHANGED all

PartSpec == PartInit /\ [][PartNext \/ Ends]_all
-------------------------------------------------------------------------------
(* What is looked up by comparing is found.  When mtdev_match returns, its *)
(* ix assigns as many rows as it can, each to a column of its own, and no  *)
(* other assignment is cheaper; and an object that was registered by its   *)
(* Hu moments is reported with the id of its registration whenever it is   *)
(* seen, before and after a restart; excepted are flags that changed after *)
(* a registration, register set twice in a row, and a comparison of holes  *)
(* with a contour that was restored without them.                          *)
MatchesAreFound ==
  /\ part = "matrix" => Matrix!AssignmentIsCheapest
  /\ part = "hu" => Hu!KnownObjectsAreFound
===============================================================================
