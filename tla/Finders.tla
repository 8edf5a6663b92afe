------------------------------- MODULE Finders -------------------------------
(***************************************************************************)
(* moFingerTipFinderModule: the palm and the fingertips of a hand, and the *)
(* merge distance that adapts itself from frame to frame.                  *)
(*                                                                         *)
(* A hand is what OpenCV finds of it: whether the area of its largest      *)
(* contour is big enough, the brightest pixels of its distance image, and  *)
(* the convexity defects, each with the positions of its two ends, on a    *)
(* line, and its depth; no two depths of a hand are equal.                 *)
(***************************************************************************)
EXTENDS Integers, Sequences, FiniteSets, SequencesExt

CONSTANTS
  Hands,          \* the hands shown: [defects, big, pixels]
  min_distance,
  Merges          \* the initial values of merge_distance

VARIABLES
  hand, merge_distance,
  fingertips      \* the list that is pushed: the palm and the tips

vars == <<hand, merge_distance, fingertips>>

Abs(n) == IF n < 0 THEN -n ELSE n

Init == hand \in Hands /\ merge_distance \in Merges /\ fingertips = {}

\* A pixel is read as a char, which is signed here.
AsChar(v) == IF v >= 128 THEN v - 256 ELSE v

\* The palm is the mean place of the strongest positive pixels.
searchPalmCenter(pixels) ==
  LET value == [x \in 1..Len(pixels) |-> AsChar(pixels[x])]
      peaks == {x \in 1..Len(pixels) : value[x] > 0}
      strong == {x \in peaks : \A y \in peaks : value[y] <= value[x]}
  IN IF peaks = {} THEN {} ELSE {<<"palm", FoldSet(LAMBDA x, y : x + y, 0, strong) \div Cardinality(strong)>>}

\* std::sort by depth, then the ends of the four deepest defects that are
\* deep enough.
Points(defects) ==
  LET nth(n) == CHOOSE d \in defects :
                  Cardinality({e \in defects : e.depth > d.depth}) = n - 1
      count == Cardinality(defects)
      best == SelectSeq([n \in 1..(IF count < 4 THEN count ELSE 4) |-> nth(n)],
                        LAMBDA d : min_distance <= d.depth)
  IN FlattenSeq([i \in 1..Len(best) |-> <<best[i].start, best[i].end>>])

\* The two loops that merge almost coinciding points: the numbers of the
\* suppressed points, and the distances that were computed.  A suppressed
\* point suppresses others too; the distance to it is not computed again.
Merge(points, distance) ==
  LET close(i, j) == i < j /\ Abs(points[i] - points[j]) <= distance
      pairs == {p \in (1..Len(points)) \X (1..Len(points)) :
                  p[1] < p[2] /\ \A k \in 1..(p[1] - 1) : ~close(k, p[2])}
  IN [suppressed |-> {j \in 1..Len(points) : \E i \in 1..Len(points) : close(i, j)},
      distances |-> {<<i, j, Abs(points[i] - points[j])>> : <<i, j>> \in pairs}]

\* Faulty: too few fingers halve the distance.
Adapted_Halves(points, m, distance) ==
  IF 18 <= Cardinality(m.distances) /\ Len(points) - Cardinality(m.suppressed) # 5
  THEN IF Len(points) - Cardinality(m.suppressed) < 5 THEN distance \div 2
       ELSE 1 + CHOOSE d \in {x[3] : x \in m.distances} :
              /\ Cardinality({x \in m.distances : x[3] <= d}) >= 3
              /\ Cardinality({x \in m.distances : x[3] < d}) < 3
  ELSE distance

\* 18 distances and not five fingers: a bit more than the third smallest.
Adapted(points, m, distance) ==
  IF 18 <= Cardinality(m.distances) /\ Len(points) - Cardinality(m.suppressed) # 5
  THEN 1 + CHOOSE d \in {x[3] : x \in m.distances} :
         /\ Cardinality({x \in m.distances : x[3] <= d}) >= 3
         /\ Cardinality({x \in m.distances : x[3] < d}) < 3
  ELSE distance

searchFingerTips(points, m) ==
  /\ merge_distance' = Adapted(points, m, merge_distance)
  /\ fingertips' = searchPalmCenter(hand.pixels) \cup
       {<<"tip", points[i]>> : i \in (1..Len(points)) \ m.suppressed}

\* No palm, no fingers; a hand that is too small leaves nothing.
applyFilter ==
  /\ \/ /\ searchPalmCenter(hand.pixels) = {} \/ ~hand.big
        /\ fingertips' = {} /\ UNCHANGED merge_distance
     \/ /\ searchPalmCenter(hand.pixels) # {} /\ hand.big
        /\ \E points \in {Points(hand.defects)} :
             searchFingerTips(points, Merge(points, merge_distance))
  /\ UNCHANGED hand

Show(h) == hand' = h /\ UNCHANGED <<merge_distance, fingertips>>

Next == applyFilter \/ \E h \in Hands : Show(h)

Spec == Init /\ [][Next]_vars /\ WF_vars(applyFilter)
-----------------------------------------------------------------------------
SameHand == hand' = hand
SameDistance == merge_distance' = merge_distance

(* The adaptation of merge_distance comes to rest: a hand that is shown    *)
(* from some point on without a change gives, after finitely many frames,  *)
(* one merge distance and one set of fingertips.  Whatever is merged       *)
(* changes the distances the next value is taken from.                     *)
MergeSettles ==
  <>[][SameHand]_vars => <>[][SameHand => SameDistance]_vars
=============================================================================
