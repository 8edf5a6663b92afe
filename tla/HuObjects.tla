------------------------------ MODULE HuObjects ------------------------------
(***************************************************************************)
(* moHuObjectFinderModule: objects are registered by showing them, found   *)
(* again by size, holes and shape, and kept over a restart as text         *)
(* properties of the preset.                                               *)
(*                                                                         *)
(* A contour is its size, its number of holes and its shape; the           *)
(* difference of two sizes is what boundingBoxCheck returns, that of two   *)
(* shapes what cvMatchShapes returns.  The properties of the module are    *)
(* the texts it stored, by their number.                                   *)
(***************************************************************************)
EXTENDS Integers, Sequences, FiniteSets, SequencesExt

CONSTANTS
  Contours,             \* the contours above min_area that a camera can see
  max_size_difference,
  max_match_score,
  Flags,                \* the values of <<consider_holes, consider_shape>>
  MaxFrame,             \* bound on the contours of a frame
  MaxStored,            \* bound on the clicks on register
  MaxRestarts,
  NULL

VARIABLES
  module,     \* stored_contours, the stored_contour_ properties, whether
              \* they were restored, and the two flags
  clicks,     \* the times register was set
  restarts,
  frame,      \* the contours of the last frame
  recognized, \* recognized_objects: fiducial_id - min_id for each, -1 if possible;
              \* NULL if the frame served the button
  known,      \* history: the contours registered, in their order
  pure        \* history: the flags have not changed since a registration

vars == <<module, clicks, restarts, frame, recognized, known, pure>>

moHuObjectFinderModule(flags) ==
  [stored |-> <<>>, texts |-> <<>>, contours_restored |-> FALSE, flags |-> flags]

Init ==
  /\ \E f \in Flags : module = moHuObjectFinderModule(f)
  /\ clicks = 0 /\ restarts = 0 /\ frame = <<>> /\ recognized = <<>>
  /\ known = <<>> /\ pure = TRUE

Abs(n) == IF n < 0 THEN -n ELSE n
boundingBoxCheck(a, b) == Abs(a.size - b.size)
MatchShapes(a, b) == Abs(a.shape - b.shape)
-----------------------------------------------------------------------------
\* One turn of the loop of findMatchingShape: contour c against s, stored as
\* number k.  b is the best so far.
Compare(b, c, flags, k, s) ==
  IF s = NULL \/ boundingBoxCheck(s, c) > max_size_difference THEN b
  ELSE
    LET diff == boundingBoxCheck(s, c)
        near == IF diff < b.min_diff
                THEN [b EXCEPT !.min_diff = diff, !.min_diff_index = k] ELSE b
        score == MatchShapes(s, c)
    IN IF flags[1] /\ s.holes # c.holes THEN near
       ELSE IF ~flags[2] THEN [near EXCEPT !.min_index = k]
       ELSE IF score < b.min_score
            THEN [near EXCEPT !.min_index = k, !.min_score = score]
       ELSE near

\* The index of the stored contour c matches, from 0, or -1, and whether c
\* may be an object whose detection failed.
findMatchingShape(stored, flags, c) ==
  LET start == [min_diff |-> max_size_difference, min_diff_index |-> -1,
                min_score |-> max_match_score, min_index |-> -1]
      b == FoldLeft(LAMBDA acc, k : Compare(acc, c, flags, k - 1, stored[k]), start,
                    [k \in 1..Len(stored) |-> k])
      considers == flags[1] \/ flags[2]
  IN [index |-> IF considers THEN b.min_index ELSE b.min_diff_index,
      possible |-> b.min_diff_index >= 0 /\ considers /\ b.min_index < 0]

\* Faulty: counts from 0.
serializeContour_FromZero(m, c) == Append(m.texts, [num |-> Len(m.stored) - 1, text |-> c])

\* The property is named after the number of contours, the new one included.
\* cvSave writes the contour alone, without the holes that v_next leads to.
serializeContour(m, c) ==
  Append(SelectSeq(m.texts, LAMBDA t : t.num # Len(m.stored)),
         [num |-> Len(m.stored), text |-> [c EXCEPT !.holes = 0]])

\* The loop over the stored_contour_ properties, from 1 to the first gap.
Restored(m) ==
  IF m.contours_restored THEN m
  ELSE LET has(n) == \E i \in 1..Len(m.texts) : m.texts[i].num = n
           text(n) == m.texts[CHOOSE i \in 1..Len(m.texts) : m.texts[i].num = n].text
           last == CHOOSE n \in 0..Len(m.texts) : ~has(n + 1) /\ \A i \in 1..n : has(i)
       IN [m EXCEPT !.contours_restored = TRUE,
                    !.stored = @ \o [n \in 1..last |-> text(n)]]

Waiting(m) == Len(m.stored) > 0 /\ Last(m.stored) = NULL

\* The contour that ends the wait of the register button.
Register(m, c) ==
  LET popped == [m EXCEPT !.stored = Front(@)]
      pushed == [popped EXCEPT !.stored = Append(@, c)]
  IN IF findMatchingShape(m.stored, m.flags, c).index >= 0 THEN popped
     ELSE [pushed EXCEPT !.texts = serializeContour(pushed, c)]

\* What is reported of contour c.
Objects(m, c) ==
  LET f == findMatchingShape(m.stored, m.flags, c)
  IN IF f.index >= 0 \/ f.possible THEN <<IF f.possible THEN -1 ELSE f.index>> ELSE <<>>

\* The first contour serves the button and ends the loop; otherwise every
\* contour is looked up.
applyFilter(conts) ==
  LET m == Restored(module) IN
  /\ frame' = conts
  /\ IF conts # <<>> /\ Waiting(m)
     THEN /\ module' = Register(m, Head(conts))
          /\ recognized' = NULL
          /\ IF Len(module'.texts) # Len(m.texts)
             THEN known' = Append(known, Head(conts)) ELSE UNCHANGED known
     ELSE /\ module' = m
          /\ recognized' = FlattenSeq([k \in 1..Len(conts) |-> Objects(m, conts[k])])
          /\ UNCHANGED known
  /\ UNCHANGED <<clicks, restarts, pure>>

\* Nothing happens before the first frame: a preset sets the property too.
register_object ==
  /\ clicks < MaxStored
  /\ clicks' = clicks + 1
  /\ IF module.contours_restored
     THEN module' = [module EXCEPT !.stored = Append(@, NULL)] ELSE UNCHANGED module
  /\ UNCHANGED <<restarts, frame, recognized, known, pure>>

SetFlags(f) ==
  /\ f # module.flags
  /\ module' = [module EXCEPT !.flags = f]
  /\ pure' = (known = <<>> /\ ~Waiting(module))
  /\ frame' = <<>> /\ recognized' = <<>>
  /\ UNCHANGED <<clicks, restarts, known>>

\* Save, restart, load: the texts and the flags are properties.
Reload ==
  /\ restarts < MaxRestarts /\ restarts' = restarts + 1
  /\ module' = [moHuObjectFinderModule(module.flags) EXCEPT !.texts = module.texts]
  /\ frame' = <<>> /\ recognized' = <<>>
  /\ UNCHANGED <<clicks, known, pure>>

Next ==
  \/ \E conts \in BoundedSeq(Contours, MaxFrame) : applyFilter(conts)
  \/ register_object
  \/ \E f \in Flags : SetFlags(f)
  \/ Reload

Spec == Init /\ [][Next]_vars
-----------------------------------------------------------------------------
\* The button was never set twice before a contour answered it.
NoHole == \A i \in 1..Len(module.texts) : module.texts[i].num = i

\* A contour was restored without its holes, and holes are compared.
HolesLost ==
  module.flags[1] /\ \E i \in 1..Len(known) :
    /\ i <= Len(module.stored) /\ module.stored[i] # NULL
    /\ module.stored[i].holes # known[i].holes

(* An object that was registered is reported with the id of its            *)
(* registration whenever it is seen and no registration waits, before and  *)
(* after a restart (serializeContour counts from 1, the loop that restores *)
(* starts at min_id + 1), unless the flags changed after a registration,   *)
(* register was set twice before a contour answered it, or holes are       *)
(* considered and an object with holes was restored: the text of a contour *)
(* does not have them.                                                     *)
KnownObjectsAreFound ==
  pure /\ NoHole /\ ~HolesLost /\ Len(frame) = 1 /\ recognized # NULL =>
    \A i \in 1..Len(known) : frame[1] = known[i] => recognized = <<i - 1>>
=============================================================================
