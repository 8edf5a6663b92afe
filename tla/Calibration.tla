---------------------------- MODULE Calibration ----------------------------
(***************************************************************************)
(* moCalibrationModule.  While the property calibrate is set, the user     *)
(* presses the points of a grid (screenPoints) one after the other; where  *)
(* the camera saw each touch is appended to surfacePoints.  Once every     *)
(* point was pressed, or a preset gave them, the module triangulates the   *)
(* surface and maps every touch to the screen.  Requests may set every     *)
(* property between two updates.                                           *)
(*                                                                         *)
(* Of screenPoints the model keeps the number, 0 for a grid without rows   *)
(* or columns; of a surface point the touch whose position it is, or       *)
(* Unmeasured: set by a request or a preset, or read from memory that      *)
(* current_touch no longer owns.  What is written there is left out.       *)
(***************************************************************************)
EXTENDS Integers, Sequences

CONSTANTS
  Touch,      \* the blob_ids of the tracker
  NoTouch,    \* (unsigned int) -1, NULL
  Unmeasured,
  Sizes,      \* the numbers of screen points that rows and cols may give
  Durations,  \* the values of duration_per_point
  MaxPoints   \* bound on active_point, which an edit may leave without end

VARIABLES
  calibrate, screenPoints, surfacePoints, duration_per_point,  \* properties
  active_point, last_id, last_finished_id,
  current_touch,  \* the touch for which current_touch was set, if not NULL
  current_duration,
  calibrated, retriangulate,
  subdiv,         \* the triangulation was made: it is not NULL
  stopped,        \* "no", or what ended the process
  edited          \* history: the points were changed during the calibration

progress == <<active_point, last_id, last_finished_id>>
current == <<current_touch, current_duration>>
triangles == <<calibrated, retriangulate, subdiv>>
calibration_vars == <<calibrate, screenPoints, surfacePoints, duration_per_point, progress,
          current, triangles, stopped, edited>>

CalibrationInit ==
  /\ calibrate = FALSE /\ screenPoints \in Sizes /\ surfacePoints = <<>>
  /\ duration_per_point \in Durations
  /\ active_point = 0 /\ last_id = NoTouch /\ last_finished_id = NoTouch
  /\ current_touch = NoTouch /\ current_duration = 0
  /\ calibrated = FALSE /\ retriangulate = FALSE /\ subdiv = FALSE
  /\ stopped = "no" /\ edited = FALSE
-----------------------------------------------------------------------------
(* The callbacks of the properties.                                        *)

\* Faulty: goes on with the point an earlier calibration was left at.
resetCalibration_Resumes ==
  /\ last_id' = NoTouch /\ edited' = FALSE
  /\ UNCHANGED <<active_point, last_finished_id>>

resetCalibration ==
  /\ last_id' = NoTouch /\ active_point' = 0 /\ edited' = FALSE
  /\ UNCHANGED last_finished_id

activate_calibration(on) ==
  \/ on /\ resetCalibration
  \/ ~on /\ UNCHANGED <<progress, edited>>

\* Faulty: forgets to ask for the triangulation.
surfacepoints_changed_Forgets(written) ==
  /\ calibrated' = (calibrated \/ \E points \in written : Len(points) = screenPoints)
  /\ UNCHANGED retriangulate

\* The surface points were set to each of these lists: as many as there are
\* screen points, and the calibration is complete.
surfacepoints_changed(written) ==
  /\ calibrated' = (calibrated \/ \E points \in written : Len(points) = screenPoints)
  /\ retriangulate' = (retriangulate \/ \E points \in written : Len(points) = screenPoints)
-----------------------------------------------------------------------------
(* Requests that set a property.                                           *)

Running == stopped = "no"
Edited == edited' = (edited \/ (calibrate /\ active_point > 0))

SetCalibrate(on) ==
  /\ Running
  /\ calibrate' = on /\ activate_calibration(on)
  /\ UNCHANGED <<screenPoints, surfacePoints, duration_per_point, current,
                 triangles, stopped>>

\* The callback reads the number as a Boolean: it is not 0.
SetDuration(d) ==
  /\ Running
  /\ duration_per_point' = d /\ activate_calibration(d # 0)
  /\ UNCHANGED <<calibrate, screenPoints, surfacePoints, current, triangles,
                 stopped>>

\* Faulty: a loop that ends one point too early.
buildScreenPoints_Short(n) ==
  /\ Running
  /\ screenPoints' = n - 1 /\ Edited
  /\ UNCHANGED <<calibrate, surfacePoints, duration_per_point, progress,
                 current, triangles, stopped>>

\* Setting rows or cols makes n screen points.
buildScreenPoints(n) ==
  /\ Running
  /\ screenPoints' = n /\ Edited
  /\ UNCHANGED <<calibrate, surfacePoints, duration_per_point, progress,
                 current, triangles, stopped>>

SetSurfacePoints(n) ==
  /\ Running
  /\ surfacePoints' = [i \in 1..n |-> Unmeasured]
  /\ surfacepoints_changed({surfacePoints'}) /\ Edited
  /\ UNCHANGED <<calibrate, screenPoints, duration_per_point, progress, current,
                 subdiv, stopped>>
-----------------------------------------------------------------------------
(* update() in calibration mode.                                           *)

\* The first point of a calibration discards the old ones.
Points == IF active_point = 0 THEN <<>> ELSE surfacePoints
Discarded == IF active_point = 0 THEN {<<>>} ELSE {}

\* Frames without exactly one touch are ignored.
Ambiguous ==
  /\ Running /\ calibrate
  /\ UNCHANGED calibration_vars

\* Faulty: never looks at the touch that finished the last point.
Finished_Never(t) == FALSE

\* The touch has finished a point, and is still there.
Finished(t) == t = last_id /\ t = last_finished_id

IgnoreFinished(t) ==
  /\ Running /\ calibrate /\ Finished(t)
  /\ surfacePoints' = Points /\ surfacepoints_changed(Discarded)
  /\ UNCHANGED <<calibrate, screenPoints, duration_per_point, progress, current,
                 subdiv, stopped, edited>>

\* Faulty: the pointer is not reset at a new touch.
Pointed_Keeps(t) ==
  IF t = last_id /\ current_touch = NoTouch THEN t ELSE current_touch

\* The state of the current touch after this frame.
Duration(t) == IF t = last_id THEN current_duration + 1 ELSE 0
Pointed(t) ==
  IF t # last_id THEN NoTouch
  ELSE IF current_touch = NoTouch THEN t ELSE current_touch

\* What is read through current_touch: it points at a local variable of the
\* call that set it.  After that call the memory may hold anything.
Position(t) ==
  IF current_touch = NoTouch THEN {Pointed(t)} ELSE {Pointed(t), Unmeasured}

Hold(t) ==
  /\ Running /\ calibrate /\ ~Finished(t)
  /\ Duration(t) < duration_per_point
  /\ current_touch' = Pointed(t) /\ current_duration' = Duration(t)
  /\ last_id' = t
  /\ surfacePoints' = Points /\ surfacepoints_changed(Discarded)
  /\ UNCHANGED <<calibrate, screenPoints, duration_per_point, active_point,
                 last_finished_id, subdiv, stopped, edited>>

\* The touch was held long enough: what was measured is a surface point.
Pressed(t) ==
  /\ Running /\ calibrate /\ ~Finished(t)
  /\ Duration(t) >= duration_per_point
  /\ last_id' = t /\ last_finished_id' = t
  /\ current_touch' = NoTouch /\ current_duration' = 0
  /\ UNCHANGED <<screenPoints, duration_per_point, edited>>

\* *current_touch is read while the pointer is NULL.
PressedNull(t) ==
  /\ Pressed(t) /\ Pointed(t) = NoTouch
  /\ stopped' = "null"
  /\ surfacePoints' = Points /\ surfacepoints_changed(Discarded)
  /\ UNCHANGED <<calibrate, active_point, subdiv>>

\* screenPoints[active_point], read past the end, may be anything.
NextPoint(t) ==
  /\ Pressed(t) /\ Pointed(t) # NoTouch
  /\ active_point # screenPoints - 1 /\ active_point < MaxPoints
  /\ \E p \in Position(t) : surfacePoints' = Append(Points, p)
  /\ surfacepoints_changed(Discarded \cup {surfacePoints'})
  /\ active_point' = active_point + 1
  /\ stopped' \in IF active_point < screenPoints THEN {"no"} ELSE {"no", "range"}
  /\ UNCHANGED <<calibrate, subdiv>>

\* triangulate() of these points, with its assertion.
triangulate(points) ==
  \/ /\ Len(points) = screenPoints
     /\ subdiv' = TRUE /\ retriangulate' = FALSE
     /\ UNCHANGED stopped
  \/ /\ Len(points) # screenPoints
     /\ stopped' = "triangulate"
     /\ UNCHANGED <<subdiv, retriangulate>>

LastPoint(t) ==
  /\ Pressed(t) /\ Pointed(t) # NoTouch
  /\ active_point = screenPoints - 1
  /\ \E p \in Position(t) : surfacePoints' = Append(Points, p)
  /\ active_point' = 0 /\ calibrate' = FALSE /\ calibrated' = TRUE
  /\ triangulate(surfacePoints')
-----------------------------------------------------------------------------
(* update() otherwise: transformPoints, after a triangulation that is due. *)
Transform ==
  /\ Running /\ ~calibrate /\ calibrated
  /\ \/ retriangulate /\ triangulate(surfacePoints)
     \/ ~retriangulate /\ UNCHANGED <<subdiv, retriangulate, stopped>>
  /\ UNCHANGED <<calibrate, screenPoints, surfacePoints, duration_per_point,
                 progress, current, calibrated, edited>>

Calibration_update ==
  \/ Ambiguous \/ Transform
  \/ \E t \in Touch : \/ IgnoreFinished(t) \/ Hold(t) \/ PressedNull(t)
                      \/ NextPoint(t) \/ LastPoint(t)
Set ==
  \/ \E on \in BOOLEAN : SetCalibrate(on)
  \/ \E d \in Durations : SetDuration(d)
  \/ \E n \in Sizes : buildScreenPoints(n) \/ SetSurfacePoints(n)

\* The process has ended.
Ended == ~Running /\ UNCHANGED calibration_vars

CalibrationNext == Calibration_update \/ Set \/ Ended

CalibrationSpec == CalibrationInit /\ [][CalibrationNext]_calibration_vars
-----------------------------------------------------------------------------
CalibrationTypeOK ==
  /\ calibrate \in BOOLEAN /\ screenPoints \in Sizes
  /\ surfacePoints \in Seq(Touch \cup {Unmeasured})
  /\ duration_per_point \in Durations
  /\ active_point \in 0..MaxPoints
  /\ last_id \in Touch \cup {NoTouch} /\ last_finished_id \in Touch \cup {NoTouch}
  /\ current_touch \in Touch \cup {NoTouch} /\ current_duration \in Nat
  /\ calibrated \in BOOLEAN /\ retriangulate \in BOOLEAN
  /\ subdiv \in BOOLEAN
  /\ stopped \in {"no", "null", "range", "triangulate"}
  /\ edited \in BOOLEAN

(* transformPoints always has a triangulation to look a touch up in: none  *)
(* of the ways to become calibrated (the last touch, a preset, a set       *)
(* request) leaves subdiv NULL without asking for a triangulation.         *)
TransformsTriangulated == Running /\ calibrated => retriangulate \/ subdiv

(* Two points in a row are never measured with the same touch ("Don't      *)
(* reuse it to calibrate the next point"), even if the user restarts the   *)
(* calibration while pressing.                                             *)
DifferentTouches ==
  \A i \in 1..(Len(surfacePoints) - 1) :
    surfacePoints[i] \in Touch => surfacePoints[i] # surfacePoints[i + 1]

(* A calibration in progress has one surface point for every screen point  *)
(* before active_point, and active_point is a screen point, unless the     *)
(* points were edited meanwhile ("While calibrating, this list MUST NOT    *)
(* change!") or the grid is empty (nothing enforces the minimum of rows    *)
(* and cols): then screenPoints is read out of range.  The assertion of    *)
(* triangulate() that there are as many surface points as screen points    *)
(* fails only after such an edit, or when update() catches up with a       *)
(* triangulation that was asked for before the points changed again.       *)
ProgressMatchesPoints ==
  /\ ~edited /\ screenPoints > 0 =>
       /\ stopped # "range"
       /\ calibrate /\ active_point > 0 =>
            Len(surfacePoints) = active_point /\ active_point < screenPoints
  /\ stopped = "triangulate" => edited \/ retriangulate

(* A touch counts for a point only while it is the touch seen last, and    *)
(* the time it is held starts at 0 with every new touch: the assertion     *)
(* current_duration == 0 in calibrate() never fails, and current_touch is  *)
(* NULL when it is read only if duration_per_point is 0.                   *)
DurationBelongsToTouch ==
  /\ current_touch = NoTouch => current_duration = 0
  /\ current_touch # NoTouch /\ last_id # NoTouch => current_touch = last_id
  /\ stopped = "null" => duration_per_point = 0

(* The calibration, whatever requests set meanwhile: a touch is looked up  *)
(* only in a triangulation, no touch measures two points in a row, the     *)
(* points keep step with the grid, and the time belongs to one touch.      *)
(* Three ways the process may end are part of it, each only in the case    *)
(* named above: a NULL current_touch, a screen point out of range and the  *)
(* assertion of triangulate().                                             *)
CalibrationHolds ==
  /\ CalibrationTypeOK /\ TransformsTriangulated /\ DifferentTouches
  /\ ProgressMatchesPoints /\ DurationBelongsToTouch

(* What the constants have to be for that: touches, other points and no    *)
(* touch are told apart.                                                   *)
CalibrationAssumption ==
  /\ NoTouch \notin Touch /\ Unmeasured \notin Touch
  /\ Sizes \subseteq Nat /\ Durations \subseteq Nat /\ MaxPoints \in Nat
=============================================================================
