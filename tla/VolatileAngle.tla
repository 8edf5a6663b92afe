--------------------------- MODULE VolatileAngle ---------------------------
(***************************************************************************)
(* moAbstractBlobTrackerModule::trackAngles for one blob.  The finder only *)
(* sees the angle of a bounding box, in [0, 90); the tracker reconstructs  *)
(* the angle in [0, 360) by counting how often the box has "fallen over".  *)
(* Angles are whole degrees, as in the code (int angle).                   *)
(***************************************************************************)
EXTENDS Integers

CONSTANTS
  max_rotation_speed,  \* the property of the tracker, 46 by default
  Speed,               \* the most degrees the blob turns between two sights
  Bound                \* bound on the turns of the blob, in degrees

ASSUME SpeedAssumption ==
  /\ max_rotation_speed \in Nat /\ Speed \in Nat /\ Bound \in Nat

VARIABLES
  real,         \* how far the blob is turned, over all turns
  last_angle, fallen_over,
  trackedangle  \* what the tracker writes into the property angle

vars == <<real, last_angle, fallen_over, trackedangle>>

\* The operator % of C++ rounds towards zero.
CMod(a, b) == IF a >= 0 THEN a % b ELSE -((-a) % b)

\* The angle of the bounding box of a blob turned by r degrees.
BoxAngle(r) == r % 90

Tracked(angle, fallen) == CMod(CMod(angle + 90 * fallen, 360) + 360, 360)

\* Faulty: counts in one direction only.
FallenOver_OneWay(angle) ==
  IF last_angle - angle > max_rotation_speed THEN fallen_over + 1
  ELSE fallen_over

FallenOver(angle) ==
  IF last_angle - angle > max_rotation_speed THEN fallen_over + 1
  ELSE IF angle - last_angle > max_rotation_speed THEN fallen_over - 1
  ELSE fallen_over

\* The first sight: the box tells the angle up to a quarter turn.
Init ==
  /\ real \in 0..89
  /\ last_angle = BoxAngle(real) /\ fallen_over = 0
  /\ trackedangle = BoxAngle(real)

\* The blob was turned by d degrees and found again.
trackAngles(d) ==
  /\ real' = real + d /\ real' \in (-Bound)..Bound
  /\ LET angle == BoxAngle(real') IN
       /\ fallen_over' = FallenOver(angle)
       /\ last_angle' = angle
       /\ trackedangle' = Tracked(angle, FallenOver(angle))

Next == \E d \in (-Speed)..Speed : trackAngles(d)

Spec == Init /\ [][Next]_vars
-----------------------------------------------------------------------------
TypeOK ==
  /\ real \in Int /\ fallen_over \in Int
  /\ last_angle \in 0..89 /\ trackedangle \in 0..359

(* The reconstructed angle is the real one: no quarter turn is missed or   *)
(* counted twice, in either direction and over any number of turns.        *)
TracksRotation == trackedangle = real % 360
=============================================================================
