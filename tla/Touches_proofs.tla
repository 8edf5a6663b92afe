-------------------------- MODULE Touches_proofs --------------------------
(***************************************************************************)
(* The blob trackers, for every set of trackers and of scenes, all ages    *)
(* and distances: a tracker follows blobs of different ids, the trackers   *)
(* together keep the promise of BlobIds, what is passed on is there, and   *)
(* the greedy tracker never gives the id of an object to another one.      *)
(* First, that the angle of a blob is reconstructed from its box, for      *)
(* every speed.                                                            *)
(***************************************************************************)
EXTENDS BlobTracker, VolatileAngle, FiniteSetTheorems, TLAPS

(* The reconstructed angle is right for every rotation speed the property  *)
(* max_rotation_speed can tell from a quarter turn.                        *)

(* The box angle, and how often the box has fallen over, give the turn.    *)
Decomposed == real = last_angle + 90 * fallen_over

AngleInv == TypeOK /\ Decomposed /\ TracksRotation

(* Every number of degrees is a box angle and some quarter turns.          *)
LEMMA Quarters ==
  ASSUME NEW n \in Int
  PROVE  /\ n % 90 \in 0..89
         /\ \E k \in Int : n = (n % 90) + 90 * k
<1>1. n % 90 \in 0..89
  OBVIOUS
<1>2. n \div 90 \in Int /\ n = (n % 90) + 90 * (n \div 90)
  BY SMT, SMTT(30)
<1> QED
  BY <1>1, <1>2

(* "%360+360" and one more % make C++'s remainder that of Z.               *)
LEMMA Normalised ==
  ASSUME NEW a \in Int, NEW f \in Int
  PROVE  Tracked(a, f) = (a + 90 * f) % 360 /\ Tracked(a, f) \in 0..359
<1> DEFINE x == a + 90 * f
<1>1. x \in Int
  OBVIOUS
<1> HIDE DEF x
<1>2. CMod(CMod(x, 360) + 360, 360) = x % 360
  BY <1>1 DEF CMod
<1>3. x % 360 \in 0..359
  BY <1>1
<1> QED
  BY <1>2, <1>3 DEF Tracked, x

(* If the blob turns, between two sights, by at most max_rotation_speed    *)
(* and by less than 90 - max_rotation_speed degrees, trackAngles never     *)
(* miscounts: with the default of 46, up to 43 degrees.                    *)
THEOREM AngleIsReconstructed ==
  ASSUME Speed <= max_rotation_speed, Speed < 90 - max_rotation_speed
  PROVE  Spec => []TracksRotation
<1>1. Init => AngleInv
  BY DEF Init, AngleInv, TypeOK, Decomposed, TracksRotation, BoxAngle
<1>2. AngleInv /\ [Next]_vars => AngleInv'
  <2> SUFFICES ASSUME AngleInv, [Next]_vars PROVE AngleInv'
    OBVIOUS
  <2>1. ASSUME NEW d \in (-Speed)..Speed, trackAngles(d) PROVE AngleInv'
    <3>1. real' = real + d /\ real' \in Int /\ real \in Int /\ d \in Int
      BY <2>1, SpeedAssumption DEF trackAngles, AngleInv, TypeOK
    <3>2. PICK b \in 0..89, k \in Int : b = BoxAngle(real') /\ real' = b + 90 * k
      BY <3>1, Quarters DEF BoxAngle
    <3>3. last_angle \in 0..89 /\ fallen_over \in Int
          /\ last_angle + 90 * fallen_over + d = b + 90 * k
      BY <3>1, <3>2, Zenon DEF AngleInv, TypeOK, Decomposed
    <3>4. k = FallenOver(b)
      <4>1. k \in {fallen_over - 1, fallen_over, fallen_over + 1}
        BY <3>3, SpeedAssumption
      <4>2. CASE k = fallen_over
        BY <3>3, <4>2, SpeedAssumption DEF FallenOver
      <4>3. CASE k = fallen_over + 1
        BY <3>3, <4>3, SpeedAssumption DEF FallenOver
      <4>4. CASE k = fallen_over - 1
        BY <3>3, <4>4, SpeedAssumption, SMTT(30) DEF FallenOver
      <4> QED
        BY <4>1, <4>2, <4>3, <4>4, SMTT(30)
    <3>5. last_angle' = b /\ fallen_over' = k /\ trackedangle' = Tracked(b, k)
      BY <2>1, <3>2, <3>4 DEF trackAngles
    <3>6. Tracked(b, k) = (b + 90 * k) % 360 /\ Tracked(b, k) \in 0..359
      <4>1. b \in Int
        OBVIOUS
      <4> QED
        BY <4>1, Normalised, Zenon, ZenonT(30)
    <3> QED
      BY <3>1, <3>2, <3>5, <3>6, Zenon, ZenonT(30)
      DEF AngleInv, TypeOK, Decomposed, TracksRotation
  <2>2. CASE UNCHANGED vars
    BY <2>2 DEF AngleInv, TypeOK, Decomposed, TracksRotation, vars
  <2> QED
    BY <2>1, <2>2 DEF Next
<1>3. AngleInv => TracksRotation
  BY DEF AngleInv
<1> QED
  BY <1>1, <1>2, <1>3, PTL DEF Spec
-----------------------------------------------------------------------------
(* The helpers.                                                            *)

LEMMA MinOfTwo ==
  ASSUME NEW a \in Int, NEW b \in Int
  PROVE  Min({a, b}) = IF a <= b THEN a ELSE b
<1>1. \E x \in {a, b} : \A y \in {a, b} : x <= y
  OBVIOUS
<1> QED
  BY <1>1 DEF Min

\* Counting the indices up to k numbers those of ks from 1 on.
LEMMA RanksAreABijection ==
  ASSUME NEW n \in Nat, NEW ks \in SUBSET (1..n)
  PROVE  /\ IsFiniteSet(ks) /\ Cardinality(ks) \in Nat
         /\ Rank(ks) \in [ks -> 1..Cardinality(ks)]
         /\ \A k, l \in ks : Rank(ks)[k] = Rank(ks)[l] => k = l
         /\ \A i \in 1..Cardinality(ks) : \E k \in ks : Rank(ks)[k] = i
<1> DEFINE UpTo(k) == {j \in ks : j <= k}
           c == Cardinality(ks)
<1>1. IsFiniteSet(1..n)
  BY FS_Interval
<1>2. IsFiniteSet(ks) /\ c \in Nat
  BY <1>1, FS_Subset, FS_CardinalityType, Zenon
<1> ks \in SUBSET Int
  OBVIOUS
<1>3. \A k \in ks : k \in Int /\ UpTo(k) \in SUBSET ks /\ k \in UpTo(k)
  OBVIOUS
<1>4. ASSUME NEW k \in ks, NEW l \in ks, k < l
      PROVE  UpTo(k) \in SUBSET UpTo(l) /\ l \notin UpTo(k)
  <2>1. \A j \in ks : j <= k => j <= l
    BY <1>4
  <2>2. ~(l <= k)
    BY <1>4
  <2> QED
    BY <2>1, <2>2, Zenon
<1> HIDE DEF UpTo
<1>5. ASSUME NEW k \in ks
      PROVE  IsFiniteSet(UpTo(k)) /\ Cardinality(UpTo(k)) \in 1..c
  <2>1. IsFiniteSet(UpTo(k)) /\ Cardinality(UpTo(k)) <= c /\ Cardinality(UpTo(k)) \in Nat
    BY <1>2, <1>3, FS_Subset, FS_CardinalityType
  <2>2. Cardinality(UpTo(k)) # 0
    BY <1>3, <2>1, FS_EmptySet
  <2> QED
    BY <1>2, <2>1, <2>2
<1>6. ASSUME NEW k \in ks, NEW l \in ks, k < l
      PROVE  Cardinality(UpTo(k)) # Cardinality(UpTo(l))
  <2>1. Cardinality(UpTo(l)) = Cardinality(UpTo(k)) => UpTo(l) = UpTo(k)
    BY <1>4, <1>5, <1>6, FS_Subset
  <2> QED
    BY <1>3, <1>4, <1>6, <2>1
<1>7. Rank(ks) = [k \in ks |-> Cardinality(UpTo(k))]
  BY DEF Rank, UpTo
<1>8. Rank(ks) \in [ks -> 1..c]
  BY <1>5, <1>7
<1>9. ASSUME NEW k \in ks, NEW l \in ks, Rank(ks)[k] = Rank(ks)[l]
      PROVE  k = l
  <2>1. Cardinality(UpTo(k)) = Cardinality(UpTo(l)) /\ k \in Int /\ l \in Int
    BY <1>3, <1>7, <1>9
  <2> QED
    BY <1>6, <2>1
<1>10. Rank(ks) \in Injection(ks, 1..c)
  BY <1>8, <1>9 DEF Injection, IsInjective
<1>11. IsFiniteSet(1..c) /\ Cardinality(1..c) = c
  BY <1>2, FS_Interval
<1>12. Rank(ks) \in Surjection(ks, 1..c)
  BY <1>10, <1>11, FS_Injection
<1> QED
  BY <1>2, <1>8, <1>9, <1>12 DEF Surjection

\* Picked lists every chosen blob once.
LEMMA PickedProperties ==
  ASSUME NEW S, NEW blobs \in Seq(S), NEW ks \in SUBSET (1..Len(blobs))
  PROVE  /\ Picked(blobs, ks) \in Seq(S) /\ Len(Picked(blobs, ks)) = Cardinality(ks)
         /\ IsFiniteSet(ks) /\ Cardinality(ks) \in Nat
         /\ \E at \in [1..Cardinality(ks) -> ks] :
              /\ \A i \in 1..Cardinality(ks) : Picked(blobs, ks)[i] = blobs[at[i]]
              /\ \A i, j \in 1..Cardinality(ks) : at[i] = at[j] => i = j
              /\ \A k \in ks : \E i \in 1..Cardinality(ks) : at[i] = k
<1> DEFINE c == Cardinality(ks)
           at == [i \in 1..c |-> CHOOSE k \in ks : Rank(ks)[k] = i]
<1>1. /\ IsFiniteSet(ks) /\ c \in Nat
      /\ Rank(ks) \in [ks -> 1..c]
      /\ \A k, l \in ks : Rank(ks)[k] = Rank(ks)[l] => k = l
      /\ \A i \in 1..c : \E k \in ks : Rank(ks)[k] = i
  <2>1. Len(blobs) \in Nat
    OBVIOUS
  <2> QED
    BY <2>1, RanksAreABijection, Zenon
<1>2. ASSUME NEW i \in 1..c PROVE at[i] \in ks /\ Rank(ks)[at[i]] = i
  <2>1. \E k \in ks : Rank(ks)[k] = i
    BY <1>1
  <2>2. at[i] = CHOOSE k \in ks : Rank(ks)[k] = i
    OBVIOUS
  <2> HIDE DEF at
  <2> QED
    BY <2>1, <2>2, Zenon
<1>3. Picked(blobs, ks) = [i \in 1..c |-> blobs[at[i]]]
  BY DEF Picked
<1> HIDE DEF at
<1>4. at \in [1..c -> ks]
  BY <1>2 DEF at
<1>5. \A i, j \in 1..c : at[i] = at[j] => i = j
  BY <1>2
<1>6. ASSUME NEW k \in ks PROVE \E i \in 1..c : at[i] = k
  <2>1. Rank(ks)[k] \in 1..c
    BY <1>1
  <2>2. at[Rank(ks)[k]] = k
    BY <1>1, <1>2, <2>1, Zenon
  <2> QED
    BY <2>1, <2>2
<1>7. ASSUME NEW i \in 1..c PROVE blobs[at[i]] \in S
  <2>1. at[i] \in 1..Len(blobs)
    BY <1>2, Zenon
  <2> QED
    BY <2>1
<1>8. Picked(blobs, ks) \in Seq(S) /\ Len(Picked(blobs, ks)) = c
  BY <1>1, <1>3, <1>7, SMT, SMTT(30)
<1>9. \A i \in 1..c : Picked(blobs, ks)[i] = blobs[at[i]]
  BY <1>3
<1> HIDE DEF c
<1> QED
  BY <1>1, <1>4, <1>5, <1>6, <1>8, <1>9, Zenon DEF c
-----------------------------------------------------------------------------
(* The inductive invariant.                                                *)

Typed ==
  /\ view \in Views /\ id_counter \in 0..MaxId
  /\ new_blobs = [t \in Tracker |-> new_blobs[t]]
  /\ old_blobs = [t \in Tracker |-> old_blobs[t]]
  /\ adolescent = [t \in Tracker |-> adolescent[t]]
  /\ next = [t \in Tracker |-> next[t]]
  /\ n2s = [t \in Tracker |-> n2s[t]]
  /\ sight \in [1..MaxId -> [seen : Nat, streak : Nat, missed : Nat]]

Lists(t) ==
  /\ new_blobs[t] \in Seq(Blob(t)) /\ Len(new_blobs[t]) <= MaxBlobs
  /\ old_blobs[t] \in Seq(Blob(t))
  /\ next[t] \in 0..(Len(new_blobs[t]) + 1)
  /\ next[t] = 0 => new_blobs[t] = <<>>
  /\ adolescent[t] \subseteq Ids(old_blobs[t])

\* Blobs have an id as soon as trackBlobs has looked at them.
Named(t) ==
  /\ \A k \in 1..Len(old_blobs[t]) : old_blobs[t][k].id \in 1..id_counter
  /\ \A i \in 1..Len(new_blobs[t]) :
       IF i < next[t] THEN new_blobs[t][i].id \in 1..id_counter
       ELSE new_blobs[t][i].id = 0

Distinct(t) ==
  /\ \A j, k \in 1..Len(old_blobs[t]) : old_blobs[t][j].id = old_blobs[t][k].id => j = k
  /\ \A i, j \in 1..Len(new_blobs[t]) :
       i < next[t] /\ j < next[t] /\ new_blobs[t][i].id = new_blobs[t][j].id => i = j

\* Munkres: the assignment is made before the first blob gets its id.
Assigned(t) ==
  t \in Munkres /\ next[t] # 0 =>
    /\ n2s[t] \in Matchings(new_blobs[t], old_blobs[t])
    /\ \A i \in 1..Len(new_blobs[t]) : i < next[t] =>
         IF n2s[t][i] = 0 THEN new_blobs[t][i].id \notin Ids(old_blobs[t])
         ELSE new_blobs[t][i].id = old_blobs[t][n2s[t][i]].id

\* Greedy: an object continues only itself.
ObjectsContinue(t) ==
  t \notin Munkres =>
    \A i \in 1..Len(new_blobs[t]), k \in 1..Len(old_blobs[t]) :
      /\ new_blobs[t][i].id = old_blobs[t][k].id
      /\ new_blobs[t][i].kind \in Objects
      => old_blobs[t][k].kind \in Objects /\ old_blobs[t][k].fid = new_blobs[t][i].fid

TrackerInv(t) == Lists(t) /\ Named(t) /\ Distinct(t) /\ Assigned(t) /\ ObjectsContinue(t)

\* An id belongs to one tracker.
Live(t) == (Ids(old_blobs[t]) \cup Ids(new_blobs[t])) \ {0}
Apart == \A t, u \in Tracker : \A i : i \in Live(t) /\ i \in Live(u) => t = u

IdsInv == Typed /\ (\A t \in Tracker : TrackerInv(t)) /\ Apart
-----------------------------------------------------------------------------
LEMMA BlobsAreRecords ==
  ASSUME BlobAssumption, view \in Views, NEW t \in Tracker, NEW b \in Blob(t)
  PROVE  b.x \in Int /\ b.fid \in Int /\ b.id \in 0..MaxId /\ b.age \in 0..(max_age + 2)
<1>1. view.sees[t] \in SUBSET [x : Int, kind : STRING, fid : Int]
  BY DEF BlobAssumption
<1> QED
  BY <1>1 DEF Blob

\* The blobs of the last frames grow older, which changes nothing else.
LEMMA GrownProperties ==
  ASSUME BlobAssumption, view \in Views, NEW t \in Tracker, NEW old \in Seq(Blob(t))
  PROVE  /\ Grown(old) \in Seq(Blob(t)) /\ Len(Grown(old)) = Len(old)
         /\ \A k \in 1..Len(old) :
              /\ Grown(old)[k] = [old[k] EXCEPT !.age = Older(old[k].age)]
              /\ Grown(old)[k].id = old[k].id
<1>1. Len(old) \in Nat
  OBVIOUS
<1>2. ASSUME NEW k \in 1..Len(old)
      PROVE  /\ [old[k] EXCEPT !.age = Older(old[k].age)] \in Blob(t)
             /\ [old[k] EXCEPT !.age = Older(old[k].age)].id = old[k].id
  <2>1. old[k] \in Blob(t)
    OBVIOUS
  <2>2. old[k].age \in 0..(max_age + 2) /\ max_age \in Nat
    BY <2>1, BlobsAreRecords DEF BlobAssumption
  <2>3. Older(old[k].age) \in 0..(max_age + 2)
    BY <2>2, MinOfTwo DEF Older
  <2> QED
    BY <2>1, <2>3, Zenon DEF Blob
<1>3. Grown(old) \in [1..Len(old) -> Blob(t)]
  BY <1>2 DEF Grown
<1>4. Grown(old) \in Seq(Blob(t)) /\ Len(Grown(old)) = Len(old)
  BY <1>1, <1>3
<1>5. \A k \in 1..Len(old) : Grown(old)[k] = [old[k] EXCEPT !.age = Older(old[k].age)]
  BY DEF Grown
<1> QED
  BY <1>2, <1>4, <1>5, Zenon

\* A tracker that does not move keeps its invariant while the counter grows.
LEMMA OthersKeep ==
  ASSUME NEW u \in Tracker, TrackerInv(u), view' = view, id_counter \in Nat,
         id_counter' \in Nat, id_counter <= id_counter',
         new_blobs'[u] = new_blobs[u], old_blobs'[u] = old_blobs[u],
         next'[u] = next[u], n2s'[u] = n2s[u], adolescent'[u] = adolescent[u]
  PROVE  TrackerInv(u)' /\ Live(u)' = Live(u)
<1>0. Lists(u) /\ Named(u) /\ Distinct(u) /\ Assigned(u) /\ ObjectsContinue(u)
  BY Zenon DEF TrackerInv
<1>1. Lists(u)'
  BY <1>0, Zenon DEF Lists, Blob, Ids
<1>2. Named(u)'
  <2>1. \A id : id \in 1..id_counter => id \in 1..id_counter'
    OBVIOUS
  <2> QED
    BY <1>0, <2>1, Zenon DEF Named
<1>3. Distinct(u)'
  BY <1>0, ZenonT(30) DEF Distinct
<1>4. Assigned(u)'
  BY <1>0, Zenon, ZenonT(30) DEF Assigned, Matchings, Ids
<1>5. ObjectsContinue(u)'
  <2> SUFFICES ASSUME u \notin Munkres,
                      NEW i \in 1..Len(new_blobs'[u]), NEW k \in 1..Len(old_blobs'[u]),
                      new_blobs'[u][i].id = old_blobs'[u][k].id,
                      new_blobs'[u][i].kind \in Objects
               PROVE  /\ old_blobs'[u][k].kind \in Objects
                      /\ old_blobs'[u][k].fid = new_blobs'[u][i].fid
    BY Zenon DEF ObjectsContinue
  <2>1. /\ i \in 1..Len(new_blobs[u]) /\ k \in 1..Len(old_blobs[u])
        /\ new_blobs[u][i].id = old_blobs[u][k].id /\ new_blobs[u][i].kind \in Objects
    BY Zenon
  <2>2. /\ old_blobs[u][k].kind \in Objects
        /\ old_blobs[u][k].fid = new_blobs[u][i].fid
    BY <1>0, <2>1, Zenon DEF ObjectsContinue
  <2> QED
    BY <2>2, Zenon
<1> QED
  BY <1>1, <1>2, <1>3, <1>4, <1>5 DEF TrackerInv, Live, Ids

LEMMA IdsInit == ASSUME BlobAssumption, TrackerInit PROVE IdsInv
<1>1. Typed
  BY DEF TrackerInit, Typed, BlobAssumption, Unseen
<1>2. ASSUME NEW t \in Tracker PROVE TrackerInv(t) /\ Live(t) = {}
  BY DEF TrackerInit, TrackerInv, Lists, Named, Distinct, Assigned, ObjectsContinue, Live, Ids,
     BlobAssumption
<1> QED
  BY <1>1, <1>2 DEF IdsInv, Apart

\* What the rest follows from: one tracker moves, the others stay.
LEMMA OneMoves ==
  ASSUME IdsInv, NEW t \in Tracker, Typed', TrackerInv(t)', view' = view,
         id_counter' \in Nat, id_counter <= id_counter',
         \A u \in Tracker : u # t =>
           /\ new_blobs'[u] = new_blobs[u] /\ old_blobs'[u] = old_blobs[u]
           /\ next'[u] = next[u] /\ n2s'[u] = n2s[u] /\ adolescent'[u] = adolescent[u],
         \A i : i \in Live(t)' => i \in Live(t) \/ \A u \in Tracker : i \notin Live(u)
  PROVE  IdsInv'
<1>1. id_counter \in Nat
  BY DEF IdsInv, Typed
<1>2. ASSUME NEW u \in Tracker, u # t PROVE TrackerInv(u)' /\ Live(u)' = Live(u)
  BY <1>1, <1>2, OthersKeep DEF IdsInv
<1>3. Apart'
  BY <1>2 DEF IdsInv, Apart
<1> QED
  BY <1>2, <1>3 DEF IdsInv

LEMMA UpdateKeeps ==
  ASSUME BlobAssumption, IdsInv, NEW t \in Tracker, update(t)
  PROVE  IdsInv' /\ LiveIds' = LiveIds
<1> DEFINE new == new_blobs'[t]
           old == old_blobs[t]
           aged == old_blobs'[t]
<1>1. Typed /\ Lists(t) /\ Named(t) /\ Distinct(t) /\ next[t] = 0
  BY DEF IdsInv, TrackerInv, update
<1>2. /\ view' = view /\ id_counter' = id_counter /\ sight' = sight
      /\ next' = [next EXCEPT ![t] = 1] /\ adolescent' = [adolescent EXCEPT ![t] = {}]
  BY DEF update
<1>3. PICK frame \in Frames(t) :
        /\ new_blobs' = [new_blobs EXCEPT ![t] =
             [i \in 1..Len(frame) |->
                [x |-> frame[i].x, kind |-> frame[i].kind, fid |-> frame[i].fid,
                 id |-> 0, age |-> 0]]]
        /\ old_blobs' = [old_blobs EXCEPT ![t] = Grown(old)]
        /\ IF t \in Munkres
           THEN \E f \in mtdev_match(new_blobs'[t], old_blobs[t]) :
                  n2s' = [n2s EXCEPT ![t] = f]
           ELSE UNCHANGED n2s
  BY Zenon DEF update
<1>4. Len(frame) \in 0..MaxBlobs /\ \A i \in 1..Len(frame) : frame[i] \in view.sees[t]
  <2>1. PICK n \in 0..MaxBlobs : frame \in [1..n -> view.sees[t]]
    BY DEF Frames
  <2>2. n \in Nat
    BY DEF BlobAssumption
  <2> QED
    BY <2>1, <2>2
<1>5. /\ new = [i \in 1..Len(frame) |->
                  [x |-> frame[i].x, kind |-> frame[i].kind, fid |-> frame[i].fid,
                   id |-> 0, age |-> 0]]
      /\ aged = Grown(old)
  BY <1>1, <1>3 DEF Typed
<1>6. Len(frame) \in Nat /\ Len(frame) <= MaxBlobs /\ MaxId \in Nat /\ max_age \in Nat
  BY <1>4 DEF BlobAssumption
<1>7. new \in Seq(Blob(t)) /\ Len(new) = Len(frame) /\ \A i \in 1..Len(new) : new[i].id = 0
  <2>1. ASSUME NEW i \in 1..Len(frame) PROVE new[i] \in Blob(t) /\ new[i].id = 0
    BY <1>4, <1>5, <1>6 DEF Blob
  <2>2. DOMAIN new = 1..Len(frame) /\ new = [i \in 1..Len(frame) |-> new[i]]
    BY <1>5
  <2> HIDE DEF new
  <2>3. new \in [1..Len(frame) -> Blob(t)]
    BY <2>1, <2>2, Zenon
  <2>4. new \in Seq(Blob(t)) /\ Len(new) = Len(frame)
    BY <1>6, <2>3
  <2> QED
    BY <2>1, <2>4, Zenon
<1>8. /\ aged \in Seq(Blob(t)) /\ Len(aged) = Len(old)
      /\ \A k \in 1..Len(old) : aged[k].id = old[k].id
  <2>1. old \in Seq(Blob(t)) /\ view \in Views
    BY <1>1 DEF Lists, Typed
  <2>2. /\ Grown(old) \in Seq(Blob(t)) /\ Len(Grown(old)) = Len(old)
        /\ \A k \in 1..Len(old) : Grown(old)[k].id = old[k].id
    BY <2>1, GrownProperties, Zenon
  <2>3. aged = Grown(old)
    BY <1>5
  <2> QED
    BY <2>2, <2>3
<1>9. Typed'
  <2>1. new_blobs' = [u \in Tracker |-> new_blobs'[u]] /\ old_blobs' = [u \in Tracker |-> old_blobs'[u]]
    BY <1>1, <1>3, Zenon DEF Typed
  <2>2. n2s' = [u \in Tracker |-> n2s'[u]]
    BY <1>1, <1>3 DEF Typed
  <2> QED
    BY <1>1, <1>2, <2>1, <2>2, Zenon DEF Typed
<1>10. next'[t] = 1 /\ adolescent'[t] = {} /\ Blob(t)' = Blob(t)
  BY <1>1, <1>2, SMT, SMTT(30) DEF Typed, Blob
<1> HIDE DEF new, old, aged
<1>11. Lists(t)'
  BY <1>6, <1>7, <1>8, <1>10 DEF Lists, new, aged
<1>12. Named(t)'
  BY <1>1, <1>2, <1>7, <1>8, <1>10, SMTT(30) DEF Named, new, aged, old
<1>13. Distinct(t)'
  BY <1>1, <1>7, <1>8, <1>10 DEF Distinct, new, aged, old
<1>14. Assigned(t)'
  <2> SUFFICES ASSUME t \in Munkres PROVE n2s'[t] \in Matchings(new, aged)
    BY <1>7, <1>10 DEF Assigned, new, aged
  <2>1. n2s'[t] \in mtdev_match(new, old)
    BY <1>1, <1>3 DEF Typed, new, old
  <2> QED
    BY <1>8, <2>1, Zenon DEF mtdev_match, Matchings
<1>15. ObjectsContinue(t)'
  <2>1. \A k \in 1..Len(aged) : aged[k].id # 0
    BY <1>1, <1>8 DEF Named, old
  <2> QED
    BY <1>7, <2>1 DEF ObjectsContinue, new, aged
<1>16. Live(t)' = Live(t)
  <2>1. Ids(new) \subseteq {0}
    BY <1>7 DEF Ids
  <2>2. Ids(aged) = Ids(old)
    BY <1>8 DEF Ids
  <2>3. Ids(new_blobs[t]) = {}
    BY <1>1 DEF Lists, Ids
  <2> QED
    BY <2>1, <2>2, <2>3 DEF Live, new, old, aged
<1>17. \A u \in Tracker : u # t =>
         /\ new_blobs'[u] = new_blobs[u] /\ old_blobs'[u] = old_blobs[u]
         /\ next'[u] = next[u] /\ n2s'[u] = n2s[u] /\ adolescent'[u] = adolescent[u]
  BY <1>1, <1>2, <1>3, Zenon DEF Typed
<1>18. IdsInv'
  <2>1. id_counter \in Nat
    BY <1>1 DEF Typed
  <2> QED
    BY <1>2, <1>9, <1>11, <1>12, <1>13, <1>14, <1>15, <1>16, <1>17, <2>1, OneMoves, SMT, SMTT(30)
    DEF TrackerInv
<1>19. ASSUME NEW u \in Tracker PROVE Live(u)' = Live(u)
  <2>1. CASE u = t
    BY <1>16, <2>1
  <2>2. CASE u # t
    BY <1>17, <2>2 DEF Live, Ids
  <2> QED
    BY <2>1, <2>2
<1> QED
  BY <1>18, <1>19 DEF LiveIds, Live

\* trackBlobs gives the next blob an id: that of an old one, or a new one.
LEMMA NamingKeeps ==
  ASSUME BlobAssumption, IdsInv, NEW t \in Tracker, next[t] \in 1..Len(new_blobs[t]),
         NEW STATE b, b \in Blob(t),
         new_blobs' = [new_blobs EXCEPT ![t] = [new_blobs[t] EXCEPT ![next[t]] = b]],
         next' = [next EXCEPT ![t] = next[t] + 1],
         UNCHANGED <<view, old_blobs, adolescent, n2s, sight>>,
         id_counter' \in 0..MaxId, id_counter <= id_counter', b.id \in 1..id_counter',
         \A j \in 1..(next[t] - 1) : new_blobs[t][j].id # b.id,
         t \in Munkres =>
           IF n2s[t][next[t]] = 0 THEN b.id \notin Ids(old_blobs[t])
           ELSE b.id = old_blobs[t][n2s[t][next[t]]].id,
         t \notin Munkres =>
           \A k \in 1..Len(old_blobs[t]) :
             b.id = old_blobs[t][k].id /\ b.kind \in Objects
             => old_blobs[t][k].kind \in Objects /\ old_blobs[t][k].fid = b.fid,
         b.id \in Live(t) \/ \A u \in Tracker : b.id \notin Live(u)
  PROVE  IdsInv' /\ LiveIds' = [LiveIds EXCEPT ![t] = @ \cup {b.id}]
<1> DEFINE i == next[t]
           new == new_blobs[t]
           now == new_blobs'[t]
           old == old_blobs[t]
<1>1. Typed /\ Lists(t) /\ Named(t) /\ Distinct(t) /\ Assigned(t) /\ ObjectsContinue(t)
  BY DEF IdsInv, TrackerInv
<1>2. /\ now = [new EXCEPT ![i] = b] /\ next'[t] = i + 1 /\ old_blobs'[t] = old
      /\ n2s'[t] = n2s[t] /\ adolescent'[t] = adolescent[t] /\ Blob(t)' = Blob(t)
  BY <1>1 DEF Typed, Blob
<1>3. new \in Seq(Blob(t)) /\ Len(new) \in Nat /\ i \in 1..Len(new) /\ i \in Nat
  BY <1>1 DEF Lists
<1>4. /\ now \in Seq(Blob(t)) /\ Len(now) = Len(new) /\ now[i] = b
      /\ \A j \in 1..Len(new) : j # i => now[j] = new[j]
  BY <1>2, <1>3
<1>5. id_counter \in Nat /\ id_counter' \in Nat
  BY <1>1 DEF Typed, BlobAssumption
<1>6. Typed'
  <2>1. new_blobs' = [u \in Tracker |-> new_blobs'[u]]
    BY <1>1, Zenon DEF Typed
  <2>2. next' = [u \in Tracker |-> next'[u]]
    BY <1>1, ZenonT(30) DEF Typed
  <2> QED
    BY <1>1, <2>1, <2>2 DEF Typed
<1>7. Len(old) \in Nat /\ next[t] = i
  BY <1>1 DEF Lists
<1> HIDE DEF i, new, now, old
<1>8. Lists(t)'
  <2>1. Ids(old_blobs[t])' = Ids(old)
    BY DEF Ids, old
  <2> QED
    BY <1>1, <1>2, <1>3, <1>4, <2>1, SMTT(30) DEF Lists, i, new, now, old
<1>9. Named(t)'
  <2>1. \A k \in 1..Len(old) : old[k].id \in 1..id_counter'
    BY <1>1, <1>5, SMTT(30) DEF Named, old
  <2>2. ASSUME NEW j \in 1..Len(new)
        PROVE  IF j < i + 1 THEN now[j].id \in 1..id_counter' ELSE now[j].id = 0
    <3>1. IF j < i THEN new[j].id \in 1..id_counter ELSE new[j].id = 0
      BY <1>1 DEF Named, new, i
    <3>2. CASE j = i
      BY <1>3, <1>4, <3>2, SMTT(30)
    <3>3. CASE j # i
      BY <1>3, <1>4, <1>5, <3>1, <3>3, SMT, SMTT(30)
    <3> QED
      BY <3>2, <3>3, SMTT(30)
  <2> QED
    BY <1>2, <1>4, <2>1, <2>2, SMTT(30) DEF Named, now, old, new
<1>10. \A j \in 1..Len(new) : j < i => new[j].id # b.id
  BY <1>3, SMTT(30) DEF i, new
<1>11. Distinct(t)'
  <2>1. \A j, k \in 1..Len(new) : j < i /\ k < i /\ new[j].id = new[k].id => j = k
    BY <1>1 DEF Distinct, new, i
  <2>2. ASSUME NEW j \in 1..Len(new), NEW k \in 1..Len(new), j < i + 1, k < i + 1,
               now[j].id = now[k].id
        PROVE  j = k
    <3>1. (j = i \/ j < i) /\ (k = i \/ k < i)
      BY <1>3, <2>2, SMT, SMTT(30)
    <3> QED
      BY <1>3, <1>4, <1>10, <2>1, <2>2, <3>1, Zenon, ZenonT(30)
  <2>3. \A j, k \in 1..Len(old) : old[j].id = old[k].id => j = k
    BY <1>1 DEF Distinct, old
  <2> QED
    BY <1>2, <1>4, <2>2, <2>3, SMTT(30) DEF Distinct, now, old
<1>12. Assigned(t)'
  <2> SUFFICES ASSUME t \in Munkres
               PROVE  /\ n2s[t] \in Matchings(now, old)
                      /\ \A j \in 1..Len(new) : j < i + 1 =>
                           IF n2s[t][j] = 0 THEN now[j].id \notin Ids(old)
                           ELSE now[j].id = old[n2s[t][j]].id
    BY <1>2, <1>4, SMT, SMTT(30) DEF Assigned, now, old
  <2>1. /\ n2s[t] \in Matchings(new, old)
        /\ \A j \in 1..Len(new) : j < i =>
             IF n2s[t][j] = 0 THEN new[j].id \notin Ids(old)
             ELSE new[j].id = old[n2s[t][j]].id
    BY <1>1, <1>3 DEF Assigned, new, old, i
  <2>2. n2s[t] \in Matchings(now, old)
    BY <1>4, <2>1, Zenon, ZenonT(30) DEF Matchings
  <2>3. IF n2s[t][i] = 0 THEN b.id \notin Ids(old) ELSE b.id = old[n2s[t][i]].id
    BY DEF i, old
  <2>4. ASSUME NEW j \in 1..Len(new), j < i + 1
        PROVE  IF n2s[t][j] = 0 THEN now[j].id \notin Ids(old)
               ELSE now[j].id = old[n2s[t][j]].id
    <3>1. CASE j = i
      BY <1>4, <2>3, <3>1
    <3>2. CASE j # i
      <4>1. j < i
        BY <1>3, <2>4, <3>2
      <4>2. now[j] = new[j]
        BY <1>4, <3>2
      <4> QED
        BY <2>1, <4>1, <4>2
    <3> QED
      BY <3>1, <3>2
  <2> QED
    BY <2>2, <2>4, Zenon, ZenonT(30)
<1>13. ObjectsContinue(t)'
  <2> SUFFICES ASSUME t \notin Munkres, NEW j \in 1..Len(new), NEW k \in 1..Len(old),
                      now[j].id = old[k].id, now[j].kind \in Objects
               PROVE  old[k].kind \in Objects /\ old[k].fid = now[j].fid
    BY <1>2, <1>4 DEF ObjectsContinue, now, old
  <2>1. CASE j = i
    BY <1>4, <2>1 DEF old
  <2>2. CASE j # i
    BY <1>1, <1>4, <2>2, SMT, SMTT(30) DEF ObjectsContinue, new, old
  <2> QED
    BY <2>1, <2>2, Zenon, ZenonT(30)
<1>14. Live(t)' = Live(t) \cup {b.id}
  <2>1. new[i].id = 0
    BY <1>1, <1>3 DEF Named, new, i
  <2>2. ASSUME NEW n \in Ids(now) PROVE n \in Ids(new) \/ n = b.id
    BY <1>3, <1>4 DEF Ids
  <2>3. ASSUME NEW n \in Ids(new), n # 0 PROVE n \in Ids(now)
    BY <1>3, <1>4, <2>1, <2>3, Zenon, ZenonT(30) DEF Ids
  <2>4. b.id \in Ids(now) /\ b.id # 0
    BY <1>3, <1>4, <1>5 DEF Ids
  <2> QED
    BY <1>2, <2>2, <2>3, <2>4, ZenonT(30) DEF Live, now, new, old
<1>15. \A u \in Tracker : u # t =>
         /\ new_blobs'[u] = new_blobs[u] /\ old_blobs'[u] = old_blobs[u]
         /\ next'[u] = next[u] /\ n2s'[u] = n2s[u] /\ adolescent'[u] = adolescent[u]
  BY <1>1 DEF Typed
<1>16. IdsInv'
  <2>1. TrackerInv(t)'
    BY <1>8, <1>9, <1>11, <1>12, <1>13, Zenon, ZenonT(30) DEF TrackerInv
  <2> QED
    BY <1>5, <1>6, <1>14, <1>15, <2>1, OneMoves, ZenonT(30)
<1>17. \A u \in Tracker : u # t => Live(u)' = Live(u)
  BY <1>15, SMT, SMTT(30) DEF Live, Ids
<1> QED
  BY <1>14, <1>16, <1>17, Zenon, ZenonT(30) DEF LiveIds, Live

\* A blob that a tracker's algorithm selects was not selected before it.
LEMMA MatchedProperties ==
  ASSUME BlobAssumption, IdsInv, NEW t \in Tracker, next[t] \in 1..Len(new_blobs[t]),
         NEW k \in Matched(t, next[t])
  PROVE  /\ k \in 1..Len(old_blobs[t])
         /\ \A j \in 1..(next[t] - 1) : new_blobs[t][j].id # old_blobs[t][k].id
         /\ t \in Munkres => n2s[t][next[t]] = k /\ k # 0
         /\ t \notin Munkres =>
              LET b == new_blobs[t][next[t]]
                  o == old_blobs[t][k] IN
              /\ b.kind \in Objects => o.kind \in Objects
              /\ b.kind = "object" => b.fid = o.fid
<1> DEFINE i == next[t]
           new == new_blobs[t]
           old == old_blobs[t]
<1>1. Lists(t) /\ Distinct(t) /\ Assigned(t)
  BY DEF IdsInv, TrackerInv
<1>2. i \in 1..Len(new) /\ i \in Nat /\ Len(new) \in Nat /\ Len(old) \in Nat
  BY <1>1 DEF Lists
<1>3. \A j, l \in 1..Len(old) : old[j].id = old[l].id => j = l
  BY <1>1 DEF Distinct
<1> HIDE DEF i, new, old
<1>4. CASE t \in Munkres
  <2>1. /\ n2s[t] \in Matchings(new, old)
        /\ \A j \in 1..Len(new) : j < i =>
             IF n2s[t][j] = 0 THEN new[j].id \notin Ids(old)
             ELSE new[j].id = old[n2s[t][j]].id
    BY <1>1, <1>2, <1>4, SMT, SMTT(30) DEF Assigned, new, old, i
  <2>2. /\ \A j \in 1..Len(new) : n2s[t][j] \in 0..Len(old)
        /\ \A j, l \in 1..Len(new) : j # l /\ n2s[t][j] = n2s[t][l] => n2s[t][j] = 0
    BY <2>1 DEF Matchings
  <2>3. n2s[t][i] = k /\ k # 0
    BY <1>4, SMTT(30) DEF Matched, i
  <2>4. k \in 1..Len(old)
    BY <1>2, <2>2, <2>3
  <2>5. ASSUME NEW j \in 1..(i - 1), new[j].id = old[k].id PROVE FALSE
    <3>1. j \in 1..Len(new) /\ j < i /\ j # i
      BY <1>2
    <3>2. CASE n2s[t][j] = 0
      <4>1. new[j].id \notin Ids(old)
        BY <2>1, <3>1, <3>2
      <4> QED
        BY <2>4, <2>5, <4>1 DEF Ids
    <3>3. CASE n2s[t][j] # 0
      <4>1. n2s[t][j] \in 1..Len(old) /\ new[j].id = old[n2s[t][j]].id
        BY <1>2, <2>1, <2>2, <3>1, <3>3, SMTT(30)
      <4>2. n2s[t][j] = k
        BY <1>3, <2>4, <2>5, <4>1, Zenon, ZenonT(30)
      <4> QED
        BY <1>2, <2>2, <2>3, <3>1, <4>2, ZenonT(30)
    <3> QED
      BY <3>2, <3>3
  <2> QED
    BY <1>4, <2>3, <2>4, <2>5, Zenon, ZenonT(30) DEF i, new, old
<1>5. CASE t \notin Munkres
  <2>1. k \in Candidates(new[i], old, {new[j].id : j \in 1..(i - 1)})
    BY <1>5 DEF Matched, Closest, i, new, old
  <2>2. /\ k \in 1..Len(old) /\ old[k].id \notin {new[j].id : j \in 1..(i - 1)}
        /\ new[i].kind = "object" /\ old[k].kind \in Objects => new[i].fid = old[k].fid
        /\ new[i].kind \in Objects => old[k].kind \in Objects
    BY <2>1 DEF Candidates
  <2>3. "object" \in Objects
    BY DEF Objects
  <2> QED
    BY <1>5, <2>2, <2>3, SMTT(30) DEF i, new, old
<1> QED
  BY <1>4, <1>5

\* No tracker follows a blob whose id is still to be drawn.
LEMMA LiveAreDrawn ==
  ASSUME BlobAssumption, IdsInv, NEW u \in Tracker, NEW i \in Live(u)
  PROVE  i \in 1..id_counter
<1>1. Named(u) /\ Lists(u)
  BY DEF IdsInv, TrackerInv
<1>2. CASE i \in Ids(old_blobs[u])
  BY <1>1, <1>2 DEF Named, Ids
<1>3. CASE i \in Ids(new_blobs[u]) /\ i # 0
  BY <1>1, <1>3 DEF Named, Ids
<1> QED
  BY <1>2, <1>3 DEF Live

LEMMA TrackKeeps ==
  ASSUME BlobAssumption, IdsInv, NEW t \in Tracker, trackBlobs(t)
  PROVE  /\ IdsInv'
         /\ \/ id_counter' = id_counter /\ LiveIds' = LiveIds
            \/ /\ id_counter' = id_counter + 1
               /\ LiveIds' = [LiveIds EXCEPT ![t] = @ \cup {id_counter + 1}]
<1> DEFINE i == next[t]
           b == new_blobs[t][i]
<1>1. Typed /\ Lists(t) /\ Named(t) /\ Distinct(t) /\ Assigned(t)
  BY DEF IdsInv, TrackerInv
<1>2. /\ i \in 1..Len(new_blobs[t])
      /\ next' = [next EXCEPT ![t] = next[t] + 1]
      /\ UNCHANGED <<view, old_blobs, adolescent, n2s, sight>>
  BY DEF trackBlobs
<1>3. i \in Nat /\ Len(old_blobs[t]) \in Nat /\ id_counter \in 0..MaxId /\ MaxId \in Nat
  BY <1>1, SMTT(30) DEF Lists, Typed, BlobAssumption
<1>4. b \in Blob(t)
  BY <1>1, <1>2 DEF Lists
<1>5. ASSUME NEW k \in Matched(t, i),
             new_blobs' = [new_blobs EXCEPT ![t] = [new_blobs[t] EXCEPT ![i] =
                             Continue(t, b, old_blobs[t][k])]],
             id_counter' = id_counter
      PROVE  IdsInv' /\ LiveIds' = LiveIds
  <2> DEFINE o == old_blobs[t][k]
             c == Continue(t, b, o)
  <2>1. /\ k \in 1..Len(old_blobs[t])
        /\ \A j \in 1..(next[t] - 1) : new_blobs[t][j].id # o.id
        /\ t \in Munkres => n2s[t][next[t]] = k /\ k # 0
        /\ t \notin Munkres =>
             /\ b.kind \in Objects => o.kind \in Objects
             /\ b.kind = "object" => b.fid = o.fid
    BY <1>2, MatchedProperties, SMTT(30)
  <2>2. o \in Blob(t) /\ o.id \in 1..id_counter
    BY <1>1, <2>1, SMTT(30) DEF Lists, Named
  <2>3. /\ c \in Blob(t) /\ c.id = o.id /\ c.kind = b.kind
        /\ t \notin Munkres /\ b.kind = "volatile" => c.fid = o.fid
        /\ t \in Munkres \/ b.kind # "volatile" => c.fid = b.fid
    BY <1>4, <2>2, Zenon, ZenonT(30) DEF Continue, Blob
  <2>4. \A l \in 1..Len(old_blobs[t]) : o.id = old_blobs[t][l].id => l = k
    BY <1>1, <2>1, SMT, SMTT(30) DEF Distinct
  <2>5. t \notin Munkres =>
           \A l \in 1..Len(old_blobs[t]) :
             c.id = old_blobs[t][l].id /\ c.kind \in Objects
             => old_blobs[t][l].kind \in Objects /\ old_blobs[t][l].fid = c.fid
    BY <2>1, <2>3, <2>4, SMT, SMTT(30) DEF Objects
  <2>6. o.id \in Live(t) /\ o.id # 0
    BY <2>1, <2>2, SMT, SMTT(30) DEF Live, Ids
  <2> HIDE DEF o, c
  <2>7. /\ new_blobs' = [new_blobs EXCEPT ![t] = [new_blobs[t] EXCEPT ![next[t]] = c]]
        /\ t \in Munkres =>
             IF n2s[t][next[t]] = 0 THEN c.id \notin Ids(old_blobs[t])
             ELSE c.id = old_blobs[t][n2s[t][next[t]]].id
    BY <1>5, <2>1, <2>3 DEF c, o
  <2>8. id_counter' \in 0..MaxId /\ id_counter <= id_counter' /\ c.id \in 1..id_counter'
    BY <1>3, <1>5, <2>2, <2>3, SMT, SMTT(30)
  <2>9. \A j \in 1..(next[t] - 1) : new_blobs[t][j].id # c.id
    BY <2>1, <2>3
  <2>10. c.id \in Live(t)
    BY <2>3, <2>6, ZenonT(30)
  <2>11. IdsInv' /\ LiveIds' = [LiveIds EXCEPT ![t] = @ \cup {c.id}]
    BY <1>2, <2>3, <2>5, <2>7, <2>8, <2>9, <2>10, NamingKeeps, Zenon, ZenonT(30)
  <2>12. LiveIds[t] \cup {c.id} = LiveIds[t] /\ LiveIds = [u \in Tracker |-> LiveIds[u]]
    BY <2>10 DEF LiveIds, Live
  <2> QED
    BY <2>11, <2>12, SMT, SMTT(30)
<1>6. ASSUME Matched(t, i) = {}, NEW id \in 1..MaxId, id = id_counter + 1,
             id_counter' = id,
             new_blobs' = [new_blobs EXCEPT ![t] = [new_blobs[t] EXCEPT ![i] =
                             [b EXCEPT !.id = id]]]
      PROVE  IdsInv' /\ LiveIds' = [LiveIds EXCEPT ![t] = @ \cup {id_counter + 1}]
  <2> DEFINE c == [b EXCEPT !.id = id]
  <2>1. c \in Blob(t) /\ c.id = id /\ c.kind = b.kind
    BY <1>3, <1>4, SMT, SMTT(30) DEF Blob
  <2>2. \A u \in Tracker : c.id \notin Live(u)
    BY <1>3, <1>6, <2>1, LiveAreDrawn
  <2>3. c.id \notin Ids(old_blobs[t])
    <3>1. c.id # 0
      BY <1>3, <1>6, <2>1
    <3> QED
      BY <2>2, <3>1 DEF Live
  <2>4. t \in Munkres => n2s[t][next[t]] = 0
    BY <1>6 DEF Matched
  <2>5. ASSUME NEW j \in 1..(next[t] - 1) PROVE new_blobs[t][j].id # c.id
    <3>1. j \in 1..Len(new_blobs[t]) /\ j < next[t]
      BY <1>2, <1>3
    <3>2. new_blobs[t][j].id \in 1..id_counter
      BY <1>1, <3>1 DEF Named
    <3> QED
      BY <1>3, <1>6, <2>1, <3>2
  <2>6. \A k \in 1..Len(old_blobs[t]) : c.id # old_blobs[t][k].id
    BY <2>3 DEF Ids
  <2> HIDE DEF c
  <2>7. new_blobs' = [new_blobs EXCEPT ![t] = [new_blobs[t] EXCEPT ![next[t]] = c]]
    BY <1>6 DEF c
  <2>8. id_counter' \in 0..MaxId /\ id_counter <= id_counter' /\ c.id \in 1..id_counter'
    BY <1>3, <1>6, <2>1, SMTT(30)
  <2>9. IdsInv' /\ LiveIds' = [LiveIds EXCEPT ![t] = @ \cup {c.id}]
    BY <1>2, <2>1, <2>2, <2>3, <2>4, <2>5, <2>6, <2>7, <2>8, NamingKeeps, Zenon, ZenonT(30)
  <2> QED
    BY <1>6, <2>1, <2>9
<1>7. \/ \E k \in Matched(t, i) :
           /\ new_blobs' = [new_blobs EXCEPT ![t] = [new_blobs[t] EXCEPT ![i] =
                              Continue(t, b, old_blobs[t][k])]]
           /\ id_counter' = id_counter
      \/ /\ Matched(t, i) = {}
         /\ \E id \in 1..MaxId :
              /\ id = id_counter + 1 /\ id_counter' = id
              /\ new_blobs' = [new_blobs EXCEPT ![t] = [new_blobs[t] EXCEPT ![i] =
                                 [b EXCEPT !.id = id]]]
  BY Zenon DEF trackBlobs, pincrement
<1> HIDE DEF i, b
<1>8. CASE \E k \in Matched(t, i) :
             /\ new_blobs' = [new_blobs EXCEPT ![t] = [new_blobs[t] EXCEPT ![i] =
                                Continue(t, b, old_blobs[t][k])]]
             /\ id_counter' = id_counter
  BY <1>5, <1>8, Zenon
<1>9. CASE /\ Matched(t, i) = {}
           /\ \E id \in 1..MaxId :
                /\ id = id_counter + 1 /\ id_counter' = id
                /\ new_blobs' = [new_blobs EXCEPT ![t] = [new_blobs[t] EXCEPT ![i] =
                                   [b EXCEPT !.id = id]]]
  BY <1>6, <1>9, Zenon, ZenonT(30)
<1> QED
  BY <1>7, <1>8, <1>9
-----------------------------------------------------------------------------
(* What push makes of the lists.                                           *)

Found(t) ==
  [i \in 1..Len(new_blobs[t]) |-> Aged(Expire(t, new_blobs[t][i]), old_blobs[t])]
LostAt(t) ==
  {k \in 1..Len(old_blobs[t]) :
     old_blobs[t][k].id \notin Ids(Found(t)) /\ Reported(old_blobs[t][k].age)}
Kept(t) == Found(t) \o Lost(Found(t), old_blobs[t])
Sighted(t, i) ==
  IF i \in Ids(Found(t))
  THEN [seen |-> Min({sight[i].seen + 1, min_age}), missed |-> 0,
        streak |-> Min({sight[i].streak + 1, min_age + 1})]
  ELSE IF i \in Ids(Kept(t))
  THEN [seen |-> sight[i].seen, missed |-> sight[i].missed + 1, streak |-> 0]
  ELSE IF i \in Ids(old_blobs[t]) THEN Unseen ELSE sight[i]

\* Only the age of a blob that was found changes, to one the old blob allows.
LEMMA AgedProperties ==
  ASSUME BlobAssumption, view \in Views, NEW t \in Tracker, NEW b \in Blob(t),
         NEW old \in Seq(Blob(t))
  PROVE  LET a == Aged(Expire(t, b), old) IN
         /\ a \in Blob(t) /\ a.id = b.id /\ a.kind = b.kind /\ a.fid = b.fid
         /\ \/ /\ \A k \in 1..Len(old) : old[k].id # b.id
               /\ a.age \in {b.age, max_age + 1}
            \/ \E k \in 1..Len(old) :
                 /\ old[k].id = b.id
                 /\ a.age = IF Reported(old[k].age) THEN min_age ELSE old[k].age
<1> DEFINE e == Expire(t, b)
           o == {k \in 1..Len(old) : old[k].id = e.id}
<1>1. max_age \in Nat /\ min_age \in Nat
  BY DEF BlobAssumption
<1>2. /\ e \in Blob(t) /\ e.id = b.id /\ e.kind = b.kind /\ e.fid = b.fid
      /\ e.age \in {b.age, max_age + 1}
  <2> DEFINE x == [b EXCEPT !.age = max_age + 1]
  <2>1. max_age + 1 \in 0..(max_age + 2)
    BY <1>1
  <2>2. /\ x \in Blob(t) /\ x.id = b.id /\ x.kind = b.kind /\ x.fid = b.fid
        /\ x.age = max_age + 1
    BY <2>1, Zenon DEF Blob
  <2>3. e = x \/ e = b
    BY DEF Expire
  <2> HIDE DEF x, e
  <2> QED
    BY <2>2, <2>3
<1> HIDE DEF e
<1>3. CASE o = {}
  <2>1. Aged(e, old) = e
    BY <1>3 DEF Aged
  <2>2. \A k \in 1..Len(old) : old[k].id # b.id
    BY <1>2, <1>3
  <2> QED
    BY <1>2, <2>1, <2>2 DEF e
<1>4. CASE o # {}
  <2> DEFINE k == CHOOSE l \in o : TRUE
             age == IF Reported(old[k].age) THEN min_age ELSE old[k].age
  <2>1. k \in o
    <3>1. \E l \in o : TRUE
      BY <1>4
    <3> HIDE DEF o
    <3> QED
      BY <3>1, Zenon
  <2>2. Aged(e, old) = [e EXCEPT !.age = age]
    BY <1>4 DEF Aged
  <2>3. k \in 1..Len(old) /\ old[k].id = b.id
    BY <1>2, <2>1
  <2> HIDE DEF k
  <2>4. old[k].age \in 0..(max_age + 2)
    BY <2>3, BlobsAreRecords
  <2>5. age \in 0..(max_age + 2)
    BY <1>1, <2>4 DEF Reported
  <2>6. age = IF Reported(old[k].age) THEN min_age ELSE old[k].age
    OBVIOUS
  <2> HIDE DEF age
  <2>7. /\ [e EXCEPT !.age = age] \in Blob(t) /\ [e EXCEPT !.age = age].id = b.id
        /\ [e EXCEPT !.age = age].kind = b.kind /\ [e EXCEPT !.age = age].fid = b.fid
        /\ [e EXCEPT !.age = age].age = age
    BY <1>2, <2>5, ZenonT(30) DEF Blob
  <2> QED
    BY <2>2, <2>3, <2>6, <2>7 DEF e
<1> QED
  BY <1>3, <1>4

\* Two sequences one after the other.
LEMMA Joined ==
  ASSUME NEW S, NEW q \in Seq(S), NEW r \in Seq(S)
  PROVE  /\ q \o r \in Seq(S) /\ Len(q \o r) = Len(q) + Len(r)
         /\ \A i \in 1..(Len(q) + Len(r)) :
              (q \o r)[i] = IF i <= Len(q) THEN q[i] ELSE r[i - Len(q)]
BY SMT

\* The new list: the blobs of this frame, then the lost ones.
LEMMA KeptProperties ==
  ASSUME BlobAssumption, IdsInv, NEW t \in Tracker, next[t] = Len(new_blobs[t]) + 1
  PROVE  /\ Found(t) \in Seq(Blob(t)) /\ Len(Found(t)) = Len(new_blobs[t])
         /\ \A i \in 1..Len(new_blobs[t]) : Found(t)[i].id = new_blobs[t][i].id
         /\ Ids(Found(t)) = Ids(new_blobs[t])
         /\ Kept(t) \in Seq(Blob(t))
         /\ IsFiniteSet(LostAt(t)) /\ Cardinality(LostAt(t)) \in Nat
         /\ Len(Kept(t)) = Len(new_blobs[t]) + Cardinality(LostAt(t))
         /\ \A i \in 1..Len(new_blobs[t]) : Kept(t)[i] = Found(t)[i]
         /\ \A i \in 1..Len(Kept(t)) : i > Len(new_blobs[t]) =>
              \E k \in LostAt(t) : Kept(t)[i] = old_blobs[t][k]
         /\ \A i, j \in 1..Len(Kept(t)) : Kept(t)[i].id = Kept(t)[j].id => i = j
         /\ \A i \in 1..Len(Kept(t)) : Kept(t)[i].id \in 1..id_counter
         /\ \A k \in LostAt(t) : old_blobs[t][k].id \in Ids(Kept(t))
<1> DEFINE new == new_blobs[t]
           old == old_blobs[t]
           found == Found(t)
           ks == LostAt(t)
           lost == Picked(old, ks)
           all == Kept(t)
           n == Len(new)
           c == Cardinality(ks)
<1>1. Typed /\ Lists(t) /\ Named(t) /\ Distinct(t)
  BY DEF IdsInv, TrackerInv
<1>2. /\ new \in Seq(Blob(t)) /\ old \in Seq(Blob(t)) /\ view \in Views
      /\ n \in Nat /\ Len(old) \in Nat /\ id_counter \in Nat
  BY <1>1 DEF Typed, Lists
<1>3. found = [i \in 1..n |-> Aged(Expire(t, new[i]), old)]
  BY SMT, SMTT(30) DEF Found
<1>4. ASSUME NEW i \in 1..n PROVE found[i] \in Blob(t) /\ found[i].id = new[i].id
  <2>1. new[i] \in Blob(t)
    BY <1>2
  <2>2. found[i] = Aged(Expire(t, new[i]), old)
    BY <1>3
  <2> QED
    BY <1>2, <2>1, <2>2, AgedProperties, SMT, SMTT(30)
<1>5. found \in [1..n -> Blob(t)]
  <2>1. DOMAIN found = 1..n /\ found = [i \in DOMAIN found |-> found[i]]
    BY <1>3
  <2> HIDE DEF found
  <2> QED
    BY <1>4, <2>1
<1> HIDE DEF found
<1>6. found \in Seq(Blob(t)) /\ Len(found) = n
  BY <1>2, <1>5, SMT, SMTT(30)
<1>7. Ids(found) = Ids(new)
  BY <1>4, <1>6 DEF Ids
<1>8. /\ \A i \in 1..n : found[i].id \in 1..id_counter
      /\ \A i, j \in 1..n : found[i].id = found[j].id => i = j
  <2>1. \A i \in 1..n : i < next[t]
    BY <1>2
  <2>2. \A i \in 1..n : new[i].id \in 1..id_counter
    BY <1>1, <2>1 DEF Named
  <2>3. \A i, j \in 1..n : new[i].id = new[j].id => i = j
    BY <1>1, <2>1 DEF Distinct
  <2> QED
    BY <1>4, <2>2, <2>3
<1>9. ks \in SUBSET (1..Len(old)) /\ \A k \in ks : old[k].id \notin Ids(found)
  BY DEF LostAt, found
<1>10. Lost(found, old) = lost
  BY DEF Lost, LostAt, found
<1>11. /\ \A k \in 1..Len(old) : old[k].id \in 1..id_counter
       /\ \A j, k \in 1..Len(old) : old[j].id = old[k].id => j = k
  BY <1>1 DEF Named, Distinct
<1> HIDE DEF ks, lost
<1>12. /\ lost \in Seq(Blob(t)) /\ Len(lost) = c /\ IsFiniteSet(ks) /\ c \in Nat
       /\ \E at \in [1..c -> ks] :
            /\ \A i \in 1..c : lost[i] = old[at[i]]
            /\ \A i, j \in 1..c : at[i] = at[j] => i = j
            /\ \A k \in ks : \E i \in 1..c : at[i] = k
  BY <1>2, <1>9, PickedProperties DEF lost
<1>13. PICK at \in [1..c -> ks] :
         /\ \A i \in 1..c : lost[i] = old[at[i]]
         /\ \A i, j \in 1..c : at[i] = at[j] => i = j
         /\ \A k \in ks : \E i \in 1..c : at[i] = k
  BY <1>12, SMT, SMTT(30)
<1>14. all = found \o lost
  BY <1>10 DEF Kept, found
<1> HIDE DEF all, new, old, c, n
<1>15. /\ all \in Seq(Blob(t)) /\ Len(all) = n + c
       /\ \A i \in 1..n : all[i] = found[i]
       /\ \A i \in 1..(n + c) : i > n => all[i] = lost[i - n]
  <2>1. /\ found \in Seq(Blob(t)) /\ lost \in Seq(Blob(t)) /\ Len(found) = n
        /\ Len(lost) = c /\ n \in Nat /\ c \in Nat
    BY <1>2, <1>6, <1>12
  <2>2. found \o lost \in Seq(Blob(t)) /\ Len(found \o lost) = Len(found) + Len(lost)
    BY <2>1, Joined, ZenonT(30)
  <2>3. \A i \in 1..(n + c) :
          (found \o lost)[i] = IF i <= n THEN found[i] ELSE lost[i - n]
    BY <2>1, Joined
  <2> QED
    BY <1>14, <2>1, <2>2, <2>3
<1>16. ASSUME NEW i \in 1..(n + c), i > n
       PROVE  i - n \in 1..c /\ at[i - n] \in ks /\ all[i] = old[at[i - n]]
  <2>1. i - n \in 1..c
    BY <1>2, <1>12, <1>16
  <2> QED
    BY <1>13, <1>15, <1>16, <2>1
<1>17. ASSUME NEW i \in 1..n, NEW j \in 1..(n + c), j > n PROVE all[i].id # all[j].id
  <2>1. all[i].id \in Ids(found)
    BY <1>6, <1>15 DEF Ids
  <2> QED
    BY <1>9, <1>16, <1>17, <2>1, Zenon
<1>18. ASSUME NEW i \in 1..(n + c), NEW j \in 1..(n + c), all[i].id = all[j].id
       PROVE  i = j
  <2>1. i \in Int /\ j \in Int /\ n \in Int
    BY <1>2, <1>12
  <2>2. CASE i <= n /\ j <= n
    <3>1. i \in 1..n /\ j \in 1..n
      BY <1>2, <1>12, <2>2
    <3> QED
      BY <1>8, <1>15, <1>18, <3>1, SMTT(30)
  <2>3. CASE i > n /\ j > n
    <3>1. at[i - n] = at[j - n]
      <4>1. at[i - n] \in 1..Len(old) /\ at[j - n] \in 1..Len(old)
        BY <1>9, <1>16, <2>3, ZenonT(30)
      <4> QED
        BY <1>11, <1>16, <1>18, <2>3, <4>1, Zenon, ZenonT(30)
    <3>2. i - n = j - n
      BY <1>13, <1>16, <2>3, <3>1
    <3> QED
      BY <2>1, <3>2
  <2>4. CASE i <= n /\ j > n
    <3>1. i \in 1..n
      BY <1>2, <1>12, <2>4
    <3> QED
      BY <1>17, <1>18, <2>4, <3>1, ZenonT(30)
  <2>5. CASE i > n /\ j <= n
    <3>1. j \in 1..n
      BY <1>2, <1>12, <2>5
    <3> QED
      BY <1>17, <1>18, <2>5, <3>1, ZenonT(30)
  <2> QED
    BY <2>1, <2>2, <2>3, <2>4, <2>5, SMTT(30)
<1>19. ASSUME NEW i \in 1..(n + c) PROVE all[i].id \in 1..id_counter
  <2>1. CASE i > n
    BY <1>9, <1>11, <1>16, <2>1, ZenonT(30)
  <2>2. CASE ~(i > n)
    <3>1. i \in 1..n
      BY <1>2, <1>12, <2>2
    <3> QED
      BY <1>8, <1>15, <3>1
  <2> QED
    BY <2>1, <2>2
<1>20. ASSUME NEW k \in ks PROVE old[k].id \in Ids(all)
  <2>1. PICK i \in 1..c : at[i] = k
    BY <1>13
  <2>2. i + n \in 1..(n + c) /\ i + n > n /\ (i + n) - n = i
    BY <1>2, <1>12
  <2>3. all[i + n] = old[k]
    BY <1>16, <2>1, <2>2
  <2> QED
    BY <1>15, <2>2, <2>3 DEF Ids
<1>21. \A i \in 1..n : found[i].id = new[i].id
  BY <1>4
<1>22. \A i \in 1..Len(all) : i > n => \E k \in ks : all[i] = old[k]
  BY <1>15, <1>16
<1> QED
  BY <1>6, <1>7, <1>12, <1>15, <1>18, <1>19, <1>20, <1>21, <1>22, Zenon, ZenonT(30)
  DEF found, ks, all, new, old, n, c

\* The lists that push makes hold no new ids.
LEMMA KeptAreLive ==
  ASSUME BlobAssumption, IdsInv, NEW t \in Tracker, next[t] = Len(new_blobs[t]) + 1
  PROVE  \A i \in 1..Len(Kept(t)) : Kept(t)[i].id \in Live(t)
<1> DEFINE all == Kept(t)
<1>1. /\ Ids(Found(t)) = Ids(new_blobs[t]) /\ Len(Found(t)) = Len(new_blobs[t])
      /\ \A i \in 1..Len(new_blobs[t]) : all[i] = Found(t)[i]
      /\ \A i \in 1..Len(all) : i > Len(new_blobs[t]) =>
           \E k \in LostAt(t) : all[i] = old_blobs[t][k]
      /\ \A i \in 1..Len(all) : all[i].id \in 1..id_counter
  BY KeptProperties, ZenonT(30)
<1> HIDE DEF all
<1> SUFFICES ASSUME NEW i \in 1..Len(all)
             PROVE  all[i].id \in Ids(old_blobs[t]) \cup Ids(new_blobs[t])
  BY <1>1 DEF Live, all
<1>2. CASE i > Len(new_blobs[t])
  <2>1. PICK k \in LostAt(t) : all[i] = old_blobs[t][k]
    BY <1>1, <1>2
  <2>2. k \in 1..Len(old_blobs[t])
    BY DEF LostAt
  <2> QED
    BY <2>1, <2>2 DEF Ids
<1>3. CASE ~(i > Len(new_blobs[t]))
  <2>1. i \in 1..Len(new_blobs[t])
    BY <1>3 DEF Lists, IdsInv, TrackerInv
  <2>2. all[i] = Found(t)[i]
    BY <1>1, <2>1
  <2>3. Found(t)[i].id \in Ids(Found(t))
    BY <1>1, <2>1, Zenon, ZenonT(30) DEF Ids
  <2> QED
    BY <1>1, <2>2, <2>3, SMTT(30)
<1> QED
  BY <1>2, <1>3

\* What push does, in these terms.
LEMMA PushSteps ==
  ASSUME NEW t \in Tracker, push(t)
  PROVE  /\ next[t] = Len(new_blobs[t]) + 1
         /\ old_blobs' = [old_blobs EXCEPT ![t] = Kept(t)]
         /\ adolescent' = [adolescent EXCEPT ![t] = Adolescent(Kept(t))]
         /\ sight' = [i \in 1..MaxId |-> Sighted(t, i)]
         /\ new_blobs' = [new_blobs EXCEPT ![t] = <<>>]
         /\ next' = [next EXCEPT ![t] = 0] /\ n2s' = [n2s EXCEPT ![t] = <<>>]
         /\ view' = view /\ id_counter' = id_counter
BY DEF push, Kept, Found, Sighted

LEMMA PushKeeps ==
  ASSUME BlobAssumption, IdsInv, NEW t \in Tracker, push(t)
  PROVE  /\ IdsInv' /\ id_counter' = id_counter
         /\ \E kept \in SUBSET LiveIds[t] : LiveIds' = [LiveIds EXCEPT ![t] = kept]
<1> DEFINE all == Kept(t)
<1>1. Typed /\ Lists(t)
  BY DEF IdsInv, TrackerInv
<1>2. /\ next[t] = Len(new_blobs[t]) + 1 /\ old_blobs' = [old_blobs EXCEPT ![t] = all]
      /\ adolescent' = [adolescent EXCEPT ![t] = Adolescent(all)]
      /\ new_blobs' = [new_blobs EXCEPT ![t] = <<>>]
      /\ next' = [next EXCEPT ![t] = 0] /\ n2s' = [n2s EXCEPT ![t] = <<>>]
      /\ view' = view /\ id_counter' = id_counter
  BY PushSteps
<1>3. /\ old_blobs'[t] = all /\ adolescent'[t] = Adolescent(all) /\ new_blobs'[t] = <<>>
      /\ next'[t] = 0 /\ n2s'[t] = <<>> /\ Blob(t)' = Blob(t)
  BY <1>1, <1>2, SMT, SMTT(30) DEF Typed, Blob
<1>4. /\ all \in Seq(Blob(t))
      /\ \A i, j \in 1..Len(all) : all[i].id = all[j].id => i = j
      /\ \A i \in 1..Len(all) : all[i].id \in 1..id_counter
  BY <1>2, KeptProperties
<1>5. \A i \in 1..Len(all) : all[i].id \in Live(t)
  BY <1>2, KeptAreLive
<1> HIDE DEF all
<1>6. Adolescent(all) \subseteq Ids(all)
  BY DEF Adolescent, Ids
<1>7. Lists(t)'
  <2>1. Ids(old_blobs[t])' = Ids(all)
    BY <1>3 DEF Ids
  <2>2. MaxBlobs \in Nat
    BY SMTT(30) DEF BlobAssumption
  <2> QED
    BY <1>3, <1>4, <1>6, <2>1, <2>2, SMT, SMTT(30) DEF Lists
<1>8. Named(t)' /\ Distinct(t)' /\ Assigned(t)' /\ ObjectsContinue(t)'
  <2>1. Named(t)'
    BY <1>2, <1>3, <1>4, SMT, SMTT(30) DEF Named
  <2>2. Distinct(t)'
    BY <1>2, <1>3, <1>4, SMT, SMTT(30) DEF Distinct
  <2>3. Assigned(t)'
    BY <1>2, <1>3, <1>4, SMT, SMTT(30) DEF Assigned
  <2>4. ObjectsContinue(t)'
    BY <1>2, <1>3, <1>4, SMTT(30) DEF ObjectsContinue
  <2> QED
    BY <2>1, <2>2, <2>3, <2>4, Zenon, ZenonT(30)
<1>9. Typed'
  <2>1. sight' \in [1..MaxId -> [seen : Nat, streak : Nat, missed : Nat]]
    <3> SUFFICES ASSUME NEW i \in 1..MaxId
                 PROVE  sight'[i] \in [seen : Nat, streak : Nat, missed : Nat]
      BY PushSteps, Zenon
    <3>1. /\ sight[i] \in [seen : Nat, streak : Nat, missed : Nat]
          /\ min_age \in Nat
      BY <1>1 DEF Typed, BlobAssumption
    <3>2. /\ Min({sight[i].seen + 1, min_age}) \in Nat
          /\ Min({sight[i].streak + 1, min_age + 1}) \in Nat
          /\ sight[i].missed + 1 \in Nat
      BY <3>1, MinOfTwo
    <3>3. sight'[i] = Sighted(t, i)
      BY PushSteps, Zenon
    <3> QED
      BY <3>1, <3>2, <3>3 DEF Unseen, Sighted
  <2>2. /\ new_blobs' = [u \in Tracker |-> new_blobs'[u]]
        /\ old_blobs' = [u \in Tracker |-> old_blobs'[u]]
        /\ adolescent' = [u \in Tracker |-> adolescent'[u]]
        /\ next' = [u \in Tracker |-> next'[u]] /\ n2s' = [u \in Tracker |-> n2s'[u]]
    BY <1>1, <1>2, Zenon DEF Typed
  <2> QED
    BY <1>1, <1>2, <2>1, <2>2, Zenon, ZenonT(30) DEF Typed
<1>10. Live(t)' \subseteq Live(t)
  <2>1. Live(t)' = Ids(all) \ {0}
    BY <1>3 DEF Live, Ids
  <2> QED
    BY <1>5, <2>1 DEF Ids
<1>11. \A u \in Tracker : u # t =>
         /\ new_blobs'[u] = new_blobs[u] /\ old_blobs'[u] = old_blobs[u]
         /\ next'[u] = next[u] /\ n2s'[u] = n2s[u] /\ adolescent'[u] = adolescent[u]
  BY <1>1, <1>2, ZenonT(30) DEF Typed
<1>12. IdsInv'
  <2>1. id_counter \in Nat
    BY <1>1 DEF Typed
  <2>2. TrackerInv(t)'
    BY <1>7, <1>8, SMT, SMTT(30) DEF TrackerInv
  <2> QED
    BY <1>2, <1>9, <1>10, <1>11, <2>1, <2>2, OneMoves, SMT, SMTT(30)
<1>13. \A u \in Tracker : u # t => Live(u)' = Live(u)
  BY <1>11 DEF Live, Ids
<1>14. LiveIds' = [LiveIds EXCEPT ![t] = Live(t)'] /\ Live(t)' \in SUBSET LiveIds[t]
  BY <1>10, <1>13, Zenon DEF LiveIds, Live
<1> QED
  BY <1>2, <1>12, <1>14, Zenon

LEMMA StutterKeeps == ASSUME IdsInv, UNCHANGED tracker_vars PROVE IdsInv'
<1>1. Typed' /\ id_counter \in Nat
  BY SMT, SMTT(30) DEF IdsInv, Typed, tracker_vars
<1>2. ASSUME NEW u \in Tracker PROVE TrackerInv(u)' /\ Live(u)' = Live(u)
  BY <1>1, OthersKeep DEF IdsInv, tracker_vars
<1> QED
  BY <1>1, <1>2, SMTT(30) DEF IdsInv, Apart

\* The discipline of ids, step by step.
LEMMA IdsInvariant == ASSUME BlobAssumption PROVE TrackerSpec => []IdsInv
<1>1. TrackerInit => IdsInv
  BY IdsInit
<1>2. IdsInv /\ [TrackerNext]_tracker_vars => IdsInv'
  BY UpdateKeeps, TrackKeeps, PushKeeps, StutterKeeps DEF TrackerNext
<1> QED
  BY <1>1, <1>2, PTL DEF TrackerSpec
-----------------------------------------------------------------------------
(* The id discipline holds for every set of trackers.                      *)

PromiseInv == Promise!TypeOK /\ Promise!OwnIds

(* The two conjuncts hold initially and no step breaks them: a new id is   *)
(* above every id in use, and a retired id leaves one set.                 *)
LEMMA PromiseInvariant == Promise!Spec => []PromiseInv
<1>1. Promise!Init => PromiseInv
  BY DEF Promise!Init, PromiseInv, Promise!TypeOK, Promise!OwnIds
<1>2. PromiseInv /\ [Promise!Next]_(Promise!ids) => PromiseInv'
  <2> SUFFICES ASSUME PromiseInv, [Promise!Next]_(Promise!ids) PROVE PromiseInv'
    OBVIOUS
  <2>1. ASSUME NEW t \in Tracker, Promise!Allocate(t) PROVE PromiseInv'
    <3>1. Promise!TypeOK'
      BY <2>1 DEF PromiseInv, Promise!TypeOK, Promise!Allocate
    <3>2. Promise!OwnIds'
      <4> SUFFICES ASSUME NEW a \in Tracker, NEW b \in Tracker, a # b
                   PROVE LiveIds'[a] \cap LiveIds'[b] = {}
        BY DEF Promise!OwnIds
      <4>1. LiveIds[a] \cap LiveIds[b] = {}
        BY DEF PromiseInv, Promise!OwnIds
      <4>2. id_counter + 1 \notin LiveIds[a] /\ id_counter + 1 \notin LiveIds[b]
        BY DEF PromiseInv, Promise!TypeOK
      <4> QED
        BY <2>1, <4>1, <4>2 DEF PromiseInv, Promise!TypeOK, Promise!Allocate
    <3> QED
      BY <3>1, <3>2 DEF PromiseInv
  <2>2. ASSUME NEW t \in Tracker, Promise!Retire(t) PROVE PromiseInv'
    <3> PICK kept \in SUBSET LiveIds[t] : LiveIds' = [LiveIds EXCEPT ![t] = kept]
      BY <2>2, Zenon DEF Promise!Retire
    <3> QED
      BY <2>2 DEF PromiseInv, Promise!TypeOK, Promise!OwnIds, Promise!Retire
  <2>3. CASE UNCHANGED Promise!ids
    BY <2>3 DEF PromiseInv, Promise!TypeOK, Promise!OwnIds, Promise!ids
  <2> QED
    BY <2>1, <2>2, <2>3 DEF Promise!Next
<1> QED
  BY <1>1, <1>2, PTL DEF Promise!Spec

(* Two trackers never follow blobs with one id.                            *)
THEOREM TrackersOwnTheirIds == Promise!Spec => []Promise!OwnIds
BY PromiseInvariant, PTL DEF PromiseInv

(* An id given up by its tracker (a blob lost for longer than max_age)     *)
(* never names a blob again, whatever tracker detects it.                  *)
THEOREM IdsAreNotReused == Promise!Spec => Promise!NoReuse
<1> DEFINE Fresh == \A i \in 1..id_counter : (\A t \in Tracker : i \notin LiveIds[t])
                       => \A t \in Tracker : i \notin LiveIds'[t]
<1>1. PromiseInv /\ [Promise!Next]_(Promise!ids) => [Fresh]_(Promise!ids)
  <2> SUFFICES ASSUME PromiseInv, Promise!Next, NEW i \in 1..id_counter,
                      \A t \in Tracker : i \notin LiveIds[t], NEW u \in Tracker
               PROVE i \notin LiveIds'[u]
    BY DEF PromiseInv, Promise!TypeOK
  <2>1. CASE \E t \in Tracker : Promise!Allocate(t)
    <3>1. i # id_counter + 1
      BY DEF PromiseInv, Promise!TypeOK
    <3> QED
      BY <2>1, <3>1 DEF PromiseInv, Promise!TypeOK, Promise!Allocate
  <2>2. CASE \E t \in Tracker : Promise!Retire(t)
    BY <2>2 DEF PromiseInv, Promise!TypeOK, Promise!Retire
  <2> QED
    BY <2>1, <2>2 DEF Promise!Next
<1> QED
  BY <1>1, PromiseInvariant, PTL DEF Promise!Spec, Promise!NoReuse

(* The trackers implement BlobIds, with an atomic pincrement and whatever  *)
(* the order of their steps: trackBlobs draws an id where no old blob      *)
(* fits, the end of update drops those lost for too long, and every other  *)
(* step changes neither the counter nor the ids in use.                    *)
THEOREM TrackersKeepPromise == ASSUME BlobAssumption PROVE TrackerSpec => KeepsPromise
<1>1. TrackerInit => Promise!Init
  BY DEF TrackerInit, Promise!Init, LiveIds, Ids
<1>2. IdsInv /\ [TrackerNext]_tracker_vars => [Promise!Next]_(Promise!ids)
  <2> SUFFICES ASSUME IdsInv, [TrackerNext]_tracker_vars PROVE Promise!Next \/ UNCHANGED Promise!ids
    OBVIOUS
  <2>1. ASSUME NEW t \in Tracker, update(t) PROVE UNCHANGED Promise!ids
    BY <2>1, UpdateKeeps, Zenon DEF Promise!ids, update
  <2>2. ASSUME NEW t \in Tracker, trackBlobs(t)
        PROVE  Promise!Next \/ UNCHANGED Promise!ids
    BY <2>2, TrackKeeps DEF Promise!ids, Promise!Next, Promise!Allocate
  <2>3. ASSUME NEW t \in Tracker, push(t) PROVE Promise!Next
    BY <2>3, PushKeeps DEF Promise!Next, Promise!Retire
  <2>4. CASE UNCHANGED tracker_vars
    BY <2>4 DEF tracker_vars, Promise!ids, LiveIds, Ids
  <2> QED
    BY <2>1, <2>2, <2>3, <2>4 DEF TrackerNext
<1> QED
  BY <1>1, <1>2, IdsInvariant, PTL DEF TrackerSpec, KeepsPromise, Promise!Spec

(* The two clauses of the promise, of the trackers themselves: no two      *)
(* follow blobs with one id, and an id that was given up never returns.    *)
THEOREM BlobIdsAreUniqueForLife ==
  ASSUME BlobAssumption PROVE TrackerSpec => []Promise!OwnIds /\ Promise!NoReuse
BY TrackersKeepPromise, TrackersOwnTheirIds, IdsAreNotReused, PTL
DEF KeepsPromise

(* An id of the greedy tracker never passes to another recognised object:  *)
(* its loop skips old blobs of another fiducial_id or without one, an      *)
(* uncertain detection takes the fiducial_id over, and lost blobs are kept *)
(* unchanged.                                                              *)
THEOREM GreedyKeepsObjects == ASSUME BlobAssumption PROVE TrackerSpec => KeepsObject
<1>1. IdsInv /\ [TrackerNext]_tracker_vars => [SameObjects]_tracker_vars
  <2> SUFFICES ASSUME IdsInv, TrackerNext, NEW u \in Tracker \ Munkres,
                      NEW j \in 1..Len(old_blobs[u]), NEW k \in 1..Len(old_blobs'[u]),
                      old_blobs[u][j].id = old_blobs'[u][k].id,
                      old_blobs'[u][k].kind \in Objects
               PROVE  /\ old_blobs[u][j].kind \in Objects
                      /\ old_blobs[u][j].fid = old_blobs'[u][k].fid
    BY SMTT(30) DEF SameObjects
  <2>1. Typed /\ Lists(u) /\ Distinct(u) /\ ObjectsContinue(u)
    BY SMT, SMTT(30) DEF IdsInv, TrackerInv
  <2>2. CASE old_blobs'[u] = old_blobs[u]
    <3>1. j = k
      BY <2>1, <2>2, ZenonT(30) DEF Distinct
    <3> QED
      BY <2>2, <3>1
  <2>3. PICK t \in Tracker : update(t) \/ trackBlobs(t) \/ push(t)
    BY DEF TrackerNext
  <2>4. CASE t # u
    <3>1. old_blobs'[u] = old_blobs[u]
      BY <2>1, <2>3, <2>4, Zenon, ZenonT(30) DEF Typed, update, trackBlobs, push
    <3> QED
      BY <2>2, <3>1, ZenonT(30)
  <2>5. CASE trackBlobs(u)
    BY <2>2, <2>5 DEF trackBlobs
  <2>6. CASE update(u)
    <3>1. old_blobs'[u] = Grown(old_blobs[u])
      BY <2>1, <2>6 DEF Typed, update
    <3>2. view \in Views /\ old_blobs[u] \in Seq(Blob(u))
      BY <2>1 DEF Typed, Lists
    <3>3. /\ Len(Grown(old_blobs[u])) = Len(old_blobs[u])
          /\ Grown(old_blobs[u])[k] =
               [old_blobs[u][k] EXCEPT !.age = Older(old_blobs[u][k].age)]
          /\ Grown(old_blobs[u])[k].id = old_blobs[u][k].id
      BY <3>1, <3>2, GrownProperties
    <3>4. k \in 1..Len(old_blobs[u])
      BY <3>1, <3>3
    <3>5. j = k
      BY <2>1, <3>1, <3>3, <3>4, Zenon, ZenonT(30) DEF Distinct
    <3>6. old_blobs[u][k] \in Blob(u)
      BY <3>2, <3>4, SMT, SMTT(30)
    <3> QED
      BY <3>1, <3>3, <3>5, <3>6, Zenon, ZenonT(30) DEF Blob
  <2>7. CASE push(u)
    <3>1. old_blobs'[u] = Kept(u) /\ next[u] = Len(new_blobs[u]) + 1
      BY <2>1, <2>7, PushSteps, ZenonT(30) DEF Typed
    <3>2. /\ \A i \in 1..Len(new_blobs[u]) : Kept(u)[i] = Found(u)[i]
          /\ \A i \in 1..Len(Kept(u)) : i > Len(new_blobs[u]) =>
               \E l \in LostAt(u) : Kept(u)[i] = old_blobs[u][l]
      BY <3>1, KeptProperties, ZenonT(30)
    <3>3. CASE k > Len(new_blobs[u])
      <4>1. PICK l \in LostAt(u) : Kept(u)[k] = old_blobs[u][l]
        BY <3>1, <3>2, <3>3
      <4>2. l \in 1..Len(old_blobs[u])
        BY ZenonT(30) DEF LostAt
      <4>3. j = l
        BY <2>1, <3>1, <4>1, <4>2, ZenonT(30) DEF Distinct
      <4> QED
        BY <3>1, <4>1, <4>3, SMT, SMTT(30)
    <3>4. CASE ~(k > Len(new_blobs[u]))
      <4>1. k \in 1..Len(new_blobs[u]) /\ new_blobs[u][k] \in Blob(u)
        BY <2>1, <3>4, SMTT(30) DEF Lists
      <4>2. Kept(u)[k] = Aged(Expire(u, new_blobs[u][k]), old_blobs[u])
        BY <3>2, <4>1, Zenon DEF Found
      <4>3. view \in Views /\ old_blobs[u] \in Seq(Blob(u))
        BY <2>1 DEF Typed, Lists
      <4>4. /\ Kept(u)[k].id = new_blobs[u][k].id /\ Kept(u)[k].kind = new_blobs[u][k].kind
            /\ Kept(u)[k].fid = new_blobs[u][k].fid
        <5> DEFINE a == Aged(Expire(u, new_blobs[u][k]), old_blobs[u])
        <5>1. a.id = new_blobs[u][k].id
          BY <4>1, <4>3, AgedProperties, Zenon, ZenonT(30)
        <5>2. a.kind = new_blobs[u][k].kind
          BY <4>1, <4>3, AgedProperties, Zenon, ZenonT(30)
        <5>3. a.fid = new_blobs[u][k].fid
          BY <4>1, <4>3, AgedProperties, Zenon, ZenonT(30)
        <5> QED
          BY <4>2, <5>1, <5>2, <5>3, ZenonT(30)
      <4>5. /\ new_blobs[u][k].id = old_blobs[u][j].id
            /\ new_blobs[u][k].kind \in Objects
        BY <3>1, <4>4, ZenonT(30)
      <4>6. /\ old_blobs[u][j].kind \in Objects
            /\ old_blobs[u][j].fid = new_blobs[u][k].fid
        BY <2>1, <4>1, <4>5, ZenonT(30) DEF ObjectsContinue
      <4> QED
        BY <3>1, <4>4, <4>6, Zenon, ZenonT(30)
    <3> QED
      BY <3>3, <3>4
  <2> QED
    BY <2>3, <2>4, <2>5, <2>6, <2>7, Zenon, ZenonT(30)
<1> QED
  BY <1>1, IdsInvariant, PTL DEF TrackerSpec, KeepsObject
-----------------------------------------------------------------------------
(* The ages: what they say about the frames a blob was seen in.            *)

\* Blobs of the last frames are d = 1 frame younger than during an update.
Sound(age, s, d) ==
  age <= max_age =>
    /\ s.seen >= age + d \/ s.seen >= min_age
    /\ s.missed = 0 \/ s.missed <= age - min_age + d

Delay(t) == IF next[t] = 0 THEN 1 ELSE 0

AgeInv(t) ==
  /\ \A i \in 1..Len(new_blobs[t]) : new_blobs[t][i].age = 0
  /\ \A k \in 1..Len(old_blobs[t]) :
       Sound(old_blobs[t][k].age, sight[old_blobs[t][k].id], Delay(t))
  /\ adolescent[t] = IF next[t] = 0 THEN Adolescent(old_blobs[t]) ELSE {}
  /\ t \in Munkres => Len(old_blobs[t]) <= MaxBlobs

AgesInv == \A t \in Tracker : AgeInv(t)

FoundAgain(s) ==
  [seen |-> Min({s.seen + 1, min_age}), missed |-> 0,
   streak |-> Min({s.streak + 1, min_age + 1})]
NotFound(s) == [seen |-> s.seen, missed |-> s.missed + 1, streak |-> 0]

LEMMA SoundAges ==
  ASSUME BlobAssumption, NEW age \in 0..(max_age + 2),
         NEW s \in [seen : Nat, streak : Nat, missed : Nat]
  PROVE  /\ Sound(age, s, 1) => Sound(Older(age), s, 0)
         /\ Sound(age, s, 0) =>
              Sound(IF Reported(age) THEN min_age ELSE age, FoundAgain(s), 1)
         /\ Sound(age, s, 0) /\ Reported(age) => Sound(age, NotFound(s), 1)
         /\ Sound(0, FoundAgain(s), 1) /\ Sound(max_age + 1, FoundAgain(s), 1)
         /\ Sound(age, s, 1) /\ Reported(age) =>
              s.seen >= min_age /\ s.missed <= max_age - min_age + 1
<1>1. min_age \in Nat /\ max_age \in Nat /\ s.seen \in Nat /\ s.missed \in Nat
  BY DEF BlobAssumption
<1>2. Older(age) = IF age + 1 <= max_age + 2 THEN age + 1 ELSE max_age + 2
  BY <1>1, MinOfTwo, SMTT(30) DEF Older
<1>3. /\ FoundAgain(s).seen = IF s.seen + 1 <= min_age THEN s.seen + 1 ELSE min_age
      /\ FoundAgain(s).missed = 0
  BY <1>1, MinOfTwo DEF FoundAgain
<1>4. NotFound(s).seen = s.seen /\ NotFound(s).missed = s.missed + 1
  BY DEF NotFound
<1>5. Sound(age, s, 1) => Sound(Older(age), s, 0)
  BY <1>1, <1>2 DEF Sound
<1>6. Sound(age, s, 0) => Sound(IF Reported(age) THEN min_age ELSE age, FoundAgain(s), 1)
  BY <1>1, <1>3 DEF Sound, Reported
<1>7. Sound(age, s, 0) /\ Reported(age) => Sound(age, NotFound(s), 1)
  BY <1>1, <1>4, SMT, SMTT(30) DEF Sound, Reported
<1>8. Sound(0, FoundAgain(s), 1) /\ Sound(max_age + 1, FoundAgain(s), 1)
  BY <1>1, <1>3 DEF Sound
<1>9. Sound(age, s, 1) /\ Reported(age) =>
        s.seen >= min_age /\ s.missed <= max_age - min_age + 1
  BY <1>1, SMTT(30) DEF Sound, Reported
<1> QED
  BY <1>5, <1>6, <1>7, <1>8, <1>9, Zenon, ZenonT(30)

\* The lost blobs are among those without a partner, which are no more than
\* one side has more than the other.
LEMMA LostFit ==
  ASSUME BlobAssumption, IdsInv, NEW t \in Munkres, next[t] = Len(new_blobs[t]) + 1,
         Len(old_blobs[t]) <= MaxBlobs
  PROVE  Len(Kept(t)) <= MaxBlobs
<1> DEFINE n == Len(new_blobs[t])
           m == Len(old_blobs[t])
           f == n2s[t]
           Paired == {i \in 1..n : f[i] # 0}
           taken == {f[i] : i \in Paired}
           partner == [i \in Paired |-> f[i]]
           ks == LostAt(t)
<1>1. t \in Tracker /\ MaxBlobs \in Nat
  BY DEF BlobAssumption
<1>2. Typed /\ Lists(t) /\ Assigned(t)
  BY <1>1, SMTT(30) DEF IdsInv, TrackerInv
<1>3. n \in Nat /\ m \in Nat /\ n <= MaxBlobs /\ next[t] # 0 /\ \A i \in 1..n : i < next[t]
  BY <1>2, SMTT(30) DEF Lists
<1>4. /\ f \in [1..n -> 0..m]
      /\ \A i, j \in 1..n : i # j /\ f[i] = f[j] => f[i] = 0
      /\ Cardinality(Paired) = Min({n, m})
      /\ \A i \in 1..n : f[i] # 0 => new_blobs[t][i].id = old_blobs[t][f[i]].id
  BY <1>2, <1>3, Zenon, ZenonT(30) DEF Assigned, Matchings
<1>5. /\ Len(Kept(t)) = n + Cardinality(ks) /\ Ids(Found(t)) = Ids(new_blobs[t])
      /\ IsFiniteSet(ks) /\ Cardinality(ks) \in Nat
  BY <1>1, KeptProperties, SMT, SMTT(30)
<1>6. ks \in SUBSET (1..m) /\ \A k \in ks : old_blobs[t][k].id \notin Ids(new_blobs[t])
  BY <1>5, SMTT(30) DEF LostAt
<1>7. taken \in SUBSET (1..m) /\ Paired \in SUBSET (1..n)
  BY <1>3, <1>4, SMT, SMTT(30)
<1>8. ks \cap taken = {}
  <2> SUFFICES ASSUME NEW i \in Paired, f[i] \in ks PROVE FALSE
    OBVIOUS
  <2>1. new_blobs[t][i].id \in Ids(new_blobs[t])
    BY DEF Ids
  <2> QED
    BY <1>4, <1>6, <2>1, SMTT(30)
<1>9. partner \in Bijection(Paired, taken)
  <2>1. partner \in [Paired -> taken] /\ \A k \in taken : \E i \in Paired : partner[i] = k
    BY SMTT(30)
  <2>2. \A i, j \in Paired : partner[i] = partner[j] => i = j
    BY <1>4
  <2> HIDE DEF partner, taken, Paired
  <2> QED
    BY <2>1, <2>2, Zenon, ZenonT(30) DEF Bijection, Injection, Surjection, IsInjective
<1> HIDE DEF n, m, f, Paired, taken, partner, ks
<1>10. /\ IsFiniteSet(1..n) /\ IsFiniteSet(1..m) /\ Cardinality(1..m) = m
  <2>1. n \in Nat /\ m \in Nat
    BY <1>3
  <2>2. Cardinality(1..m) = IF 1 > m THEN 0 ELSE m - 1 + 1
    BY <2>1, FS_Interval
  <2> QED
    BY <2>1, <2>2, FS_Interval, SMTT(30)
<1>11. IsFiniteSet(Paired) /\ IsFiniteSet(taken) /\ Cardinality(taken) = Cardinality(Paired)
  <2>1. IsFiniteSet(Paired) /\ ExistsBijection(Paired, taken)
    BY <1>7, <1>9, <1>10, FS_Subset, ZenonT(30) DEF ExistsBijection
  <2> QED
    BY <2>1, FS_Bijection
<1>12. Cardinality(Paired) \in Nat
  BY <1>11, FS_CardinalityType, SMT, SMTT(30)
<1>13. Cardinality(ks \cup taken) = Cardinality(ks) + Cardinality(taken)
  <2>1. Cardinality(ks \cap taken) = 0
    BY <1>8, FS_EmptySet, Zenon
  <2>2. Cardinality(ks \cup taken)
          = Cardinality(ks) + Cardinality(taken) - Cardinality(ks \cap taken)
    BY <1>5, <1>11, FS_Union
  <2> QED
    BY <1>5, <1>11, <1>12, <2>1, <2>2
<1>14. Cardinality(ks \cup taken) <= m
  <2>1. ks \cup taken \in SUBSET (1..m)
    BY <1>6, <1>7
  <2> QED
    BY <1>10, <2>1, FS_Subset, ZenonT(30)
<1>15. Cardinality(Paired) = IF n <= m THEN n ELSE m
  BY <1>3, <1>4, MinOfTwo
<1>16. m <= MaxBlobs
  BY SMTT(30) DEF m
<1> QED
  BY <1>1, <1>3, <1>5, <1>11, <1>12, <1>13, <1>14, <1>15, <1>16, SMT, SMTT(30)

LEMMA AgesInit == ASSUME BlobAssumption, TrackerInit PROVE AgesInv
<1>1. MaxBlobs \in Nat
  BY ZenonT(30) DEF BlobAssumption
<1> QED
  BY <1>1 DEF TrackerInit, AgesInv, AgeInv, Adolescent

\* A tracker that does not move keeps what it knows of its blobs.
LEMMA OtherAgesKeep ==
  ASSUME NEW u \in Tracker, AgeInv(u), new_blobs'[u] = new_blobs[u],
         old_blobs'[u] = old_blobs[u], next'[u] = next[u], adolescent'[u] = adolescent[u],
         \A k \in 1..Len(old_blobs[u]) :
           sight'[old_blobs[u][k].id] = sight[old_blobs[u][k].id]
  PROVE  AgeInv(u)'
<1>1. Delay(u)' = Delay(u) /\ Adolescent(old_blobs[u])' = Adolescent(old_blobs[u])
  BY ZenonT(30) DEF Delay, Adolescent
<1>2. ASSUME NEW k \in 1..Len(old_blobs[u])
      PROVE  Sound(old_blobs[u][k].age, sight[old_blobs[u][k].id], Delay(u))'
  BY <1>1, Zenon DEF AgeInv, Sound
<1> QED
  BY <1>1, <1>2, ZenonT(30) DEF AgeInv

LEMMA UpdateKeepsAges ==
  ASSUME BlobAssumption, IdsInv, AgesInv, NEW t \in Tracker, update(t)
  PROVE  AgesInv'
<1>1. Typed /\ Lists(t) /\ Named(t) /\ AgeInv(t) /\ next[t] = 0
  BY DEF IdsInv, TrackerInv, AgesInv, update
<1>2. ASSUME NEW u \in Tracker, u # t PROVE AgeInv(u)'
  BY <1>1, <1>2, OtherAgesKeep, Zenon, ZenonT(30) DEF AgesInv, Typed, update
<1>3. /\ old_blobs'[t] = Grown(old_blobs[t]) /\ next'[t] = 1 /\ adolescent'[t] = {}
      /\ sight' = sight /\ \A i \in 1..Len(new_blobs'[t]) : new_blobs'[t][i].age = 0
  <2>1. PICK frame \in Frames(t) :
          new_blobs' = [new_blobs EXCEPT ![t] =
             [i \in 1..Len(frame) |->
                [x |-> frame[i].x, kind |-> frame[i].kind, fid |-> frame[i].fid,
                 id |-> 0, age |-> 0]]]
    BY ZenonT(30) DEF update
  <2>2. PICK n \in 0..MaxBlobs : frame \in [1..n -> view.sees[t]]
    BY DEF Frames
  <2>3. Len(frame) \in Nat
    BY <2>2, SMTT(30) DEF BlobAssumption
  <2>4. new_blobs'[t] = [i \in 1..Len(frame) |->
                [x |-> frame[i].x, kind |-> frame[i].kind, fid |-> frame[i].fid,
                 id |-> 0, age |-> 0]]
    BY <1>1, <2>1, SMT, SMTT(30) DEF Typed
  <2>5. \A i \in 1..Len(new_blobs'[t]) : new_blobs'[t][i].age = 0
    BY <2>3, <2>4
  <2> QED
    BY <1>1, <2>5 DEF Typed, update
<1>4. /\ Len(Grown(old_blobs[t])) = Len(old_blobs[t])
      /\ \A k \in 1..Len(old_blobs[t]) :
           /\ Grown(old_blobs[t])[k] =
                [old_blobs[t][k] EXCEPT !.age = Older(old_blobs[t][k].age)]
           /\ Grown(old_blobs[t])[k].id = old_blobs[t][k].id
  BY <1>1, GrownProperties, Zenon DEF Lists, Typed
<1>5. ASSUME NEW k \in 1..Len(old_blobs[t])
      PROVE  Sound(old_blobs'[t][k].age, sight'[old_blobs'[t][k].id], 0)
  <2> DEFINE o == old_blobs[t][k]
  <2>1. o \in Blob(t) /\ o.id \in 1..MaxId
    BY <1>1 DEF Lists, Named, Typed, BlobAssumption
  <2>2. o.age \in 0..(max_age + 2) /\ sight[o.id] \in [seen : Nat, streak : Nat, missed : Nat]
    BY <1>1, <2>1, BlobsAreRecords, ZenonT(30) DEF Typed
  <2>3. Sound(o.age, sight[o.id], 1)
    BY <1>1, ZenonT(30) DEF AgeInv, Delay
  <2>4. Sound(Older(o.age), sight[o.id], 0)
    BY <2>2, <2>3, SoundAges, ZenonT(30)
  <2>5. [o EXCEPT !.age = Older(o.age)].age = Older(o.age)
    BY <2>1, ZenonT(30) DEF Blob
  <2> QED
    BY <1>3, <1>4, <2>4, <2>5, Zenon, ZenonT(30)
<1>6. AgeInv(t)'
  <2>1. Delay(t)' = 0
    BY <1>3 DEF Delay
  <2>2. \A k \in 1..Len(old_blobs'[t]) :
          Sound(old_blobs'[t][k].age, sight'[old_blobs'[t][k].id], Delay(t)')
    BY <1>3, <1>4, <1>5, <2>1, ZenonT(30)
  <2>3. t \in Munkres => Len(old_blobs'[t]) <= MaxBlobs
    BY <1>1, <1>3, <1>4, ZenonT(30) DEF AgeInv
  <2>4. next'[t] # 0
    BY <1>3
  <2> HIDE DEF Delay, Sound
  <2> QED
    BY <1>3, <2>2, <2>3, <2>4, ZenonT(30) DEF AgeInv
<1> QED
  BY <1>2, <1>6, Zenon, ZenonT(30) DEF AgesInv

LEMMA TrackKeepsAges ==
  ASSUME BlobAssumption, IdsInv, AgesInv, NEW t \in Tracker, trackBlobs(t)
  PROVE  AgesInv'
<1> DEFINE i == next[t]
           b == new_blobs[t][i]
<1>1. Typed /\ Lists(t) /\ AgeInv(t)
  BY DEF IdsInv, TrackerInv, AgesInv
<1>2. /\ i \in 1..Len(new_blobs[t]) /\ next' = [next EXCEPT ![t] = i + 1]
      /\ UNCHANGED <<old_blobs, adolescent, sight>>
  BY Zenon, ZenonT(30) DEF trackBlobs
<1>3. b \in Blob(t) /\ b.age = 0
  <2>1. new_blobs[t] \in Seq(Blob(t)) /\ \A j \in 1..Len(new_blobs[t]) : new_blobs[t][j].age = 0
    BY <1>1, Zenon DEF Lists, AgeInv
  <2> QED
    BY <1>2, <2>1, SMT, SMTT(30)
<1>4. \E c : c.age = 0 /\ new_blobs' = [new_blobs EXCEPT ![t] = [new_blobs[t] EXCEPT ![i] = c]]
  <2>1. ASSUME NEW o PROVE Continue(t, b, o).age = 0
    BY <1>3 DEF Continue, Blob
  <2>2. ASSUME NEW id PROVE [b EXCEPT !.id = id].age = 0
    BY <1>3 DEF Blob
  <2>3. \/ \E o : new_blobs' = [new_blobs EXCEPT ![t] = [new_blobs[t] EXCEPT ![i] =
                                  Continue(t, b, o)]]
        \/ \E id : new_blobs' = [new_blobs EXCEPT ![t] = [new_blobs[t] EXCEPT ![i] =
                                   [b EXCEPT !.id = id]]]
    BY Zenon DEF trackBlobs
  <2> HIDE DEF b, i
  <2> QED
    BY <2>1, <2>2, <2>3, Zenon
<1>5. PICK c : c.age = 0 /\ new_blobs' = [new_blobs EXCEPT ![t] = [new_blobs[t] EXCEPT ![i] = c]]
  BY <1>4, Zenon
<1>6. ASSUME NEW u \in Tracker, u # t PROVE AgeInv(u)'
  BY <1>1, <1>2, <1>5, <1>6, OtherAgesKeep, Zenon, ZenonT(30) DEF AgesInv, Typed
<1>7. /\ new_blobs'[t] = [new_blobs[t] EXCEPT ![i] = c]
      /\ next'[t] # 0 /\ next[t] # 0 /\ old_blobs'[t] = old_blobs[t]
      /\ adolescent'[t] = adolescent[t]
  BY <1>1, <1>2, <1>5, SMT, SMTT(30) DEF Typed, Lists
<1>8. \A j \in 1..Len(new_blobs'[t]) : new_blobs'[t][j].age = 0
  <2>1. Len(new_blobs'[t]) = Len(new_blobs[t])
    BY <1>1, <1>7, SMTT(30) DEF Lists
  <2> QED
    BY <1>1, <1>5, <1>7, <2>1, SMT, SMTT(30) DEF AgeInv, Lists
<1>9. Delay(t)' = Delay(t)
  BY <1>7, ZenonT(30) DEF Delay
<1>10. AgeInv(t)'
  BY <1>1, <1>2, <1>7, <1>8, <1>9, Zenon, ZenonT(30) DEF AgeInv
<1> QED
  BY <1>6, <1>10 DEF AgesInv

LEMMA PushKeepsAges ==
  ASSUME BlobAssumption, IdsInv, AgesInv, NEW t \in Tracker, push(t)
  PROVE  AgesInv'
<1> DEFINE all == Kept(t)
           n == Len(new_blobs[t])
<1>1. Typed /\ Lists(t) /\ Named(t) /\ AgeInv(t)
  BY DEF IdsInv, TrackerInv, AgesInv
<1>2. /\ next[t] = n + 1 /\ old_blobs' = [old_blobs EXCEPT ![t] = all]
      /\ adolescent' = [adolescent EXCEPT ![t] = Adolescent(all)]
      /\ new_blobs' = [new_blobs EXCEPT ![t] = <<>>]
      /\ next' = [next EXCEPT ![t] = 0]
      /\ sight' = [i \in 1..MaxId |-> Sighted(t, i)]
  BY PushSteps, ZenonT(30)
<1>3. /\ Found(t) \in Seq(Blob(t)) /\ Len(Found(t)) = n /\ Ids(Found(t)) = Ids(new_blobs[t])
      /\ all \in Seq(Blob(t))
      /\ \A i \in 1..n : all[i] = Found(t)[i]
      /\ \A i \in 1..Len(all) : i > n => \E k \in LostAt(t) : all[i] = old_blobs[t][k]
      /\ \A i \in 1..Len(all) : all[i].id \in 1..id_counter /\ all[i].id \in Live(t)
      /\ \A k \in LostAt(t) : old_blobs[t][k].id \in Ids(all)
  BY <1>2, KeptProperties, KeptAreLive, ZenonT(30)
<1>4. /\ old_blobs'[t] = all /\ adolescent'[t] = Adolescent(all) /\ new_blobs'[t] = <<>>
      /\ next'[t] = 0
  BY <1>1, <1>2, Zenon, ZenonT(30) DEF Typed
<1>5. n \in Nat /\ id_counter \in 0..MaxId /\ MaxId \in Nat /\ next[t] # 0 /\ Delay(t) = 0
  BY <1>1, <1>2, SMTT(30) DEF Lists, Typed, BlobAssumption, Delay
<1> HIDE DEF all, n
<1>6. ASSUME NEW u \in Tracker, u # t PROVE AgeInv(u)'
  <2>1. ASSUME NEW k \in 1..Len(old_blobs[u])
        PROVE  sight'[old_blobs[u][k].id] = sight[old_blobs[u][k].id]
    <3> DEFINE id == old_blobs[u][k].id
    <3>1. id \in 1..id_counter /\ id \in Ids(old_blobs[u])
      BY SMT, SMTT(30) DEF IdsInv, TrackerInv, Named, Ids
    <3>2. id \in 1..MaxId /\ id # 0 /\ id \in Live(u)
      BY <1>5, <3>1, SMTT(30) DEF Live
    <3>3. id \notin Live(t)
      BY <1>6, <3>2, ZenonT(30) DEF IdsInv, Apart
    <3>4. id \notin Ids(new_blobs[t]) /\ id \notin Ids(old_blobs[t])
      BY <3>2, <3>3, ZenonT(30) DEF Live
    <3>5. id \notin Ids(all)
      BY <1>3, <3>3, ZenonT(30) DEF Ids
    <3>6. Sighted(t, id) = sight[id]
      BY <1>3, <3>4, <3>5, ZenonT(30) DEF Sighted, all
    <3> QED
      BY <1>2, <3>2, <3>6, Zenon, ZenonT(30)
  <2> QED
    BY <1>1, <1>2, <1>6, <2>1, OtherAgesKeep, ZenonT(30) DEF AgesInv, Typed
<1>7. ASSUME NEW i \in 1..Len(all) PROVE Sound(all[i].age, sight'[all[i].id], 1)
  <2> DEFINE id == all[i].id
             s == sight[id]
  <2>1. id \in 1..MaxId
    BY <1>3, <1>5
  <2>2. s \in [seen : Nat, streak : Nat, missed : Nat]
    BY <1>1, <2>1, ZenonT(30) DEF Typed
  <2>3. sight'[id] = Sighted(t, id)
    BY <1>2, <2>1, ZenonT(30)
  <2>4. \A k \in 1..Len(old_blobs[t]) : old_blobs[t][k].id = id =>
          Sound(old_blobs[t][k].age, s, 0) /\ old_blobs[t][k].age \in 0..(max_age + 2)
    <3>1. \A k \in 1..Len(old_blobs[t]) : old_blobs[t][k] \in Blob(t)
      <4>1. old_blobs[t] \in Seq(Blob(t))
        BY <1>1, ZenonT(30) DEF Lists
      <4> QED
        BY <4>1, SMTT(30)
    <3>2. \A k \in 1..Len(old_blobs[t]) : old_blobs[t][k].age \in 0..(max_age + 2)
      BY <1>1, <3>1, BlobsAreRecords DEF Typed
    <3> QED
      BY <1>1, <1>5, <3>2, Zenon, ZenonT(30) DEF AgeInv
  <2>5. CASE i > n
    <3>1. PICK k \in LostAt(t) : all[i] = old_blobs[t][k]
      BY <1>3, <2>5, ZenonT(30)
    <3>2. /\ k \in 1..Len(old_blobs[t]) /\ id \notin Ids(Found(t))
          /\ Reported(old_blobs[t][k].age) /\ id \in Ids(all)
      BY <1>3, <3>1, ZenonT(30) DEF LostAt
    <3>3. sight'[id] = NotFound(s)
      BY <2>3, <3>2, Zenon DEF Sighted, NotFound, all
    <3>4. Sound(all[i].age, s, 0) /\ Reported(all[i].age) /\ all[i].age \in 0..(max_age + 2)
      BY <2>4, <3>1, <3>2, ZenonT(30)
    <3> HIDE DEF s
    <3>5. Sound(all[i].age, NotFound(s), 1)
      BY <2>2, <3>4, SoundAges, ZenonT(30)
    <3> QED
      BY <3>3, <3>5, ZenonT(30)
  <2>6. CASE ~(i > n)
    <3>1. i \in 1..n /\ new_blobs[t][i] \in Blob(t) /\ new_blobs[t][i].age = 0
      <4>1. i \in 1..n
        BY <1>5, <2>6, SMTT(30)
      <4> QED
        BY <1>1, <4>1 DEF Lists, AgeInv, n
    <3>2. all[i] = Aged(Expire(t, new_blobs[t][i]), old_blobs[t])
      BY <1>3, <3>1, ZenonT(30) DEF Found, n
    <3>3. id \in Ids(Found(t))
      BY <1>3, <3>1, ZenonT(30) DEF Ids
    <3>4. sight'[id] = FoundAgain(s)
      BY <2>3, <3>3, ZenonT(30) DEF Sighted, FoundAgain
    <3>5. view \in Views /\ old_blobs[t] \in Seq(Blob(t))
      BY <1>1, ZenonT(30) DEF Typed, Lists
    <3>6. /\ all[i].id = new_blobs[t][i].id
          /\ \/ all[i].age \in {new_blobs[t][i].age, max_age + 1}
             \/ \E k \in 1..Len(old_blobs[t]) :
                  /\ old_blobs[t][k].id = new_blobs[t][i].id
                  /\ all[i].age = IF Reported(old_blobs[t][k].age) THEN min_age
                                  ELSE old_blobs[t][k].age
      <4> DEFINE a == Aged(Expire(t, new_blobs[t][i]), old_blobs[t])
      <4>1. a.id = new_blobs[t][i].id
        BY <3>1, <3>5, AgedProperties, ZenonT(30)
      <4>2. \/ a.age \in {new_blobs[t][i].age, max_age + 1}
            \/ \E k \in 1..Len(old_blobs[t]) :
                 /\ old_blobs[t][k].id = new_blobs[t][i].id
                 /\ a.age = IF Reported(old_blobs[t][k].age) THEN min_age
                            ELSE old_blobs[t][k].age
        BY <3>1, <3>5, AgedProperties, Zenon, ZenonT(30)
      <4> QED
        BY <3>2, <4>1, <4>2, ZenonT(30)
    <3> HIDE DEF s
    <3>7. CASE all[i].age \in {new_blobs[t][i].age, max_age + 1}
      <4>1. 0 \in 0..(max_age + 2)
        <5>1. max_age \in Nat
          BY Zenon DEF BlobAssumption
        <5> QED
          BY <5>1, SMTT(30)
      <4>2. Sound(0, FoundAgain(s), 1) /\ Sound(max_age + 1, FoundAgain(s), 1)
        BY <2>2, <4>1, SoundAges
      <4>3. all[i].age = 0 \/ all[i].age = max_age + 1
        BY <3>1, <3>7, ZenonT(30)
      <4> QED
        BY <3>4, <4>2, <4>3, ZenonT(30)
    <3>8. CASE \E k \in 1..Len(old_blobs[t]) :
                  /\ old_blobs[t][k].id = new_blobs[t][i].id
                  /\ all[i].age = IF Reported(old_blobs[t][k].age) THEN min_age
                                  ELSE old_blobs[t][k].age
      <4>1. PICK k \in 1..Len(old_blobs[t]) :
              /\ old_blobs[t][k].id = id
              /\ all[i].age = IF Reported(old_blobs[t][k].age) THEN min_age
                              ELSE old_blobs[t][k].age
        BY <3>6, <3>8, ZenonT(30)
      <4>2. Sound(old_blobs[t][k].age, s, 0) /\ old_blobs[t][k].age \in 0..(max_age + 2)
        BY <2>4, <4>1, ZenonT(30)
      <4>3. Sound(IF Reported(old_blobs[t][k].age) THEN min_age ELSE old_blobs[t][k].age,
                  FoundAgain(s), 1)
        BY <2>2, <4>2, SoundAges, ZenonT(30)
      <4> QED
        BY <3>4, <4>1, <4>3, ZenonT(30)
    <3> QED
      BY <3>6, <3>7, <3>8, Zenon, ZenonT(30)
  <2> QED
    BY <2>5, <2>6, Zenon, ZenonT(30)
<1>8. t \in Munkres => Len(all) <= MaxBlobs
  BY <1>1, <1>2, LostFit, Zenon, ZenonT(30) DEF AgeInv, all, n
<1>9. AgeInv(t)'
  <2>1. Delay(t)' = 1
    BY <1>4, ZenonT(30) DEF Delay
  <2>2. \A k \in 1..Len(old_blobs'[t]) :
          Sound(old_blobs'[t][k].age, sight'[old_blobs'[t][k].id], Delay(t)')
    BY <1>4, <1>7, <2>1, Zenon, ZenonT(30)
  <2>3. Adolescent(old_blobs[t])' = Adolescent(all)
    BY <1>4, Zenon DEF Adolescent
  <2>4. \A i \in 1..Len(new_blobs'[t]) : new_blobs'[t][i].age = 0
    BY <1>4, SMT, SMTT(30)
  <2>5. adolescent'[t] = IF next'[t] = 0 THEN Adolescent(old_blobs[t])' ELSE {}
    BY <1>4, <2>3, Zenon, ZenonT(30)
  <2>6. t \in Munkres => Len(old_blobs'[t]) <= MaxBlobs
    BY <1>4, <1>8, Zenon, ZenonT(30)
  <2> QED
    BY <2>2, <2>4, <2>5, <2>6, Zenon, ZenonT(30) DEF AgeInv
<1> QED
  BY <1>6, <1>9 DEF AgesInv

LEMMA AgesInvariant == ASSUME BlobAssumption PROVE TrackerSpec => [](IdsInv /\ AgesInv)
<1>1. TrackerInit => AgesInv
  BY AgesInit
<1>2. IdsInv /\ AgesInv /\ [TrackerNext]_tracker_vars => AgesInv'
  <2> SUFFICES ASSUME IdsInv, AgesInv, [TrackerNext]_tracker_vars PROVE AgesInv'
    BY SMT, SMTT(30)
  <2>1. CASE UNCHANGED tracker_vars
    BY <2>1, OtherAgesKeep DEF AgesInv, tracker_vars
  <2> QED
    BY <2>1, UpdateKeepsAges, TrackKeepsAges, PushKeepsAges, SMT, SMTT(30) DEF TrackerNext
<1> QED
  BY <1>1, <1>2, IdsInvariant, PTL DEF TrackerSpec

(* Whatever the frames, and the order in which near blobs are matched, the *)
(* blobs of a tracker have different ids; what update passes on was        *)
(* detected in min_age frames and is missing for no longer than its age    *)
(* allows; and the lost blobs that are kept never make the lists longer    *)
(* than the matrix of mtdev_match.                                         *)
THEOREM BlobsAreAlwaysFollowed ==
  ASSUME BlobAssumption PROVE TrackerSpec => []BlobsAreFollowed
<1>1. IdsInv /\ AgesInv => BlobsAreFollowed
  <2> SUFFICES ASSUME IdsInv, AgesInv PROVE BlobsAreFollowed
    OBVIOUS
  <2>1. Typed /\ \A t \in Tracker : Lists(t) /\ Named(t) /\ Distinct(t) /\ AgeInv(t)
    BY SMTT(30) DEF IdsInv, TrackerInv, AgesInv
  <2>2. TrackerTypeOK
    <3> SUFFICES ASSUME NEW t \in Tracker
                 PROVE  /\ \A i \in 1..Len(new_blobs[t]) : new_blobs[t][i] \in Blob(t)
                        /\ \A i \in 1..Len(old_blobs[t]) :
                             old_blobs[t][i] \in Blob(t) /\ old_blobs[t][i].id > 0
                        /\ next[t] \in 0..(MaxBlobs + 1)
                        /\ adolescent[t] \subseteq Ids(old_blobs[t])
      BY <2>1 DEF TrackerTypeOK, Typed
    <3>1. \A i \in 1..Len(old_blobs[t]) : old_blobs[t][i].id > 0
      BY <2>1 DEF Named, Typed
    <3> QED
      BY <2>1, <3>1, SMTT(30) DEF Lists, BlobAssumption
  <2>3. ASSUME NEW t \in Tracker PROVE Cardinality(Ids(old_blobs[t])) = Len(old_blobs[t])
    <3> DEFINE n == Len(old_blobs[t])
               S == Ids(old_blobs[t])
               f == [k \in 1..n |-> old_blobs[t][k].id]
    <3>1. n \in Nat
      BY <2>1, SMTT(30) DEF Lists
    <3>2. f \in [1..n -> S] /\ \A i \in S : \E k \in 1..n : f[k] = i
      BY SMTT(30) DEF Ids
    <3>3. \A j, k \in 1..n : f[j] = f[k] => j = k
      BY <2>1 DEF Distinct
    <3> HIDE DEF n, S, f
    <3>4. ExistsBijection(1..n, S)
      BY <3>2, <3>3, Zenon DEF ExistsBijection, Bijection, Injection, Surjection, IsInjective
    <3>5. IsFiniteSet(1..n) /\ Cardinality(1..n) = IF 1 > n THEN 0 ELSE n - 1 + 1
      BY <3>1, FS_Interval, SMTT(30)
    <3>6. Cardinality(S) = Cardinality(1..n)
      BY <3>4, <3>5, FS_Bijection
    <3> QED
      BY <3>1, <3>5, <3>6, SMT, SMTT(30) DEF S, n
  <2>4. ASSUME NEW t \in Tracker, NEW i \in adolescent[t]
        PROVE  sight[i].seen >= min_age /\ sight[i].missed <= max_age - min_age + 1
    <3>1. next[t] = 0 /\ i \in Adolescent(old_blobs[t])
      BY <2>1, <2>4, ZenonT(30) DEF AgeInv
    <3>2. PICK k \in 1..Len(old_blobs[t]) :
            Reported(old_blobs[t][k].age) /\ old_blobs[t][k].id = i
      BY <3>1, ZenonT(30) DEF Adolescent
    <3>3. old_blobs[t][k] \in Blob(t) /\ i \in 1..MaxId /\ view \in Views
      BY <2>1, <3>2, SMTT(30) DEF Lists, Named, Typed, BlobAssumption
    <3>4. /\ old_blobs[t][k].age \in 0..(max_age + 2)
          /\ sight[i] \in [seen : Nat, streak : Nat, missed : Nat]
      BY <2>1, <3>3, BlobsAreRecords, ZenonT(30) DEF Typed
    <3>5. Sound(old_blobs[t][k].age, sight[i], 1)
      BY <2>1, <3>1, <3>2, ZenonT(30) DEF AgeInv, Delay
    <3> QED
      BY <3>2, <3>4, <3>5, SoundAges, ZenonT(30)
  <2>5. FitsMatrix
    BY <2>1, Zenon DEF FitsMatrix, AgeInv, BlobAssumption
  <2> QED
    BY <2>2, <2>3, <2>4, <2>5, ZenonT(30) DEF BlobsAreFollowed, UniqueIds, ReportedAreThere
<1> QED
  BY <1>1, AgesInvariant, PTL
===========================================================================
