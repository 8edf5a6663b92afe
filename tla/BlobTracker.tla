---------------------------- MODULE BlobTracker ----------------------------
(***************************************************************************)
(* moAbstractBlobTrackerModule with its two matching algorithms, greedy    *)
(* and Munkres.  A frame is the list of blobs a finder pushed.  Each gets  *)
(* the blob_id of a blob of the last frames, or a new one; a blob that is  *)
(* lost is kept for a while, and blobs of the right age are passed on.     *)
(*                                                                         *)
(* Several trackers, each possibly in its own thread, share id_counter: a  *)
(* step is one blob.  Positions are integers on a line.  An object is a    *)
(* blob that implements "fiducial" or "markerlessobject"; a volatile one   *)
(* is an object whose detection was not certain, with fiducial_id -1.      *)
(***************************************************************************)
EXTENDS Integers, Sequences, FiniteSets, FiniteSetsExt

CONSTANTS
  Tracker,
  Munkres,       \* the trackers that use the Munkres algorithm
  Views,         \* scenes [sees, ids]: sees[t] is the set of [x, kind, fid]
                 \* a finder may report to t, {} if t has no input, and ids
                 \* bounds id_counter
  MaxBlobs,      \* the most blobs in a frame
  min_age, max_age, max_distance,
  MaxId          \* the largest of these bounds

VARIABLES
  view,                  \* the member of Views, which does not change
  id_counter,
  new_blobs, old_blobs,  \* of each tracker: sequences of blobs
  adolescent,            \* the ids in the list pushed last
  next,                  \* the blob trackBlobs looks at, 0 between updates
  n2s,                   \* Munkres: the old blob matched with each new one
  sight                  \* history, of each id: frames it was seen in, in a
                         \* row and since it was last seen

tracker_vars == <<view, id_counter, new_blobs, old_blobs, adolescent, next, n2s, sight>>

Frames(t) == UNION {[1..n -> view.sees[t]] : n \in 0..MaxBlobs}
Connected == {t \in Tracker : view.sees[t] # {}}
Objects == {"object", "volatile"}

Unseen == [seen |-> 0, streak |-> 0, missed |-> 0]

TrackerInit ==
  /\ view \in Views
  /\ id_counter = 0
  /\ new_blobs = [t \in Tracker |-> <<>>]
  /\ old_blobs = [t \in Tracker |-> <<>>]
  /\ adolescent = [t \in Tracker |-> {}]
  /\ next = [t \in Tracker |-> 0]
  /\ n2s = [t \in Tracker |-> <<>>]
  /\ sight = [i \in 1..MaxId |-> Unseen]
-----------------------------------------------------------------------------
Abs(n) == IF n < 0 THEN -n ELSE n
Distance(b, c) == Abs(b.x - c.x)
Ids(blobs) == {blobs[i].id : i \in 1..Len(blobs)}

\* Ages above max_age + 1 are not told apart by the code.
Older(age) == Min({age + 1, max_age + 2})
Grown(blobs) ==
  [i \in 1..Len(blobs) |-> [blobs[i] EXCEPT !.age = Older(blobs[i].age)]]

\* Faulty: without the lower limit.
Reported_NoMin(age) == age <= max_age

Reported(age) == min_age <= age /\ age <= max_age

(* mtdev_match: a matching of as many new and old blobs as possible, with  *)
(* the least sum of squared distances; 0 stands for no partner.            *)
Matchings(new, old) ==
  {f \in [1..Len(new) -> 0..Len(old)] :
     /\ \A i, j \in 1..Len(new) : i # j /\ f[i] = f[j] => f[i] = 0
     /\ Cardinality({i \in 1..Len(new) : f[i] # 0})
          = Min({Len(new), Len(old)})}
Cost(f, new, old) ==
  MapThenSumSet(LAMBDA i : Distance(new[i], old[f[i]]) ^ 2,
                {i \in 1..Len(new) : f[i] # 0})
mtdev_match(new, old) ==
  {f \in Matchings(new, old) :
     \A g \in Matchings(new, old) : Cost(f, new, old) <= Cost(g, new, old)}
-----------------------------------------------------------------------------
\* Faulty: forgets which ids were given in this frame.
Candidates_Reuses(b, old, reused) ==
  {k \in 1..Len(old) :
     /\ b.kind = "object" /\ old[k].kind \in Objects => b.fid = old[k].fid
     /\ b.kind \in Objects => old[k].kind \in Objects
     /\ Distance(b, old[k]) < max_distance}

\* Faulty: an object may continue a plain blob.
Candidates_AnyKind(b, old, reused) ==
  {k \in 1..Len(old) :
     /\ old[k].id \notin reused
     /\ b.kind = "object" /\ old[k].kind \in Objects => b.fid = old[k].fid
     /\ Distance(b, old[k]) < max_distance}

(* The old blobs a new blob may continue: not reused, near enough, and no  *)
(* object that turns into another one or appears where there was a blob.   *)
Candidates(b, old, reused) ==
  {k \in 1..Len(old) :
     /\ old[k].id \notin reused
     /\ b.kind = "object" /\ old[k].kind \in Objects => b.fid = old[k].fid
     /\ b.kind \in Objects => old[k].kind \in Objects
     /\ Distance(b, old[k]) < max_distance}

\* The first of the closest ones, if there is any.
Closest(b, old, reused) ==
  {k \in Candidates(b, old, reused) : \A j \in Candidates(b, old, reused) :
     \/ Distance(b, old[k]) < Distance(b, old[j])
     \/ Distance(b, old[k]) = Distance(b, old[j]) /\ k <= j}

\* Faulty: leaves the id.
Continue_NoId(t, b, o) ==
  IF t \notin Munkres /\ b.kind = "volatile" THEN [b EXCEPT !.fid = o.fid] ELSE b

\* b takes the id of old blob o, and its fiducial_id if b is not certain.
Continue(t, b, o) ==
  [b EXCEPT !.id = o.id,
            !.fid = IF t \notin Munkres /\ b.kind = "volatile" THEN o.fid ELSE @]

\* The old blobs that blob i of tracker t continues: one or none.
Matched(t, i) ==
  LET new == new_blobs[t]
      old == old_blobs[t] IN
  IF t \in Munkres THEN {n2s[t][i]} \ {0}
  ELSE Closest(new[i], old, {new[j].id : j \in 1..(i - 1)})
-----------------------------------------------------------------------------
(* moAbstractBlobTrackerModule::update, up to trackBlobs.                  *)
update(t) ==
  /\ next[t] = 0 /\ t \in Connected
  /\ \E frame \in Frames(t) :
       /\ frame = <<>> \/ id_counter + Len(frame)
                            + (Cardinality(Connected) - 1) * MaxBlobs <= view.ids
       /\ new_blobs' = [new_blobs EXCEPT ![t] =
            [i \in 1..Len(frame) |->
               [x |-> frame[i].x, kind |-> frame[i].kind, fid |-> frame[i].fid,
                id |-> 0, age |-> 0]]]
       /\ old_blobs' = [old_blobs EXCEPT ![t] = Grown(@)]
       /\ IF t \in Munkres
          THEN \E f \in mtdev_match(new_blobs'[t], old_blobs[t]) :
                 n2s' = [n2s EXCEPT ![t] = f]
          ELSE UNCHANGED n2s
  /\ next' = [next EXCEPT ![t] = 1]
  /\ adolescent' = [adolescent EXCEPT ![t] = {}]
  /\ UNCHANGED <<view, id_counter, sight>>

\* Faulty: two trackers may draw the same id.
pincrement_Lost(id) == id = id_counter + 1 /\ id_counter' \in {id_counter, id}

pincrement(id) == id = id_counter + 1 /\ id_counter' = id

\* One blob of trackBlobs.
trackBlobs(t) ==
  /\ next[t] \in 1..Len(new_blobs[t])
  /\ LET i == next[t]
         b == new_blobs[t][i] IN
       \/ \E k \in Matched(t, i) :
            /\ new_blobs' = [new_blobs EXCEPT ![t][i] =
                               Continue(t, b, old_blobs[t][k])]
            /\ UNCHANGED id_counter
       \/ /\ Matched(t, i) = {}
          /\ \E id \in 1..MaxId :
               pincrement(id) /\ new_blobs' = [new_blobs EXCEPT ![t][i].id = id]
  /\ next' = [next EXCEPT ![t] = @ + 1]
  /\ UNCHANGED <<view, old_blobs, adolescent, n2s, sight>>
-----------------------------------------------------------------------------
(* The rest of update: ages, lost blobs, what is passed on, and the swap.  *)

\* A volatile object that continues no certain one expires (greedy only).
Expire(t, b) ==
  IF t \notin Munkres /\ b.kind = "volatile" /\ b.fid = -1
  THEN [b EXCEPT !.age = max_age + 1] ELSE b

\* A blob that was found again: back to min_age once it is grown up.
Aged(b, old) ==
  LET o == {k \in 1..Len(old) : old[k].id = b.id} IN
  IF o = {} THEN b
  ELSE LET age == old[CHOOSE k \in o : TRUE].age IN
       [b EXCEPT !.age = IF Reported(age) THEN min_age ELSE age]

\* The blobs at the indices of ks, in their order.
Rank(ks) == [k \in ks |-> Cardinality({j \in ks : j <= k})]
Picked(blobs, ks) ==
  [i \in 1..Cardinality(ks) |-> blobs[CHOOSE k \in ks : Rank(ks)[k] = i]]

\* Faulty: adds the blobs that were found, too.
Lost_Found(new, old) == Picked(old, {k \in 1..Len(old) : Reported(old[k].age)})

\* Lost, but not for too long, and there for some time before.
Lost(new, old) ==
  Picked(old, {k \in 1..Len(old) : old[k].id \notin Ids(new) /\ Reported(old[k].age)})

Adolescent(blobs) ==
  {blobs[i].id : i \in {j \in 1..Len(blobs) : Reported(blobs[j].age)}}

push(t) ==
  /\ next[t] = Len(new_blobs[t]) + 1
  /\ LET old == old_blobs[t]
         new == [i \in 1..Len(new_blobs[t]) |->
                   Aged(Expire(t, new_blobs[t][i]), old)]
         all == new \o Lost(new, old)
     IN
       /\ old_blobs' = [old_blobs EXCEPT ![t] = all]
       /\ adolescent' = [adolescent EXCEPT ![t] = Adolescent(all)]
       /\ sight' = [i \in 1..MaxId |->
            IF i \in Ids(new)
            THEN [seen |-> Min({sight[i].seen + 1, min_age}), missed |-> 0,
                  streak |-> Min({sight[i].streak + 1, min_age + 1})]
            ELSE IF i \in Ids(all)
            THEN [seen |-> sight[i].seen, missed |-> sight[i].missed + 1, streak |-> 0]
            ELSE IF i \in Ids(old) THEN Unseen ELSE sight[i]]
  /\ new_blobs' = [new_blobs EXCEPT ![t] = <<>>]
  /\ next' = [next EXCEPT ![t] = 0]
  /\ n2s' = [n2s EXCEPT ![t] = <<>>]
  /\ UNCHANGED <<view, id_counter>>

TrackerNext == \E t \in Tracker : update(t) \/ trackBlobs(t) \/ push(t)

TrackerSpec == TrackerInit /\ [][TrackerNext]_tracker_vars
-----------------------------------------------------------------------------
Blob(t) == [x : {d.x : d \in view.sees[t]}, kind : {d.kind : d \in view.sees[t]},
            fid : {d.fid : d \in view.sees[t]}, id : 0..MaxId, age : 0..(max_age + 2)]

TrackerTypeOK ==
  /\ id_counter \in 0..MaxId
  /\ \A t \in Tracker :
       /\ \A i \in 1..Len(new_blobs[t]) : new_blobs[t][i] \in Blob(t)
       /\ \A i \in 1..Len(old_blobs[t]) : old_blobs[t][i] \in Blob(t) /\ old_blobs[t][i].id > 0
       /\ next[t] \in 0..(MaxBlobs + 1)
       /\ adolescent[t] \subseteq Ids(old_blobs[t])

(* The blobs a tracker follows have different ids, whatever the order in   *)
(* which near blobs were matched.                                          *)
UniqueIds ==
  \A t \in Tracker : Cardinality(Ids(old_blobs[t])) = Len(old_blobs[t])

LiveIds ==
  [t \in Tracker |-> (Ids(old_blobs[t]) \cup Ids(new_blobs[t])) \ {0}]

Promise == INSTANCE BlobIds WITH counter <- id_counter, live <- LiveIds

(* The trackers keep the discipline of BlobIds: ids come from the counter, *)
(* belong to one tracker and are never used again.                         *)
KeepsPromise == Promise!Spec

(* What is passed on is there: a blob that was detected in at least        *)
(* min_age frames, so that noise never reaches the output, and that has    *)
(* been missing only for the frames its age allows, which was at least     *)
(* min_age - 1 when it was seen last.                                      *)
ReportedAreThere ==
  \A t \in Tracker : \A i \in adolescent[t] :
    sight[i].seen >= min_age /\ sight[i].missed <= max_age - min_age + 1

SameObjects ==
  \A t \in Tracker \ Munkres : \A j \in 1..Len(old_blobs[t]) :
    \A k \in 1..Len(old_blobs'[t]) :
      LET o == old_blobs[t][j]
          n == old_blobs'[t][k] IN
      o.id = n.id /\ n.kind \in Objects => o.kind \in Objects /\ o.fid = n.fid

(* The greedy tracker never passes an id from one recognised object to     *)
(* another: fiducial_id changes neither at a match nor through blobs and   *)
(* volatile detections in between.  (The other one looks at positions      *)
(* only.)                                                                  *)
KeepsObject == [][SameObjects]_tracker_vars

(* Munkres: the matrix of DIM_FINGER rows and columns is large enough for  *)
(* the old blobs, lost ones included, when it is for every frame.          *)
FitsMatrix == \A t \in Munkres : Len(old_blobs[t]) <= MaxBlobs

(* The blobs a tracker follows have different ids, what is passed on is    *)
(* there, and the matrix of the assignment is never too small.             *)
BlobsAreFollowed == TrackerTypeOK /\ UniqueIds /\ ReportedAreThere /\ FitsMatrix

(* A blob detected in more than min_age frames in a row is passed on.      *)
(* Stated of scenes without volatile objects, which expire on purpose.     *)
StableAreReported ==
  \A t \in Tracker : next[t] = 0 =>
    \A i \in 1..Len(old_blobs[t]) :
      sight[old_blobs[t][i].id].streak > min_age =>
        old_blobs[t][i].id \in adolescent[t]

(* What the constants have to be for the theorems of Touches_proofs:       *)
(* finders report [x, kind, fid], and ages are counted from 0.             *)
BlobAssumption ==
  /\ Munkres \subseteq Tracker
  /\ MaxBlobs \in Nat /\ MaxId \in Nat /\ min_age \in Nat /\ max_age \in Nat
  /\ \A v \in Views : v.sees \in [Tracker -> SUBSET [x : Int, kind : STRING, fid : Int]]
=============================================================================
