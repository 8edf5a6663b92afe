------------------------------ MODULE BlobIds ------------------------------
(***************************************************************************)
(* What the blob trackers promise about blob_id ("uniq id that represent   *)
(* the blob during his whole life", docs/container.txt): all trackers draw *)
(* from one counter, an id belongs to one tracker, and an id that was      *)
(* given up never comes back.                                              *)
(***************************************************************************)
EXTENDS Naturals

CONSTANT Tracker

VARIABLES
  counter,  \* moAbstractBlobTrackerModule::id_counter
  live      \* live[t]: the ids of the blobs tracker t follows

ids == <<counter, live>>

Init == counter = 0 /\ live = [t \in Tracker |-> {}]

Allocate(t) ==
  /\ counter' = counter + 1
  /\ live' = [live EXCEPT ![t] = @ \cup {counter + 1}]

Retire(t) ==
  /\ \E kept \in SUBSET live[t] : live' = [live EXCEPT ![t] = kept]
  /\ UNCHANGED counter

Next == \E t \in Tracker : Allocate(t) \/ Retire(t)

Spec == Init /\ [][Next]_ids
-----------------------------------------------------------------------------
TypeOK == counter \in Nat /\ live \in [Tracker -> SUBSET (1..counter)]

(* No two trackers follow blobs with the same id.                          *)
OwnIds == \A t, u \in Tracker : t # u => live[t] \cap live[u] = {}

(* An id that no tracker follows any more is never given to a blob again.  *)
NoReuse ==
  [][\A i \in 1..counter : (\A t \in Tracker : i \notin live[t])
        => \A t \in Tracker : i \notin live'[t]]_ids
=============================================================================
