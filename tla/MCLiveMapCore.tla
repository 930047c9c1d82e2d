---------------------------- MODULE MCLiveMapCore ----------------------------
EXTENDS LiveMapCore

CONSTANTS k1, k2, v1, v2

Op(kind, key, to, val) == [kind |-> kind, key |-> key, to |-> to, val |-> val]

MCWrites ==
  {<<Op("set", k1, None, v1)>>, <<Op("set", k1, None, v2)>>,
   <<Op("replace", k1, None, v1)>>, <<Op("delete", k1, None, None)>>,
   <<Op("rename", k1, k2, None)>>,
   <<Op("replace", k1, None, v2), Op("rename", k1, k2, None)>>,
   <<Op("replace", k1, None, v2), Op("root", None, None, [k \in Key |-> IF k = k1 THEN v1 ELSE Absent])>>}

MCRoots == {[k \in Key |-> IF k = k1 THEN v1 ELSE Absent], [k \in Key |-> IF k = k2 THEN v2 ELSE Absent]}

MCWatches == <<k1, k2>>

(* What ReplicaEndsAsTheMap assumes of the batches. *)
ASSUME MCRootsShow == RootsShow

(* The schema asks for k1. *)
MCValid == {r \in Root : r[k1] # Absent}
=============================================================================
