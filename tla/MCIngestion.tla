---------------------------- MODULE MCIngestion ----------------------------
(***************************************************************************)
(* Instances of Ingestion for TLC.  Drafts 1 and 2 come from source "a",   *)
(* the others from source "b".                                             *)
(***************************************************************************)
EXTENDS Ingestion, TLC

TwoSources == 1 :> "a" @@ 2 :> "a" @@ 3 :> "b" @@ 4 :> "b"

(* Each draft something of its own.                                        *)
Distinct == 1 :> "v1" @@ 2 :> "v2" @@ 3 :> "v3" @@ 4 :> "v4"

(* Draft 3 is draft 1 again, listed by the other source.                   *)
ThirdIsFirst == 1 :> "v1" @@ 2 :> "v2" @@ 3 :> "v1" @@ 4 :> "v4"

(* Drafts 2 and 3 share a value.  With ThirdIsFirst for the URLs, a batch   *)
(* of 1 and 2 and a batch of 3 can wait for each other.                    *)
LastTwoShare == 1 :> "v1" @@ 2 :> "v2" @@ 3 :> "v2" @@ 4 :> "v4"

(* All of them the same.                                                   *)
OneForAll == [d \in 1..4 |-> "v1"]

(* The further apart in the list, the less alike two drafts.               *)
Apart == [d \in Drafts |-> [e \in Drafts |-> IF d < e THEN e - d ELSE d - e]]

(* Nothing is alike; or neighbours are in the grey zone, the next but one  *)
(* is the same for the rule, and the others are near but set apart.        *)
NeverAlike == [d \in Drafts |-> [e \in Drafts |-> "far"]]
GreyNeighbours == [d \in Drafts |-> [e \in Drafts |->
                     CASE Apart[d][e] <= 1 -> "uncertain"
                       [] Apart[d][e] = 2 -> "duplicate"
                       [] OTHER -> "distinct"]]

TwoLoads == [k \in Occasions |-> IF k = "load" THEN 2 ELSE 0]
Failing == [TwoLoads EXCEPT !["llm"] = 1]
Crashing == [TwoLoads EXCEPT !["crash"] = 1, !["arbiter"] = 1]
Stormy == [TwoLoads EXCEPT !["llm"] = 3, !["manual"] = 1, !["embed"] = 1,
                           !["arbiter"] = 1, !["timeout"] = 1,
                           !["lost_enqueue"] = 1, !["broken_load"] = 1]

(* Runs of the same kind are interchangeable (safety runs only).           *)
Interchangeable == Permutations(Normalizers) \cup Permutations(Loaders)
=============================================================================
