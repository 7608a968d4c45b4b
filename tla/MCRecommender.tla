--------------------------- MODULE MCRecommender ---------------------------
(***************************************************************************)
(* Instances of Recommender for TLC: two events of one topic.              *)
(***************************************************************************)
EXTENDS Recommender, TLC

OneTopic == [e \in Events |-> "t1"]
=============================================================================
