-------------------------------- MODULE MCWeb --------------------------------
(***************************************************************************)
(* Web for TLC: four saved events in pages of two, so that a removal      *)
(* moves the boundary of a page.                                           *)
(***************************************************************************)
EXTENDS Web, TLC

Interchangeable == Permutations(UserEvents)
=============================================================================
