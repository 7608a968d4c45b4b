-------------------------------- MODULE MCBot --------------------------------
(***************************************************************************)
(* Bot for TLC.  Pages of one event make every list longer than a page.    *)
(***************************************************************************)
EXTENDS Bot, TLC

Interchangeable == Permutations(Slots) \cup Permutations(Events)
=============================================================================
