--------------------------- MODULE MCAgentSession ---------------------------
(***************************************************************************)
(* AgentSession for TLC.  A full turn (1 + 2 * (1 + 1) messages) is longer *)
(* than the history, as in the program (1 + 5 * (1 + 4) and 24).           *)
(***************************************************************************)
EXTENDS AgentSession, TLC

Interchangeable == Permutations(Requests)
=============================================================================
