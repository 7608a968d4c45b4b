----------------------------- MODULE MCLlmChain -----------------------------
(***************************************************************************)
(* An instance of LlmChain for TLC: two providers and two callers, whose   *)
(* symmetry the liveness property forbids to use.                          *)
(***************************************************************************)
EXTENDS LlmChain, TLC
=============================================================================
