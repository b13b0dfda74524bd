---------------------------- MODULE MCMultiLLM ----------------------------
(***************************************************************************)
(* Instances of MultiLLM for TLC.                                          *)
(***************************************************************************)
EXTENDS MultiLLM

CONSTANTS gemini, openai, r1, r2

CheapFirst == <<gemini, openai>>
BestFirst == <<openai, gemini>>
=============================================================================
