-------------------------- MODULE MCLLMOrchestrator --------------------------
(***************************************************************************)
(* Every payload of up to five characters, newlines among them, for two    *)
(* providers behind one that has no adapter; the last may lack its key.    *)
(***************************************************************************)
EXTENDS LLMOrchestrator

CONSTANTS local, groq, deepseek

MCOrder == <<local, groq, deepseek>>
MCPayloads == UNION {[1 .. n -> Characters] : n \in 0 .. 5}
=============================================================================
