---------------------------- MODULE MCAllocation ----------------------------
(***************************************************************************)
(* Listings of a few records on pages of two.  Records are numbers, the    *)
(* tens digit naming the source that lists them; 31 and 41 are one model,  *)
(* listed by OpenRouter and by Hugging Face, and 33 is a variant of 31.    *)
(***************************************************************************)
EXTENDS Allocation, TLC

CONSTANT bad

MCUrls == (0 .. 9) \cup (11 .. 19) \cup (21 .. 29) \cup (31 .. 39) \cup (41 .. 49) \cup (51 .. 59)
MCKey == [u \in MCUrls |-> IF u \in {33, 41} THEN 31 ELSE u]

Catalogue(a, o, y, h, r, m) ==
  [s \in Sources |-> CASE s = "arxiv" -> a [] s = "openalex" -> o [] s = "yc" -> y
                       [] s = "hf_spaces" -> h [] s = "openrouter" -> r [] s = "hf_models" -> m]

MCPapers  == {Catalogue(a, <<21, 12, 22, 23, 24>>, <<>>, <<>>, <<>>, <<>>) : a \in {<<>>, <<11, 12, 13, 14>>}}
Companies == {Catalogue(<<>>, <<>>, y, <<>>, <<>>, <<>>) : y \in {<<1, 2, 3, 4, 5, 6, 7>>, <<1, 2, 3, 3, 5, bad, 6>>}}
Products  == {Catalogue(<<>>, <<>>, <<>>, h, r, m) : h \in {<<>>, <<51, 52, 51, 53>>},
                                                     r \in {<<31, 32, 33, 34, 35>>, <<32, 32, bad, 31>>},
                                                     m \in {<<41, 42>>, <<42, 43, 41, 44>>}}

MCCatalogues == MCPapers \cup Companies \cup Products

\* One source with as much as the target, the others dry.
OneSource == {Catalogue(<<>>, <<>>, <<>>, <<51, 52, 53, 54, 55, 56, 57, 58>>, <<>>, <<>>)}

MCParts == {[start |-> 0, len |-> 5], [start |-> 5, len |-> 2]}

MCFresh == [s \in Sources |->
  CASE s = "arxiv"      -> 19
    [] s = "openalex"   -> 29
    [] s = "yc"         -> 9
    [] s = "hf_spaces"  -> 59
    [] s = "openrouter" -> 39
    [] s = "hf_models"  -> 49]

=============================================================================
