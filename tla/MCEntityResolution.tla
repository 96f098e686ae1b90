------------------------ MODULE MCEntityResolution ------------------------
(***************************************************************************)
(* Four names: "acme", a spelling "acmee" close to it, a spelling "acmeee" *)
(* close only to "acmee", and a key too short to resolve on.               *)
(***************************************************************************)
EXTENDS EntityResolution, TLC

CONSTANTS acme, acmee, acmeee, x

MCNames == {acme, acmee, acmeee, x}
MCUnusable == {x}

Near == {{acme, acmee}, {acmee, acmeee}}
MCScore == [n \in MCNames |-> [m \in MCNames |->
              IF n = m THEN 100 ELSE IF {n, m} \in Near THEN 95 ELSE 60]]

RunSymmetry == Permutations(Runs)
=============================================================================
