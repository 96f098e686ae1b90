--------------------------- MODULE MCHttpClient ---------------------------
(***************************************************************************)
(* A get of three attempts, a post that is not retried, and a get of two,  *)
(* on two slots; a server may ask for more than the longest own delay.     *)
(***************************************************************************)
EXTENDS HttpClient, TLC

CONSTANTS c1, c2, c3

MCCalls == {c1, c2, c3}
MCAttempts == c1 :> 3 @@ c2 :> 1 @@ c3 :> 2
=============================================================================
