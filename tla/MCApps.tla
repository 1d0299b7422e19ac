------------------------------- MODULE MCApps -------------------------------
(***************************************************************************)
(* Apps on a small instance: a web release with container ports, one on    *)
(* another port without, and a release that listens on none.               *)
(***************************************************************************)
EXTENDS Apps, TLC

CONSTANTS web, webtoo, worker, p1, p2

MCPortOf == [r \in Release |-> CASE r = web -> p1 [] r = webtoo -> p2 [] OTHER -> NoPort]
Handlers == Permutations(Handler)
=============================================================================
