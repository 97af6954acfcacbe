------------------------------ MODULE MCStore -------------------------------
(* Two plain commands, and a confirmation that is delivered twice.         *)
EXTENDS Store, TLC

CONSTANTS p, x, y, once, twice

Confirms == x :> NoPreview @@ y :> NoPreview @@ once :> p @@ twice :> p

Symmetric == Permutations({x, y}) \cup Permutations({once, twice})
=============================================================================
