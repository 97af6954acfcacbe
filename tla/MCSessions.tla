---------------------------- MODULE MCSessions -----------------------------
(***************************************************************************)
(* A small instance of Sessions: an administrator at two browsers, room    *)
(* for two sessions and one login at a time.                               *)
(***************************************************************************)
EXTENDS Sessions, TLC

CONSTANTS desk, phone, ann

Sitting == [b \in Browsers |-> ann]

Symmetric == Permutations(Browsers)
=============================================================================
