---------------------------- MODULE MCProjection ----------------------------
(***************************************************************************)
(* Small instances of Projection, with one person or two.                  *)
(***************************************************************************)
EXTENDS Projection

CONSTANTS ann, bob

Both == {ann, bob}
=============================================================================
