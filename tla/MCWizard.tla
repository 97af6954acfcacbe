------------------------------ MODULE MCWizard ------------------------------
(***************************************************************************)
(* A small instance of Wizard: two workers, both kinds of cards.           *)
(***************************************************************************)
EXTENDS Wizard

CONSTANTS w1, w2
=============================================================================
