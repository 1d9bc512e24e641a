----------------------------- MODULE MCAssignment -----------------------------
(***************************************************************************)
(* Instances of Assignment for TLC; the cfg files give every constant.     *)
(***************************************************************************)
EXTENDS Assignment

=============================================================================
