---------------------------- MODULE MCLandingLane ----------------------------
(***************************************************************************)
(* Small repositories for TLC.  The constants are given in the cfg files.  *)
(***************************************************************************)
EXTENDS LandingLane
=============================================================================
