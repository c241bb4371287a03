------------------------------- MODULE MC_Capture -------------------------------
(***************************************************************************)
(* Capture with two profiles, which nothing tells apart.                   *)
(***************************************************************************)
EXTENDS Capture, TLC

ProfileSymmetry == Permutations(Profiles)
================================================================================
