---------------------------- MODULE MC_ImageClient ----------------------------
(***************************************************************************)
(* Instances of ImageClient for TLC.                                       *)
(***************************************************************************)
EXTENDS ImageClient

\* Three photos, the first and the last of which can be spliced.
MCBodies == <<2, 1, 1>>
=============================================================================
