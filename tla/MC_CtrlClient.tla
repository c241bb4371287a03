---------------------------- MODULE MC_CtrlClient ----------------------------
(***************************************************************************)
(* Instances of CtrlClient for TLC.  The configurations choose how many    *)
(* threads share the client and where the sequence number wraps.           *)
(***************************************************************************)
EXTENDS CtrlClient, TLC

CONSTANTS c1, c2, PHOTO

MCCallers == {c1, c2}
MCCaller == {c1}
MCCommands == {HELLO, PHOTO}

=============================================================================
