------------------------------ MODULE ByteChannel ------------------------------
(***************************************************************************)
(* What an opened RFCOMM channel promises to its reader: the bytes the     *)
(* device sends since the channel was opened, in order, none twice.  Bytes *)
(* at the end may be missing; opening the channel again begins anew.       *)
(***************************************************************************)
EXTENDS Naturals, Sequences, SequencesExt

VARIABLES sent, got

Init == sent = <<>> /\ got = <<>>

Transmit == \E b \in {Len(sent) + 1} : sent' = Append(sent, b) /\ UNCHANGED got

Receive == got' \in Prefixes(sent) /\ IsStrictPrefix(got, got') /\ UNCHANGED sent

Reopen == sent' = <<>> /\ got' = <<>>

Spec == Init /\ [][Transmit \/ Receive \/ Reopen]_<<sent, got>>
================================================================================
