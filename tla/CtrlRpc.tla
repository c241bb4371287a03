------------------------------- MODULE CtrlRpc -------------------------------
(***************************************************************************)
(* What GlassesClient.request() promises its callers, without sequence     *)
(* numbers, tables or threads.  A call is made once; the device answers it *)
(* at most once, with a status of its own choosing, possibly after the     *)
(* host has given up on it; a call reports to its caller the answer the    *)
(* device gave to that very call, or reports that it failed, and what it   *)
(* reported never changes.  A failure says nothing of what the device did. *)
(***************************************************************************)
EXTENDS Naturals

CONSTANTS
    Calls,     \* the calls of one behaviour, numbered in the order made
    Statuses   \* what an answer can say

VARIABLES
    phase,   \* call -> unused, open, answered or failed, as its caller sees it
    report,  \* call -> the status its caller was told, "none" before that
    done     \* call -> the status the device answered with, "none" before

vars == <<phase, report, done>>

Phases == {"unused", "open", "answered", "failed"}

Init ==
    /\ phase = [k \in Calls |-> "unused"]
    /\ report = [k \in Calls |-> "none"]
    /\ done = [k \in Calls |-> "none"]

Invoke(k) ==
    /\ phase[k] = "unused"
    /\ \A j \in Calls : j < k => phase[j] # "unused"
    /\ phase' = [phase EXCEPT ![k] = "open"]
    /\ UNCHANGED <<report, done>>

\* The device acts on a call, which its caller may have given up already.
Execute(k, status) ==
    /\ phase[k] # "unused"
    /\ done[k] = "none"
    /\ done' = [done EXCEPT ![k] = status]
    /\ UNCHANGED <<phase, report>>

Answer(k) ==
    /\ phase[k] = "open"
    /\ done[k] # "none"
    /\ phase' = [phase EXCEPT ![k] = "answered"]
    /\ report' = [report EXCEPT ![k] = done[k]]
    /\ UNCHANGED done

Fail(k) ==
    /\ phase[k] = "open"
    /\ phase' = [phase EXCEPT ![k] = "failed"]
    /\ UNCHANGED <<report, done>>

Next ==
    \E k \in Calls :
        \/ Invoke(k) \/ Answer(k) \/ Fail(k)
        \/ \E status \in Statuses : Execute(k, status)

Spec == Init /\ [][Next]_vars
=============================================================================
