------------------------------ MODULE TpmCall -------------------------------
(***************************************************************************)
(* What the TPM backend promises its caller, whatever happens to nodes,    *)
(* pipes and processes on the way: "absent" only of a box without a TPM,   *)
(* "discarded" only while the TPM holds all of the value drawn for this    *)
(* call.  Any other answer says nothing about the TPM.                     *)
(***************************************************************************)
CONSTANTS Values, Factory, None

VARIABLES
    lockout, \* the TPM's lockoutAuth; None on a box without a TPM
    value,   \* the value drawn for the call, or None
    answer   \* the call's answer, "pending" until then

Init == lockout \in {None, Factory} /\ value = None /\ answer = "none"

Ask == answer' = "pending" /\ value' = None /\ UNCHANGED lockout

Draw == answer = "pending" /\ value = None /\ value' \in Values /\ UNCHANGED <<lockout, answer>>

(* The TPM takes a value: this call's, or that of one whose caller died. *)
Change == lockout = Factory /\ lockout' \in Values /\ UNCHANGED <<value, answer>>

Answer ==
    /\ answer = "pending"
    /\ \/ answer' = "absent" /\ lockout = None
       \/ answer' = "discarded" /\ lockout = value /\ value # None
       \/ answer' \in {"unavailable", "failed"}
    /\ UNCHANGED <<lockout, value>>

(* The caller dies. *)
Lose == answer' = "none" /\ value' = None /\ UNCHANGED lockout

Next == Ask \/ Draw \/ Change \/ Answer \/ Lose

Spec == Init /\ [][Next]_<<lockout, value, answer>>
=============================================================================
