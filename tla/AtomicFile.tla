----------------------------- MODULE AtomicFile -----------------------------
(***************************************************************************)
(* What the rest of the agent takes a private state file to be: a value    *)
(* that a write replaces at once or not at all, that is safe from a loss   *)
(* of power once the write has returned Ok, and that a power loss sets     *)
(* back to an earlier whole value at worst.                                *)
(***************************************************************************)
CONSTANTS Values, None

VARIABLES
    value,   \* what a reader finds; None when there is no file
    stable,  \* what a reader would find after a power loss
    phase,   \* "idle", "writing", "replaced" once the new value is in place, "safe" once for good
    new      \* the value being written

Init == value = None /\ stable = None /\ phase = "idle" /\ new = None

Begin(v) ==
    phase = "idle" /\ phase' = "writing" /\ new' = v /\ UNCHANGED <<value, stable>>

Replace ==
    phase = "writing" /\ phase' = "replaced" /\ value' = new /\ UNCHANGED <<stable, new>>

Persist == stable' = value /\ UNCHANGED <<value, phase, new>>

Returns == phase' = "idle" /\ new' = None /\ UNCHANGED <<value, stable>>

(* The write is about to return Ok. *)
Secure ==
    phase = "replaced" /\ phase' = "safe" /\ stable' = new /\ UNCHANGED <<value, new>>

Succeed == phase = "safe" /\ Returns

(* The caller sees an Err, or the process is killed: before or after Replace. *)
Abort == phase \in {"writing", "replaced"} /\ Returns

Remove == phase = "idle" /\ value' = None /\ UNCHANGED <<stable, phase, new>>

PowerLoss == value' = stable /\ phase' = "idle" /\ new' = None /\ UNCHANGED stable

Next ==
    \/ \E v \in Values : Begin(v)
    \/ Replace \/ Persist \/ Secure \/ Succeed \/ Abort \/ Remove \/ PowerLoss

Spec == Init /\ [][Next]_<<value, stable, phase, new>>
=============================================================================
