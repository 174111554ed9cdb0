------------------------------ MODULE Ownership -----------------------------
(***************************************************************************)
(* What the local-only claim protocol promises about ownership, whatever   *)
(* it does with files, locks and hardware: the box takes its first owner   *)
(* and keeps it, and nobody else is ever told that the box is theirs.      *)
(***************************************************************************)
CONSTANTS Owners, None

VARIABLES
    owner,  \* the owner on record, or None
    told    \* the owners that were told "claimed"

Init == owner = None /\ told = {}

Claim(o) == owner = None /\ owner' = o /\ UNCHANGED told

Tell(o) == owner = o /\ told' = told \cup {o} /\ UNCHANGED owner

Next == \E o \in Owners : Claim(o) \/ Tell(o)

Spec == Init /\ [][Next]_<<owner, told>>
=============================================================================
