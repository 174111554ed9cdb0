----------------------------- MODULE AgentState -----------------------------
(***************************************************************************)
(* The state that every part of benix-claim-agent shares: the files of     *)
(* the state directory, one variable per file, the TPM's lockout hierarchy *)
(* and the status of the process.  A file is written by                    *)
(* write_private_atomic: here one step with three outcomes.                *)
(***************************************************************************)
CONSTANTS
    Owners,     \* client Ed25519 public keys
    Devices,    \* device_ids the hub hands out on approval
    Secrets,    \* 128-bit claim secrets
    None,       \* Option::None, a missing file
    Faults      \* the kinds of fault the environment may inject

FaultKinds == {"write", "delete", "read", "tpm", "bind", "display", "crash"}

ASSUME NoneAssumption == None \notin Owners \cup Devices \cup Secrets
ASSUME FaultsAssumption == Faults \subseteq FaultKinds

VARIABLES
    marker,      \* <state_dir>/claimed
    secretFile,  \* <state_dir>/claim-secret
    binding,     \* <state_dir>/local-account-binding
    creds,       \* <state_dir>/pair-credentials, as the device_id in it
    lockoutAuth, \* the TPM's lockoutAuth; "none" on a box without a TPM
    proc         \* where the process is between exec and serving requests

diskVars == <<marker, secretFile, binding, creds>>

-----------------------------------------------------------------------------
(* Shapes of the files. "present" is whether the file exists. *)

Markers == [present : BOOLEAN, owner : Owners \cup {None}, hub : Devices \cup {None}]

NoMarker == [present |-> FALSE, owner |-> None, hub |-> None]

(* mark_claimed_local: owner_pubkey recorded, no hub identity. *)
LocalMarker(o) == [present |-> TRUE, owner |-> o, hub |-> None]

(* Mutant: the hub's device_id takes the owner's place. *)
HubMarker_DeviceOwns(d) == [present |-> TRUE, owner |-> d, hub |-> d]

(* mark_claimed: the hub identity recorded, owner_pubkey left None. *)
HubMarker(d) == [present |-> TRUE, owner |-> None, hub |-> d]

Custody == {"lockout_discarded", "no_tpm_present"}

Bindings == [present : BOOLEAN, owner : Owners \cup {None},
             custody : Custody \cup {None}, hub : Devices \cup {None}]

NoBinding == [present |-> FALSE, owner |-> None, custody |-> None, hub |-> None]

NewActiveLocal(o, c) == [present |-> TRUE, owner |-> o, custody |-> c, hub |-> None]

(* Mutant: the join mints a binding of its own. *)
RecordHubJoin_Mints(b, d) == [present |-> TRUE, owner |-> None, custody |-> None, hub |-> d]

RecordHubJoin(b, d) == [b EXCEPT !.hub = d]

(* is_claimed: the marker file exists, whichever path wrote it. *)
IsClaimed == marker.present

-----------------------------------------------------------------------------
(***************************************************************************)
(* write_private_atomic returns Err either before its rename, leaving the  *)
(* file as it was, or after it, when the directory cannot be opened or     *)
(* synced: the new contents are then in place although the caller sees     *)
(* Err.                                                                    *)
(***************************************************************************)
WriteOutcomes == {"ok"} \cup IF "write" \in Faults THEN {"failed", "unsynced"} ELSE {}

Written(old, new, outcome) == IF outcome = "failed" THEN old ELSE new

StoreInit ==
    /\ marker = NoMarker
    /\ secretFile = None
    /\ binding = NoBinding
    /\ creds = None
    /\ lockoutAuth \in {"none", "factory"}

StoreTypeOK ==
    /\ marker \in Markers
    /\ secretFile \in Secrets \cup {None}
    /\ binding \in Bindings
    /\ creds \in Devices \cup {None}
    /\ lockoutAuth \in {"none", "factory", "discarded"}
=============================================================================
