--------------------------- MODULE ClaimAgentInv ----------------------------
(***************************************************************************)
(* The inductive invariant behind the safety properties of ClaimAgent: the *)
(* facts about handlers and joins in progress that make each step keep     *)
(* them.                                                                   *)
(***************************************************************************)
EXTENDS ClaimAgent

(* A handler is inside its commit exactly while it holds the lock. *)
LockInv == \A r \in Requests : pc[r] \in CriticalSteps <=> lock = r

(* What a handler or a join has reached tells whether the box is claimed. *)
ClaimedInv ==
    /\ \A r \in Requests : pc[r] \in {"tpm", "marker"} => ~IsClaimed
    /\ \A r \in Requests : pc[r] \in CommittedSteps \cup {"respond"} => IsClaimed
    /\ \A j \in Joins : jpc[j] # "idle" => IsClaimed
    /\ IsClaimed <=> claimedBy # None
    /\ creds # None \/ binding.present \/ marker.owner # None \/ acked # {} => IsClaimed

(* The binding is created once; a join's copy differs from it in hub only. *)
BindingInv ==
    /\ binding.owner # None => binding.present
    /\ \A r \in Requests : pc[r] \in {"delete", "binding"} => ~binding.present
    /\ \A j \in Joins : jpc[j] = "bind" =>
          /\ binding.present
          /\ jcopy[j].present
          /\ jcopy[j].owner = binding.owner
          /\ jcopy[j].custody = binding.custody

(* A join on its way from the marker to the binding has written what it passed. *)
HubInv ==
    /\ HubRecordedInOrder
    /\ \A j \in Joins :
          /\ jpc[j] \in RecordingSteps => jdev[j] \in Devices
          /\ jpc[j] = "creds" => marker.hub # None
          /\ jpc[j] \in {"load", "bind"} => creds # None

RightCustody == IF lockoutAuth = "none" THEN "no_tpm_present" ELSE "lockout_discarded"

(* From the TPM step on the custody state is settled and truly recorded. *)
TpmInv ==
    /\ IsClaimed => lockoutAuth # "factory"
    /\ binding.present => binding.custody = RightCustody
    /\ \A r \in Requests : pc[r] \in {"marker", "delete", "binding"} =>
          lockoutAuth # "factory" /\ req[r].custody = RightCustody

(* Every owner that has been named or is about to be. *)
Claimants ==
    NamedOwners \cup
    {req[r].owner : r \in {q \in Requests : pc[q] \in CommittedSteps \cup {"respond"}}}

OwnerInv == Claimants \subseteq {claimedBy}

(* The secret in memory is the one on disk until the box is claimed. *)
CodeInv ==
    /\ alreadyClaimed => IsClaimed
    /\ ~IsClaimed /\ proc \in {"display", "bind", "up"} =>
          memSecret \in Secrets /\ secretFile = memSecret
    /\ ~IsClaimed /\ proc \in {"bind", "up"} /\ displayed => screen = memSecret

(* The conjunction, inductive whatever the faults are. *)
IInv ==
    /\ TypeOK /\ LockInv /\ ClaimedInv /\ BindingInv
    /\ TpmInv /\ OwnerInv /\ CodeInv /\ HubInv

=============================================================================
