----------------------------- MODULE ClaimAgent -----------------------------
(***************************************************************************)
(* The whole agent: one process that boots, serves the local claim and the *)
(* hub join side by side, crashes and is started again by dinit.           *)
(***************************************************************************)
EXTENDS LocalClaim, HubJoin

vars == <<diskVars, lockoutAuth, proc, bootVars, claimVars, joinVars>>

Init == StoreInit /\ BootInit /\ ClaimInit /\ JoinInit

(* Type invariant: every file, register, handler and join has its shape. *)
TypeOK == StoreTypeOK /\ BootTypeOK /\ ClaimTypeOK /\ JoinTypeOK

(***************************************************************************)
(* The process is killed, or a listener task ends and main() exits: what   *)
(* is in memory is lost, the files, the TPM and the console are not.       *)
(***************************************************************************)
Crash ==
    /\ "crash" \in Faults
    /\ proc # "down"
    /\ ProcessEnds
    /\ pending' = {}
    /\ lock' = None
    /\ pc' = [r \in Requests |-> "idle"]
    /\ req' = [r \in Requests |-> NoReq]
    /\ jpc' = [j \in Joins |-> "idle"]
    /\ jdev' = [j \in Joins |-> None]
    /\ jcopy' = [j \in Joins |-> NoBinding]
    /\ UNCHANGED <<diskVars, lockoutAuth, screen, acked, claimedBy>>

Next ==
    \/ Boot /\ UNCHANGED <<claimVars, joinVars>>
    \/ ChallengeExpires /\ UNCHANGED joinVars
    \/ \E r \in Requests : ClaimStep(r) /\ UNCHANGED joinVars
    \/ \E j \in Joins : JoinStep(j) /\ UNCHANGED claimVars
    \/ Crash

Spec == Init /\ [][Next]_vars

(* Request r runs tpm2_changeauth, or is about to, and holds the lock. *)
ToolRuns(r) == pc[r] = "tpm" /\ lockoutAuth # "none"

(***************************************************************************)
(* Fairness.  main() runs on; so does a background join, whose wait for    *)
(* the hub is bounded by its timeout; and so does a handler inside its     *)
(* commit, except where it runs tpm2_changeauth: child.wait() has no       *)
(* timeout, and nothing obliges the tool to end.  The std Mutex lets a     *)
(* waiter be overtaken, but the rate limiter leaves the lock free again    *)
(* and again, hence strong fairness for taking it.  Nothing obliges a      *)
(* client to send its body, or the hub to acknowledge.                     *)
(***************************************************************************)
Fairness ==
    /\ WF_vars(Boot /\ UNCHANGED <<claimVars, joinVars>>)
    /\ \A r \in Requests :
          /\ SF_vars(FinishLocks(r) /\ UNCHANGED joinVars)
          /\ WF_vars(~ToolRuns(r) /\ Commit(r) /\ UNCHANGED joinVars)
    /\ \A j \in Joins : WF_vars(Background(j) /\ UNCHANGED claimVars)

FairSpec == Spec /\ Fairness

-----------------------------------------------------------------------------
(* Safety. *)

(* Every owner the agent has named: to a client, in the marker, in the binding. *)
NamedOwners ==
    acked \cup ({marker.owner, binding.owner} \ {None})

(***************************************************************************)
(* First writer wins.  The owners named by a 200 answer, by the marker and *)
(* by the binding are one and the same, through concurrent finishes, hub   *)
(* joins, failed writes, crashes and restarts; and once there is one, the  *)
(* box is claimed (local_claim_finish, claim_commit_lock).                 *)
(***************************************************************************)
OneOwner ==
    /\ \A a, b \in NamedOwners : a = b
    /\ NamedOwners # {} => IsClaimed

(***************************************************************************)
(* Fail closed on the TPM: a claimed box with a TPM has its lockoutAuth    *)
(* discarded, and a binding records the custody state the box is in        *)
(* (local_claim_finish runs the TPM step before mark_claimed_local).       *)
(***************************************************************************)
TpmResolved ==
    /\ IsClaimed => lockoutAuth # "factory"
    /\ binding.present =>
         binding.custody = IF lockoutAuth = "none" THEN "no_tpm_present"
                                                   ELSE "lockout_discarded"

(***************************************************************************)
(* While an unclaimed box is serving, the secret it checks proofs against  *)
(* is the one a restart would load and, unless this start's write to the   *)
(* tty failed, the code on its console, whatever crashed or failed before  *)
(* (main, load_or_create_secret, display_claim_code, and the order of      *)
(* marker and secret in local_claim_finish).                               *)
(***************************************************************************)
ShownCodeWorks ==
    proc = "up" /\ ~IsClaimed =>
        /\ memSecret # None
        /\ secretFile = memSecret
        /\ displayed => screen = memSecret

(***************************************************************************)
(* The hub is no way to take a box that nobody has claimed locally: no     *)
(* join runs, and no hub credentials exist, on an unclaimed box            *)
(* (onboard_claim's gate; run_wait_for_result marks before it persists).   *)
(***************************************************************************)
HubNeedsLocalClaim ==
    /\ \A j \in Joins : jpc[j] # "idle" => IsClaimed
    /\ creds # None => IsClaimed

(***************************************************************************)
(* Once a local claim has written its binding no step, a hub join above    *)
(* all, changes the owner or the custody in it or removes it               *)
(* (run_wait_for_result's read-modify-write, record_hub_join).             *)
(***************************************************************************)
BindingKeepsOwner ==
    [][binding.present =>
          /\ binding'.present
          /\ binding'.owner = binding.owner
          /\ binding'.custody = binding.custody]_vars

(***************************************************************************)
(* While the box is unclaimed its secret, once it is on disk, is never     *)
(* rotated, and the console never comes to show another code than that     *)
(* one, over any number of restarts and of displays that fail              *)
(* (load_or_create_secret, display_claim_code).                            *)
(***************************************************************************)
CodeNeverRotates ==
    [][~IsClaimed =>
          /\ secretFile # None => secretFile' = secretFile
          /\ screen' # screen => screen' \in {None, secretFile}]_vars

(***************************************************************************)
(* A hub join is recorded in the order marker, credentials, binding, and a *)
(* join cut short by a failed write or a crash leaves a prefix: hub        *)
(* credentials only where the marker names a hub, a hub in the binding     *)
(* only where there are credentials (run_wait_for_result).                 *)
(***************************************************************************)
HubRecordedInOrder ==
    /\ creds # None => marker.hub # None
    /\ binding.hub # None => creds # None

-----------------------------------------------------------------------------
(* Liveness, under Fairness. *)

(* A spawned background join comes to an end (run_wait_for_result). *)
JoinSettles == \A j \in Joins : jpc[j] = "waiting" ~> jpc[j] = "idle"

(* What can make a commit come to nothing on a box nobody has claimed. *)
Setback ==
    \/ Crash
    \/ \E r \in Requests : FinishTpmFails(r)
    \/ \E r \in Requests : FinishMarks(r) /\ pc'[r] = "idle"

(***************************************************************************)
(* A client that gets a finish verified again and again, or waits for the  *)
(* lock for good, claims the box or finds it claimed by whoever was first, *)
(* unless crashes, TPM failures or failing marker writes never stop, or a  *)
(* tool run under the lock never ends (local_claim_finish).                *)
(***************************************************************************)
RetriedFinishClaims ==
    \A r \in Requests :
        []<>(pc[r] = "wait") =>
            \/ <>IsClaimed
            \/ []<><<Setback>>_vars
            \/ <>[](\E q \in Requests : ToolRuns(q))

-----------------------------------------------------------------------------
(***************************************************************************)
(* Refinement.  The abstract owner is the one whose marker took effect     *)
(* first: the marker cannot tell, for a hub join erases its owner_pubkey,  *)
(* so a history variable keeps it.  The 200 answers are what was told.     *)
(***************************************************************************)
Abstract == INSTANCE Ownership WITH owner <- claimedBy, told <- acked

(* The agent, hub joins and all, implements first-writer-wins ownership:   *)
(* one marker write takes effect on an unclaimed box and only its owner is *)
(* ever told that the box is theirs (local_claim_finish).                  *)
ImplementsOwnership == Abstract!Spec

-----------------------------------------------------------------------------
(* What the repository says and the code does not do: see the findings. *)

(***************************************************************************)
(* render.rs shows the code with "This code stays valid until the box is   *)
(* claimed": an unclaimed box that is serving and not committing can still *)
(* be claimed, that is, its TPM does not refuse the lockoutAuth change.    *)
(***************************************************************************)
CodeStaysValid ==
    proc = "up" /\ ~IsClaimed /\ lock = None => lockoutAuth # "discarded"

(***************************************************************************)
(* state.rs: the hub join "must never silently replace the local-only      *)
(* claim's owner_pubkey": an owner that was told 200 is on record in the   *)
(* marker or in the binding.                                               *)
(***************************************************************************)
OwnerOnRecord ==
    \A o \in acked : o = marker.owner \/ o = binding.owner

(***************************************************************************)
(* handlers.rs: onboard_claim is gated on a prior local claim, "so a       *)
(* LocalAccountBinding should already exist": a join that comes to load    *)
(* the binding finds one.                                                  *)
(***************************************************************************)
JoinFindsBinding == \A j \in Joins : jpc[j] = "load" => binding.present
=============================================================================
