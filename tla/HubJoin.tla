------------------------------- MODULE HubJoin ------------------------------
(***************************************************************************)
(* POST /v1/onboard/claim: the deferred join to a hub.  The handler is     *)
(* gated on a prior local claim, asks the hub to pair and answers 202; a   *)
(* background task then waits for the hub's verdict and records it.  No    *)
(* lock is held, neither against other joins nor against a finish handler  *)
(* that is still committing.                                               *)
(***************************************************************************)
EXTENDS Startup

CONSTANT Joins   \* slots for joins in progress: handler, then background task

VARIABLES
    jpc,    \* where each join stands
    jdev,   \* creds.device_id of an approved join
    jcopy   \* the binding a join has loaded and not written back yet

joinVars == <<jpc, jdev, jcopy>>

(* The background task's steps once the hub has approved. *)
RecordingSteps == {"mark", "creds", "load", "bind"}

JoinSteps == {"idle", "pairing", "waiting"} \cup RecordingSteps

JoinInit ==
    /\ jpc = [j \in Joins |-> "idle"]
    /\ jdev = [j \in Joins |-> None]
    /\ jcopy = [j \in Joins |-> NoBinding]

JoinTypeOK ==
    /\ jpc \in [Joins -> JoinSteps]
    /\ jdev \in [Joins -> Devices \cup {None}]
    /\ jcopy \in [Joins -> Bindings]

(* The handler answers, or the background task returns. *)
JoinEnds(j) ==
    /\ jpc' = [jpc EXCEPT ![j] = "idle"]
    /\ jdev' = [jdev EXCEPT ![j] = None]
    /\ jcopy' = [jcopy EXCEPT ![j] = NoBinding]

JoinGoesTo(j, step) == jpc' = [jpc EXCEPT ![j] = step]

-----------------------------------------------------------------------------
(* Mutant: the gate on a prior local claim is gone. *)
JoinArrives_Ungated(j) ==
    /\ proc = "up"
    /\ jpc[j] = "idle"
    /\ JoinGoesTo(j, "pairing")
    /\ UNCHANGED <<diskVars, lockoutAuth, proc, bootVars, jdev, jcopy>>

(* Steps 1 to 3 of onboard_claim: an unclaimed box answers 403. *)
JoinArrives(j) ==
    /\ proc = "up"
    /\ jpc[j] = "idle"
    /\ IsClaimed
    /\ JoinGoesTo(j, "pairing")
    /\ UNCHANGED <<diskVars, lockoutAuth, proc, bootVars, jdev, jcopy>>

(* pair_claim fails (502), or the client disconnects while it is awaited. *)
JoinUnreachable(j) ==
    /\ jpc[j] = "pairing"
    /\ JoinEnds(j)
    /\ UNCHANGED <<diskVars, lockoutAuth, proc, bootVars>>

(* The hub acknowledges: the background task is spawned, 202 is answered. *)
JoinInitiated(j) ==
    /\ jpc[j] = "pairing"
    /\ JoinGoesTo(j, "waiting")
    /\ UNCHANGED <<diskVars, lockoutAuth, proc, bootVars, jdev, jcopy>>

(* wait_for_result: rejected, timed out or failed; nothing is recorded. *)
JoinDeclined(j) ==
    /\ jpc[j] = "waiting"
    /\ JoinEnds(j)
    /\ UNCHANGED <<diskVars, lockoutAuth, proc, bootVars>>

JoinApproved(j) ==
    /\ jpc[j] = "waiting"
    /\ \E d \in Devices : jdev' = [jdev EXCEPT ![j] = d]
    /\ JoinGoesTo(j, "mark")
    /\ UNCHANGED <<diskVars, lockoutAuth, proc, bootVars, jcopy>>

(* Mutant: an Err of mark_claimed is logged and the join goes on. *)
JoinMarks_GoesOn(j) ==
    /\ jpc[j] = "mark"
    /\ \E outcome \in WriteOutcomes :
          marker' = Written(marker, HubMarker(jdev[j]), outcome)
    /\ JoinGoesTo(j, "creds")
    /\ UNCHANGED <<secretFile, binding, creds, lockoutAuth, proc, bootVars, jdev, jcopy>>

(* mark_claimed writes a marker without owner_pubkey; on Err the task ends. *)
JoinMarks(j) ==
    /\ jpc[j] = "mark"
    /\ \E outcome \in WriteOutcomes :
          /\ marker' = Written(marker, HubMarker(jdev[j]), outcome)
          /\ IF outcome = "ok"
             THEN JoinGoesTo(j, "creds") /\ UNCHANGED <<jdev, jcopy>>
             ELSE JoinEnds(j)
    /\ UNCHANGED <<secretFile, binding, creds, lockoutAuth, proc, bootVars>>

(* persist_pair_credentials; on Err the task ends. *)
JoinPersistsCreds(j) ==
    /\ jpc[j] = "creds"
    /\ \E outcome \in WriteOutcomes :
          /\ creds' = Written(creds, jdev[j], outcome)
          /\ IF outcome = "ok"
             THEN JoinGoesTo(j, "load") /\ UNCHANGED <<jdev, jcopy>>
             ELSE JoinEnds(j)
    /\ UNCHANGED <<marker, secretFile, binding, lockoutAuth, proc, bootVars>>

(* load_local_account_binding finds a binding; the join goes onto the copy. *)
JoinLoadsBinding(j) ==
    /\ jpc[j] = "load"
    /\ binding.present
    /\ jcopy' = [jcopy EXCEPT ![j] = RecordHubJoin(binding, jdev[j])]
    /\ JoinGoesTo(j, "bind")
    /\ UNCHANGED <<diskVars, lockoutAuth, proc, bootVars, jdev>>

(* Mutant: a missing binding is waited for. *)
JoinWithoutBinding_Waits(j) ==
    /\ jpc[j] = "load"
    /\ binding.present /\ "read" \in Faults
    /\ JoinEnds(j)
    /\ UNCHANGED <<diskVars, lockoutAuth, proc, bootVars>>

(* There is none, and none is minted; or reading it fails. *)
JoinWithoutBinding(j) ==
    /\ jpc[j] = "load"
    /\ ~binding.present \/ "read" \in Faults
    /\ JoinEnds(j)
    /\ UNCHANGED <<diskVars, lockoutAuth, proc, bootVars>>

(* The copy is written back; an Err is only logged. *)
JoinBinds(j) ==
    /\ jpc[j] = "bind"
    /\ \E outcome \in WriteOutcomes : binding' = Written(binding, jcopy[j], outcome)
    /\ JoinEnds(j)
    /\ UNCHANGED <<marker, secretFile, creds, lockoutAuth, proc, bootVars>>

-----------------------------------------------------------------------------
(* run_wait_for_result; the timeout bounds its wait for the hub. *)
Background(j) ==
    \/ JoinDeclined(j) \/ JoinApproved(j)
    \/ JoinMarks(j) \/ JoinPersistsCreds(j)
    \/ JoinLoadsBinding(j) \/ JoinWithoutBinding(j) \/ JoinBinds(j)

JoinStep(j) ==
    JoinArrives(j) \/ JoinUnreachable(j) \/ JoinInitiated(j) \/ Background(j)
=============================================================================
