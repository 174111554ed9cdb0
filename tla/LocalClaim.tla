----------------------------- MODULE LocalClaim -----------------------------
(***************************************************************************)
(* The local-only claim protocol: POST /v1/onboard/local-claim/challenge   *)
(* and /finish.  A request is a slot that runs one handler at a time; pc   *)
(* is where its handler stands.  Handlers run on several threads, so their *)
(* steps interleave, and only the finish handler's commit is serialised,   *)
(* by claim_commit_lock.  The cryptography is symbolic: a client_proof     *)
(* verifies when it was made with the secret in memory, a client_sig when  *)
(* the claimed public key made it.                                         *)
(***************************************************************************)
EXTENDS Startup, FiniteSets, Naturals

CONSTANTS
    Requests,   \* slots for requests in progress
    Challenges, \* challenge ids (and the server_nonce each one stands for)
    MaxPending  \* MAX_PENDING_CHALLENGES

ASSUME ClaimAssumption ==
    /\ None \notin Requests \cup Challenges
    /\ MaxPending \in Nat \ {0}

VARIABLES
    pending,  \* the unexpired challenges of PendingChallengeStore
    lock,     \* claim_commit_lock: the request holding it, or None
    pc,       \* where each request's handler stands
    req,      \* what the finish handler carries past its verification
    acked,    \* the owners whose client was answered 200 "claimed"
    claimedBy \* history: the owner whose marker took effect first, or None

claimVars == <<pending, lock, pc, req, acked, claimedBy>>

(* The finish handler's steps from taking claim_commit_lock to dropping it. *)
CriticalSteps == {"recheck", "tpm", "marker", "delete", "binding", "invalidate"}

(* Of these, the steps that follow a successful mark_claimed_local. *)
CommittedSteps == {"delete", "binding", "invalidate"}

Steps == {"idle", "challenge", "body", "wait", "respond"} \cup CriticalSteps

NoReq == [chal |-> None, owner |-> None, custody |-> None]

Reqs == [chal : Challenges \cup {None}, owner : Owners \cup {None},
         custody : Custody \cup {None}]

ClaimInit ==
    /\ pending = {}
    /\ lock = None
    /\ pc = [r \in Requests |-> "idle"]
    /\ req = [r \in Requests |-> NoReq]
    /\ acked = {}
    /\ claimedBy = None

ClaimTypeOK ==
    /\ pending \subseteq Challenges
    /\ lock \in Requests \cup {None}
    /\ pc \in [Requests -> Steps]
    /\ req \in [Requests -> Reqs]
    /\ acked \subseteq Owners
    /\ claimedBy \in Owners \cup {None}
    /\ \A r \in Requests :
          pc[r] \in {"wait", "respond"} \cup CriticalSteps => req[r].owner \in Owners

(* The handler answers: the slot is free again. *)
Answered(r) ==
    /\ pc' = [pc EXCEPT ![r] = "idle"]
    /\ req' = [req EXCEPT ![r] = NoReq]

(* An early return inside the critical section drops the guard first. *)
ReleasedAndAnswered(r) ==
    /\ lock' = None
    /\ Answered(r)

GoesTo(r, step) == pc' = [pc EXCEPT ![r] = step]

-----------------------------------------------------------------------------
(* Challenges. *)

(***************************************************************************)
(* PendingChallengeStore::insert.  At capacity it evicts the entry with    *)
(* the least expires_at; two handlers read the clock before they take the  *)
(* store's lock, so the order of insertion does not say which that is, and *)
(* the choice is left open here.                                           *)
(***************************************************************************)
Inserted(c) ==
    IF Cardinality(pending) < MaxPending
    THEN {pending \cup {c}}
    ELSE {(pending \ {old}) \cup {c} : old \in pending}

(* local_claim_challenge: the claimed check comes before the body is read. *)
ChallengeArrives(r) ==
    /\ proc = "up"
    /\ pc[r] = "idle"
    /\ ~IsClaimed
    /\ GoesTo(r, "challenge")
    /\ UNCHANGED <<diskVars, lockoutAuth, proc, bootVars, pending, lock, req,
                   acked, claimedBy>>

(* The body is malformed, or the client disconnects while it is awaited. *)
ChallengeRefused(r) ==
    /\ pc[r] = "challenge"
    /\ Answered(r)
    /\ UNCHANGED <<diskVars, lockoutAuth, proc, bootVars, pending, lock, acked, claimedBy>>

(* A challenge id is a fresh UUID: not one in the store or in a handler. *)
ChallengeIssued(r) ==
    /\ pc[r] = "challenge"
    /\ \E c \in Challenges \ (pending \cup {req[q].chal : q \in Requests}) :
          pending' \in Inserted(c)
    /\ Answered(r)
    /\ UNCHANGED <<diskVars, lockoutAuth, proc, bootVars, lock, acked, claimedBy>>

(* A challenge's TTL runs out: peek no longer finds it. *)
ChallengeExpires ==
    /\ \E c \in pending : pending' = pending \ {c}
    /\ UNCHANGED <<diskVars, lockoutAuth, proc, bootVars, lock, pc, req, acked, claimedBy>>

-----------------------------------------------------------------------------
(* local_claim_finish, up to its verdict on the proof. *)

(* The unlocked pre-check: a claimed box answers 409 and nothing changes. *)
FinishArrives(r) ==
    /\ proc = "up"
    /\ pc[r] = "idle"
    /\ ~IsClaimed
    /\ GoesTo(r, "body")
    /\ UNCHANGED <<diskVars, lockoutAuth, proc, bootVars, pending, lock, req,
                   acked, claimedBy>>

(* 400, 410 or 401, or the client goes away: no challenge is consumed. *)
FinishRefused(r) ==
    /\ pc[r] = "body"
    /\ Answered(r)
    /\ UNCHANGED <<diskVars, lockoutAuth, proc, bootVars, pending, lock, acked, claimedBy>>

(***************************************************************************)
(* The challenge is peeked and not consumed; the client_proof must be made *)
(* with the secret in memory and the client_sig by the claimed public key. *)
(***************************************************************************)
FinishVerified(r) ==
    /\ pc[r] = "body"
    /\ \E c \in pending, o \in Owners, proofSecret \in Secrets, signer \in Owners :
          /\ proofSecret = memSecret
          /\ signer = o
          /\ req' = [req EXCEPT ![r] = [chal |-> c, owner |-> o, custody |-> None]]
    /\ GoesTo(r, "wait")
    /\ UNCHANGED <<diskVars, lockoutAuth, proc, bootVars, pending, lock, acked, claimedBy>>

-----------------------------------------------------------------------------
(* local_claim_finish, the commit. *)

FinishLocks(r) ==
    /\ pc[r] = "wait"
    /\ lock = None
    /\ lock' = r
    /\ GoesTo(r, "recheck")
    /\ UNCHANGED <<diskVars, lockoutAuth, proc, bootVars, pending, req, acked, claimedBy>>

(* Mutant: the pre-check is trusted and nothing is checked under the lock. *)
FinishRechecks_Trusting(r) ==
    /\ pc[r] = "recheck"
    /\ GoesTo(r, "tpm")
    /\ UNCHANGED <<diskVars, lockoutAuth, proc, bootVars, pending, lock, req,
                   acked, claimedBy>>

(* Mutant: a finish leaves the claim to another one that waits for the lock. *)
FinishRechecks_Yields(r) ==
    /\ pc[r] = "recheck"
    /\ IF IsClaimed \/ (\E q \in Requests \ {r} : pc[q] = "wait")
       THEN ReleasedAndAnswered(r)
       ELSE GoesTo(r, "tpm") /\ UNCHANGED <<lock, req>>
    /\ UNCHANGED <<diskVars, lockoutAuth, proc, bootVars, pending, acked, claimedBy>>

(* The authoritative claimed check: a box claimed meanwhile answers 409. *)
FinishRechecks(r) ==
    /\ pc[r] = "recheck"
    /\ IF IsClaimed
       THEN ReleasedAndAnswered(r)
       ELSE GoesTo(r, "tpm") /\ UNCHANGED <<lock, req>>
    /\ UNCHANGED <<diskVars, lockoutAuth, proc, bootVars, pending, acked, claimedBy>>

(* Mutant: a TPM that is present but unavailable counts as absent. *)
FinishNoTpm_Downgrades(r) ==
    /\ pc[r] = "tpm"
    /\ lockoutAuth = "none" \/ "tpm" \in Faults
    /\ req' = [req EXCEPT ![r].custody = "no_tpm_present"]
    /\ GoesTo(r, "marker")
    /\ UNCHANGED <<diskVars, lockoutAuth, proc, bootVars, pending, lock, acked, claimedBy>>

(* TpmPresence::Absent: no node and no hardware signal. *)
FinishNoTpm(r) ==
    /\ pc[r] = "tpm"
    /\ lockoutAuth = "none"
    /\ req' = [req EXCEPT ![r].custody = "no_tpm_present"]
    /\ GoesTo(r, "marker")
    /\ UNCHANGED <<diskVars, lockoutAuth, proc, bootVars, pending, lock, acked, claimedBy>>

(***************************************************************************)
(* discard_lockout_auth sets lockoutAuth to random bytes nobody keeps.     *)
(* tpm2_changeauth is given no current auth, so the TPM accepts the change *)
(* only while lockoutAuth is the empty one of the factory.                 *)
(***************************************************************************)
FinishDiscardsLockout(r) ==
    /\ pc[r] = "tpm"
    /\ lockoutAuth = "factory"
    /\ lockoutAuth' = "discarded"
    /\ req' = [req EXCEPT ![r].custody = "lockout_discarded"]
    /\ GoesTo(r, "marker")
    /\ UNCHANGED <<diskVars, proc, bootVars, pending, lock, acked, claimedBy>>

(***************************************************************************)
(* The TPM step fails and the claim is aborted with 500: the TPM refuses   *)
(* the change, it is PresentButUnavailable, or the tool fails, be it       *)
(* before or after the TPM changed its lockoutAuth.                        *)
(***************************************************************************)
FinishTpmFails(r) ==
    /\ pc[r] = "tpm"
    /\ \/ lockoutAuth = "discarded" /\ UNCHANGED lockoutAuth
       \/ "tpm" \in Faults /\ UNCHANGED lockoutAuth
       \/ "tpm" \in Faults /\ lockoutAuth = "factory" /\ lockoutAuth' = "discarded"
    /\ ReleasedAndAnswered(r)
    /\ UNCHANGED <<diskVars, proc, bootVars, pending, acked, claimedBy>>

(* mark_claimed_local; on Err the answer is 500, "unsynced" included. *)
FinishMarks(r) ==
    /\ pc[r] = "marker"
    /\ \E outcome \in WriteOutcomes :
          /\ marker' = Written(marker, LocalMarker(req[r].owner), outcome)
          /\ claimedBy' = Written(claimedBy, req[r].owner, outcome)
          /\ IF outcome = "ok"
             THEN GoesTo(r, "delete") /\ UNCHANGED <<lock, req>>
             ELSE ReleasedAndAnswered(r)
    /\ UNCHANGED <<secretFile, binding, creds, lockoutAuth, proc, bootVars, pending, acked>>

(* delete_claim_secret: an Err is logged and the claim goes on. *)
FinishDeletesSecret(r) ==
    /\ pc[r] = "delete"
    /\ \/ secretFile' = None
       \/ "delete" \in Faults /\ UNCHANGED secretFile
    /\ GoesTo(r, "binding")
    /\ UNCHANGED <<marker, binding, creds, lockoutAuth, proc, bootVars, pending, lock,
                   req, acked, claimedBy>>

(* persist_local_account_binding: best effort, an Err is only logged. *)
FinishBinds(r) ==
    /\ pc[r] = "binding"
    /\ \E outcome \in WriteOutcomes :
          binding' = Written(binding, NewActiveLocal(req[r].owner, req[r].custody), outcome)
    /\ GoesTo(r, "invalidate")
    /\ UNCHANGED <<marker, secretFile, creds, lockoutAuth, proc, bootVars, pending, lock,
                   req, acked, claimedBy>>

(* Only the challenge this claim was proven against is consumed. *)
FinishUnlocks(r) ==
    /\ pc[r] = "invalidate"
    /\ pending' = pending \ {req[r].chal}
    /\ lock' = None
    /\ GoesTo(r, "respond")
    /\ UNCHANGED <<diskVars, lockoutAuth, proc, bootVars, req, acked, claimedBy>>

(* 200 "claimed": the client has been told that it owns the box. *)
FinishResponds(r) ==
    /\ pc[r] = "respond"
    /\ acked' = acked \cup {req[r].owner}
    /\ Answered(r)
    /\ UNCHANGED <<diskVars, lockoutAuth, proc, bootVars, pending, lock, claimedBy>>

-----------------------------------------------------------------------------
Commit(r) ==
    \/ FinishRechecks(r) \/ FinishNoTpm(r) \/ FinishDiscardsLockout(r)
    \/ FinishTpmFails(r) \/ FinishMarks(r) \/ FinishDeletesSecret(r)
    \/ FinishBinds(r) \/ FinishUnlocks(r) \/ FinishResponds(r)

ClaimStep(r) ==
    \/ ChallengeArrives(r) \/ ChallengeRefused(r) \/ ChallengeIssued(r)
    \/ FinishArrives(r) \/ FinishRefused(r) \/ FinishVerified(r)
    \/ FinishLocks(r) \/ Commit(r)
=============================================================================
