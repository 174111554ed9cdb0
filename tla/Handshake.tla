----------------------------- MODULE Handshake ------------------------------
(***************************************************************************)
(* The mutual-proof handshake of local_claim.rs as messages between        *)
(* several boxes and several Couriers on one LAN.  A Courier may ask the   *)
(* wrong box, its user may mistype the code, a message may be late, be     *)
(* handled twice or never, and a box may restart between the two requests. *)
(* The cryptography is symbolic: a proof is the record of what went into   *)
(* the HMAC, a client_sig the record of what was signed by whom.  Couriers *)
(* are honest.  LocalClaim has the finish handler's steps one by one; here *)
(* what matters is who proves what to whom.                                *)
(***************************************************************************)
EXTENDS Naturals

CONSTANTS
    Boxes,       \* the boxes; the secret of a box is named by the box
    Couriers,    \* the Courier clients, named by their public keys
    Keys,        \* device keypairs, named by their public keys
    Typo,        \* a mistyped code, no box's secret
    None,        \* no keypair or no owner
    ReadsFail,   \* reading the device key file may fail
    MaxTries,    \* bound: challenge requests of all Couriers together
    MaxRestarts  \* bound: restarts of all boxes together

ASSUME HandshakeAssumption ==
    /\ None \notin Keys \cup Couriers
    /\ Typo \notin Boxes
    /\ ReadsFail \in BOOLEAN
    /\ MaxTries \in Nat
    /\ MaxRestarts \in Nat

VARIABLES
    keyFile,  \* the device key file of each box, or None
    boxKey,   \* AppState::keypair; None while the process is down
    pending,  \* the challenges in each box's PendingChallengeStore
    verified, \* the finish requests whose handlers go on to the commit
    claimed,  \* whether each box has a claimed marker
    owner,    \* the owner_pubkey in that marker, or None
    net,      \* every request and answer sent so far
    tries,    \* the number of challenge requests sent
    trusts,   \* the box_pubkey a Courier has claimed and verified, or None
    code,     \* the box whose screen the Courier's user reads
    restarts

vars == <<keyFile, boxKey, pending, verified, claimed, owner, net, tries, trusts,
          code, restarts>>

boxVars == <<keyFile, boxKey, pending, verified, claimed, owner>>

courierVars == <<tries, trusts, code>>

(* challenge_id and server_nonce, fresh: named by the request they answer. *)
Challenges == 1 .. MaxTries

(* transcript: server_nonce, client_pubkey, box_pubkey, in this order. *)
Transcript(chal, client, key) == [nonce |-> chal, client |-> client, key |-> key]

Transcripts == [nonce : Challenges, client : Couriers, key : Keys]

Labels == {"benix-claim/client", "benix-claim/box"}

(* hmac_with_label *)
Hmac(secret, label, transcript) ==
    [secret |-> secret, label |-> label, transcript |-> transcript]

Proofs == [secret : Boxes \cup {Typo}, label : Labels, transcript : Transcripts]

(* Ed25519 over challenge_id and client_proof. *)
Signature(signer, chal, proof) == [signer |-> signer, chal |-> chal, proof |-> proof]

Signatures == [signer : Couriers, chal : Challenges, proof : Proofs]

(* ChallengeRequest and ChallengeResponse, FinishRequest and FinishResponse. *)
ChallengeRequests ==
    [type : {"challenge"}, box : Boxes, client : Couriers, chal : Challenges]

ChallengeResponses ==
    [type : {"issued"}, box : Boxes, client : Couriers, chal : Challenges, key : Keys]

FinishRequests ==
    [type : {"finish"}, box : Boxes, client : Couriers, chal : Challenges,
     proof : Proofs, sig : Signatures]

FinishResponses ==
    [type : {"claimed"}, box : Boxes, client : Couriers, chal : Challenges, proof : Proofs]

Messages ==
    ChallengeRequests \cup ChallengeResponses \cup FinishRequests \cup FinishResponses

Init ==
    /\ keyFile = [b \in Boxes |-> None]
    /\ boxKey = [b \in Boxes |-> None]
    /\ pending = [b \in Boxes |-> {}]
    /\ verified = [b \in Boxes |-> {}]
    /\ claimed = [b \in Boxes |-> FALSE]
    /\ owner = [b \in Boxes |-> None]
    /\ net = {}
    /\ tries = 0
    /\ trusts = [c \in Couriers |-> None]
    /\ code \in [Couriers -> Boxes]
    /\ restarts = 0

(* Type invariant: requests in a box's handlers are requests to that box. *)
TypeOK ==
    /\ keyFile \in [Boxes -> Keys \cup {None}]
    /\ boxKey \in [Boxes -> Keys \cup {None}]
    /\ pending \in [Boxes -> SUBSET Challenges]
    /\ DOMAIN verified = Boxes
    /\ \A b \in Boxes : verified[b] \subseteq {m \in net : m.type = "finish" /\ m.box = b}
    /\ claimed \in [Boxes -> BOOLEAN]
    /\ owner \in [Boxes -> Couriers \cup {None}]
    /\ net \subseteq Messages
    /\ tries \in 0 .. MaxTries
    /\ trusts \in [Couriers -> Keys \cup {None}]
    /\ code \in [Couriers -> Boxes]
    /\ restarts \in 0 .. MaxRestarts

Up(b) == boxKey[b] # None

-----------------------------------------------------------------------------
(* A box starts: load_or_create_keypair, before anything is served. *)

LoadsKey(b) ==
    /\ ~Up(b)
    /\ keyFile[b] # None
    /\ boxKey' = [boxKey EXCEPT ![b] = keyFile[b]]
    /\ UNCHANGED <<keyFile, pending, verified, claimed, owner, net, courierVars, restarts>>

(* A generated keypair is none that is in use. *)
FreshKeys == Keys \ {keyFile[b] : b \in Boxes}

(* Mutant: main() goes on with a keypair that could not be written. *)
CreatesKey_Unpersisted(b) ==
    /\ ~Up(b)
    /\ keyFile[b] = None \/ ReadsFail
    /\ \E k \in FreshKeys :
          /\ keyFile' \in {keyFile, [keyFile EXCEPT ![b] = k]}
          /\ boxKey' = [boxKey EXCEPT ![b] = k]
    /\ UNCHANGED <<pending, verified, claimed, owner, net, courierVars, restarts>>

(***************************************************************************)
(* The file is absent, or any error of reading it is taken for that: a     *)
(* fresh keypair is generated and written.  If the write fails, before or  *)
(* after the file is renamed into place, main() exits and is started again.*)
(***************************************************************************)
CreatesKey(b) ==
    /\ ~Up(b)
    /\ keyFile[b] = None \/ ReadsFail
    /\ \E k \in FreshKeys :
          \/ /\ keyFile' = [keyFile EXCEPT ![b] = k]
             /\ boxKey' \in {boxKey, [boxKey EXCEPT ![b] = k]}
          \/ UNCHANGED <<keyFile, boxKey>>
    /\ UNCHANGED <<pending, verified, claimed, owner, net, courierVars, restarts>>

(* The process dies: its handlers and pending challenges are gone. *)
Crashes(b) ==
    /\ Up(b)
    /\ restarts < MaxRestarts
    /\ restarts' = restarts + 1
    /\ boxKey' = [boxKey EXCEPT ![b] = None]
    /\ pending' = [pending EXCEPT ![b] = {}]
    /\ verified' = [verified EXCEPT ![b] = {}]
    /\ UNCHANGED <<keyFile, claimed, owner, net, courierVars>>

-----------------------------------------------------------------------------
(* The Courier. *)

(* A first request, or a new one when the old one seems to lead nowhere. *)
Asks(c, b) ==
    /\ tries < MaxTries
    /\ tries' = tries + 1
    /\ net' = net \cup {[type |-> "challenge", box |-> b, client |-> c, chal |-> tries + 1]}
    /\ UNCHANGED <<boxVars, trusts, code, restarts>>

(* The finish request for an answer i, with the code the user typed. *)
FinishFor(i, typed) ==
    LET proof == Hmac(typed, "benix-claim/client", Transcript(i.chal, i.client, i.key))
    IN  [type |-> "finish", box |-> i.box, client |-> i.client, chal |-> i.chal,
         proof |-> proof, sig |-> Signature(i.client, i.chal, proof)]

(* It may be sent again, and with the code typed anew. *)
SendsFinish(c) ==
    /\ \E i \in net, typed \in {code[c], Typo} :
          /\ i.type = "issued" /\ i.client = c
          /\ net' = net \cup {FinishFor(i, typed)}
    /\ UNCHANGED <<boxVars, courierVars, restarts>>

(* box_proof is verified over the transcript of the Courier's own request. *)
Accepts(c) ==
    /\ \E i \in net, m \in net :
          /\ i.type = "issued" /\ i.client = c
          /\ m.type = "claimed" /\ m.client = c /\ m.chal = i.chal
          /\ m.proof = Hmac(code[c], "benix-claim/box", Transcript(i.chal, c, i.key))
          /\ trusts' = [trusts EXCEPT ![c] = i.key]
    /\ UNCHANGED <<boxVars, net, tries, code, restarts>>

-----------------------------------------------------------------------------
(* The box.  A refused request (401, 409, 410) changes nothing. *)

(* local_claim_challenge; the client_pubkey is checked for its shape only. *)
Issues(b) ==
    /\ Up(b)
    /\ ~claimed[b]
    /\ \E m \in net :
          /\ m.type = "challenge" /\ m.box = b
          /\ ~\E i \in net : i.type = "issued" /\ i.chal = m.chal
          /\ pending' = [pending EXCEPT ![b] = @ \cup {m.chal}]
          /\ net' = net \cup {[type |-> "issued", box |-> b, client |-> m.client,
                               chal |-> m.chal, key |-> boxKey[b]]}
    /\ UNCHANGED <<keyFile, boxKey, verified, claimed, owner, courierVars, restarts>>

(* Its TTL runs out, or PendingChallengeStore::insert evicts it. *)
Expires(b) ==
    /\ \E n \in pending[b] : pending' = [pending EXCEPT ![b] = @ \ {n}]
    /\ UNCHANGED <<keyFile, boxKey, verified, claimed, owner, net, courierVars, restarts>>

(* Mutant: the signature is checked and the client_proof is not. *)
Verifies_SignatureOnly(b, m) ==
    /\ m.chal \in pending[b]
    /\ m.sig = Signature(m.client, m.chal, m.proof)

(***************************************************************************)
(* What local_claim_finish demands of a request: a pending challenge, an   *)
(* HMAC under this box's secret over the transcript with the request's own *)
(* client_pubkey and this box's key, and the signature of that client.     *)
(***************************************************************************)
Verifies(b, m) ==
    /\ m.chal \in pending[b]
    /\ m.proof = Hmac(b, "benix-claim/client", Transcript(m.chal, m.client, boxKey[b]))
    /\ m.sig = Signature(m.client, m.chal, m.proof)

(* The unlocked claimed check, peek and the two verifications. *)
FinishVerified(b) ==
    /\ Up(b)
    /\ ~claimed[b]
    /\ \E m \in net :
          /\ m.type = "finish" /\ m.box = b
          /\ Verifies(b, m)
          /\ verified' = [verified EXCEPT ![b] = @ \cup {m}]
    /\ UNCHANGED <<keyFile, boxKey, pending, claimed, owner, net, courierVars, restarts>>

(* FinishResponse: box_proof is over the transcript of the finish request. *)
FinishResponse(b, m) ==
    [type |-> "claimed", box |-> b, client |-> m.client, chal |-> m.chal,
     proof |-> Hmac(b, "benix-claim/box", Transcript(m.chal, m.client, boxKey[b]))]

(* Mutant: the claimed check is not made again under the lock. *)
FinishCommits_Unchecked(b) ==
    /\ \E m \in verified[b] :
          /\ claimed' = [claimed EXCEPT ![b] = TRUE]
          /\ owner' = [owner EXCEPT ![b] = m.client]
          /\ pending' = [pending EXCEPT ![b] = @ \ {m.chal}]
          /\ net' = net \cup {FinishResponse(b, m)}
    /\ UNCHANGED <<keyFile, boxKey, verified, courierVars, restarts>>

(***************************************************************************)
(* The claim, under claim_commit_lock.  Copies of the request may still    *)
(* run.  A commit that fails before the marker is in place changes nothing *)
(* here, one that fails after it, or is cut short, is one whose answer is  *)
(* lost.                                                                   *)
(***************************************************************************)
FinishCommits(b) ==
    /\ ~claimed[b]
    /\ \E m \in verified[b] :
          /\ claimed' = [claimed EXCEPT ![b] = TRUE]
          /\ owner' = [owner EXCEPT ![b] = m.client]
          /\ pending' = [pending EXCEPT ![b] = @ \ {m.chal}]
          /\ net' = net \cup {FinishResponse(b, m)}
    /\ UNCHANGED <<keyFile, boxKey, verified, courierVars, restarts>>

(***************************************************************************)
(* A hub join of the claimed box is approved: mark_claimed writes a marker *)
(* of its own in the place of the one there, without an owner_pubkey.      *)
(***************************************************************************)
HubJoins(b) ==
    /\ Up(b)
    /\ claimed[b]
    /\ owner' = [owner EXCEPT ![b] = None]
    /\ UNCHANGED <<keyFile, boxKey, pending, verified, claimed, net, courierVars, restarts>>

-----------------------------------------------------------------------------
Next ==
    \/ \E b \in Boxes :
          \/ LoadsKey(b) \/ CreatesKey(b) \/ Crashes(b) \/ Issues(b) \/ Expires(b)
          \/ FinishVerified(b) \/ FinishCommits(b) \/ HubJoins(b)
    \/ \E c \in Couriers : (\E b \in Boxes : Asks(c, b)) \/ SendsFinish(c) \/ Accepts(c)

Spec == Init /\ [][Next]_vars

-----------------------------------------------------------------------------
(***************************************************************************)
(* A box is only ever owned by a Courier whose user has read that box's    *)
(* code, whichever box its requests went to (the check of client_proof in  *)
(* local_claim_finish).                                                    *)
(***************************************************************************)
OwnerReadCode == \A b \in Boxes : owner[b] # None => code[owner[b]] = b

(***************************************************************************)
(* A Courier that has verified a box_proof made the one claim of the box   *)
(* whose code its user typed: the box is claimed, its marker names that    *)
(* Courier (or nobody, once a hub join has replaced it), and no other      *)
(* Courier has verified a box_proof of that box, or ever will, through     *)
(* lost answers, repeated requests, restarts and hub joins                 *)
(* (local_claim_finish, run_wait_for_result).                              *)
(***************************************************************************)
AcceptedOwns ==
    \A c \in Couriers : trusts[c] # None =>
        /\ claimed[code[c]]
        /\ owner[code[c]] \in {c, None}
        /\ \A d \in Couriers : trusts[d] # None /\ code[d] = code[c] => d = c

(***************************************************************************)
(* The box_pubkey a Courier has claimed is the one the box has on disk,    *)
(* and no other box has it: it stays the box's identity through restarts   *)
(* and failed writes of the key file (load_or_create_keypair).             *)
(***************************************************************************)
PinnedKeyStays ==
    \A c \in Couriers : trusts[c] # None =>
        {b \in Boxes : keyFile[b] = trusts[c]} = {code[c]}
=============================================================================
