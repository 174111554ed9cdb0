------------------------------ MODULE Serving -------------------------------
(***************************************************************************)
(* Serving: one process at work.  axum's routes behind the LAN gate, the   *)
(* handlers as tasks on a few tokio workers, and the std Mutexes they take *)
(* there.  A task gives up its worker only at an .await, for the body and  *)
(* for the hub; a task that waits for a std Mutex keeps its worker.  What  *)
(* the store, the limiter and the files hold is PendingChallenges',        *)
(* RateLimiter's and ClaimAgent's matter; here is the order of it all.     *)
(***************************************************************************)
EXTENDS Integers, FiniteSets

CONSTANTS
    Requests, \* the requests of one life of the process
    Workers,  \* how many worker threads the runtime has
    None

ASSUME ServingAssumption == Workers \in Nat \ {0} /\ None \notin Requests

VARIABLES
    route,   \* what each request asks for
    stage,   \* where its task stands
    on,      \* the tasks that have a worker
    lock,    \* each Mutex's holder, or None
    claimed, \* the marker is there (state::is_claimed)
    did,     \* what each request has done so far
    answer   \* each request's answer, or None

vars == <<route, stage, on, lock, claimed, did, answer>>

Routes == {"healthz", "claim", "challenge", "finish"}

Locks == {"limiter", "store", "commit", "tpm"}

Deeds == {"charged", "body", "hub", "stored", "tpm", "marked"}

(* What the box answers, and AppError::status. *)
Status ==
    [ok |-> 200, accepted |-> 202, malformed_request |-> 400, invalid_qr_payload |-> 400,
     invalid_proof |-> 401, non_lan_source |-> 403, not_locally_claimed |-> 403,
     already_claimed |-> 409, challenge_not_found |-> 410, rate_limited |-> 429,
     internal_error |-> 500, hub_unreachable |-> 502]

(* A task at one of these stages takes that Mutex next. *)
Wants == [limit |-> "limiter", insert |-> "store", peek |-> "store",
          commit |-> "commit", tpm |-> "tpm", invalidate |-> "store"]

Took == [limit |-> "charge", insert |-> "inserting", peek |-> "peeking",
         commit |-> "recheck", tpm |-> "discard", invalidate |-> "invalidating"]

(* The .awaits: nothing but the outside ends them. *)
Awaits == {"body", "hub"}

Stages == DOMAIN Wants \cup {Took[s] : s \in DOMAIN Wants} \cup Awaits \cup
          {"gate", "entry", "parse", "paired", "mark", "done"}

(* The stages at which a task holds a Mutex. *)
Holds == [limiter |-> {"charge"},
          store   |-> {"inserting", "peeking", "invalidating"},
          tpm     |-> {"discard"},
          commit  |-> {"recheck", "tpm", "discard", "mark", "invalidate", "invalidating"}]

Init ==
    /\ route \in [Requests -> Routes]
    /\ stage = [r \in Requests |-> "gate"]
    /\ on = {}
    /\ lock = [l \in Locks |-> None]
    /\ claimed \in BOOLEAN
    /\ did = [r \in Requests |-> {}]
    /\ answer = [r \in Requests |-> None]

-----------------------------------------------------------------------------
(* A task on a worker goes from one stage to the next. *)
Goes(r, from, to) ==
    /\ r \in on
    /\ stage[r] = from
    /\ stage' = [stage EXCEPT ![r] = to]
    /\ UNCHANGED route

Stays(r) == UNCHANGED <<on, answer>>

(* The response is sent, and the worker is free. *)
Answers(r, a) ==
    /\ on' = on \ {r}
    /\ answer' = [answer EXCEPT ![r] = a]

Does(r, deed) == did' = [did EXCEPT ![r] = @ \cup {deed}]

Releases(ls) == lock' = [l \in Locks |-> IF l \in ls THEN None ELSE lock[l]]

(* A worker takes up a task that is not waiting. *)
Picks(r) ==
    /\ Cardinality(on) < Workers
    /\ r \notin on
    /\ stage[r] \notin Awaits \cup {"done"}
    /\ on' = on \cup {r}
    /\ UNCHANGED <<route, stage, lock, claimed, did, answer>>

(* Mutant: the tool is run off the worker, under both guards. *)
Takes_Yields(r) ==
    /\ stage[r] \in DOMAIN Wants
    /\ lock[Wants[stage[r]]] = None
    /\ lock' = [lock EXCEPT ![Wants[stage[r]]] = r]
    /\ r \in on
    /\ stage' = [stage EXCEPT ![r] = Took[stage[r]]]
    /\ on' = IF stage[r] = "tpm" THEN on \ {r} ELSE on
    /\ UNCHANGED <<route, claimed, did, answer>>

(* lock().expect(..) on a free Mutex; on a held one the worker just waits. *)
Takes(r) ==
    /\ stage[r] \in DOMAIN Wants
    /\ lock[Wants[stage[r]]] = None
    /\ lock' = [lock EXCEPT ![Wants[stage[r]]] = r]
    /\ Goes(r, stage[r], Took[stage[r]])
    /\ Stays(r)
    /\ UNCHANGED <<claimed, did>>

-----------------------------------------------------------------------------
(* Mutant: a Json extractor reads the body before the handler runs. *)
Gate_Extracts(r) ==
    /\ \/ route[r] = "healthz" /\ Goes(r, "gate", "done") /\ Answers(r, "ok")
          /\ UNCHANGED did
       \/ route[r] # "healthz" /\ Goes(r, "gate", "done") /\ Answers(r, "non_lan_source")
          /\ UNCHANGED did
       \/ route[r] # "healthz" /\ Goes(r, "gate", "limit") /\ Stays(r) /\ Does(r, "body")
    /\ UNCHANGED <<lock, claimed>>

(* require_lan_source; /healthz is outside of it and answers at once. *)
Gate(r) ==
    /\ \/ route[r] = "healthz" /\ Goes(r, "gate", "done") /\ Answers(r, "ok")
       \/ route[r] # "healthz" /\ Goes(r, "gate", "done") /\ Answers(r, "non_lan_source")
       \/ route[r] # "healthz" /\ Goes(r, "gate", "limit") /\ Stays(r)
    /\ UNCHANGED <<lock, claimed, did>>

(* rate_limiter.allow: the only step of a refused request that leaves a mark. *)
Charges(r) ==
    /\ \/ Goes(r, "charge", "entry") /\ Stays(r) /\ Does(r, "charged")
       \/ Goes(r, "charge", "done") /\ Answers(r, "rate_limited") /\ UNCHANGED did
    /\ Releases({"limiter"})
    /\ UNCHANGED claimed

(* Each handler's own check of the marker, then the Content-Type. *)
Entry(r) ==
    /\ \/ /\ route[r] = "claim" /\ ~claimed
          /\ Goes(r, "entry", "done") /\ Answers(r, "not_locally_claimed")
       \/ /\ route[r] # "claim" /\ claimed
          /\ Goes(r, "entry", "done") /\ Answers(r, "already_claimed")
       \/ /\ claimed = (route[r] = "claim")
          /\ \/ Goes(r, "entry", "done") /\ Answers(r, "malformed_request")
             \/ Goes(r, "entry", "body") /\ on' = on \ {r} /\ UNCHANGED answer
    /\ UNCHANGED <<lock, claimed, did>>

(* to_bytes ends, for better or worse; the hub acks or refuses, or is gone. *)
Resumes(r) ==
    /\ stage[r] \in Awaits
    /\ stage' = [stage EXCEPT ![r] = IF stage[r] = "body" THEN "parse" ELSE "paired"]
    /\ UNCHANGED <<route, on, lock, claimed, did, answer>>

(* The body is read, cut short or too long; then serde, and qr_payload::parse. *)
Parses(r) ==
    /\ Does(r, "body")
    /\ \/ Goes(r, "parse", "done") /\ Answers(r, "malformed_request")
       \/ /\ route[r] = "claim"
          /\ Goes(r, "parse", "done") /\ Answers(r, "invalid_qr_payload")
       \/ /\ route[r] = "claim"
          /\ Goes(r, "parse", "hub") /\ on' = on \ {r} /\ UNCHANGED answer
       \/ route[r] = "challenge" /\ Goes(r, "parse", "insert") /\ Stays(r)
       \/ route[r] = "finish" /\ Goes(r, "parse", "peek") /\ Stays(r)
    /\ UNCHANGED <<lock, claimed>>

(* The hub has answered pair_claim; on an ack the background task is spawned. *)
Paired(r) ==
    /\ Goes(r, "paired", "done")
    /\ Does(r, "hub")
    /\ \E a \in {"accepted", "hub_unreachable"} : Answers(r, a)
    /\ UNCHANGED <<lock, claimed>>

(* PendingChallengeStore::insert, and the challenge's response. *)
Inserts(r) ==
    /\ Goes(r, "inserting", "done")
    /\ Does(r, "stored")
    /\ Releases({"store"})
    /\ Answers(r, "ok")
    /\ UNCHANGED claimed

(* Mutant: the store's guard is a temporary that lives to the commit. *)
Peeks_KeepsGuard(r) ==
    /\ \/ Goes(r, "peeking", "commit") /\ Stays(r) /\ UNCHANGED lock
       \/ /\ Goes(r, "peeking", "done") /\ Releases({"store"})
          /\ \E a \in {"challenge_not_found", "malformed_request", "invalid_proof"} :
                Answers(r, a)
    /\ UNCHANGED <<claimed, did>>

(* peek, then the decoding, the HMAC and the signature, which take no lock. *)
Peeks(r) ==
    /\ Releases({"store"})
    /\ \/ Goes(r, "peeking", "commit") /\ Stays(r)
       \/ /\ Goes(r, "peeking", "done")
          /\ \E a \in {"challenge_not_found", "malformed_request", "invalid_proof"} :
                Answers(r, a)
    /\ UNCHANGED <<claimed, did>>

(* The check under claim_commit_lock. *)
Rechecks(r) ==
    /\ \/ claimed /\ Goes(r, "recheck", "done") /\ Releases({"commit"})
          /\ Answers(r, "already_claimed")
       \/ ~claimed /\ Goes(r, "recheck", "tpm") /\ Stays(r) /\ UNCHANGED lock
    /\ UNCHANGED <<claimed, did>>

(* detect and discard_lockout_auth: the tool runs on the worker, to its end. *)
Discards(r) ==
    /\ Does(r, "tpm")
    /\ \/ Goes(r, "discard", "mark") /\ Stays(r) /\ Releases({"tpm"})
       \/ Goes(r, "discard", "done") /\ Answers(r, "internal_error")
          /\ Releases({"tpm", "commit"})
    /\ UNCHANGED claimed

(* mark_claimed_local, which may fail with the marker there; then the files. *)
Marks(r) ==
    /\ Does(r, "marked")
    /\ \/ Goes(r, "mark", "invalidate") /\ Stays(r) /\ claimed' = TRUE /\ UNCHANGED lock
       \/ Goes(r, "mark", "done") /\ Answers(r, "internal_error") /\ Releases({"commit"})
          /\ claimed' \in {claimed, TRUE}

(* invalidate, the end of the guard, and the finish's response. *)
Invalidates(r) ==
    /\ Goes(r, "invalidating", "done")
    /\ Releases({"store", "commit"})
    /\ Answers(r, "ok")
    /\ UNCHANGED <<claimed, did>>

-----------------------------------------------------------------------------
Runs(r) ==
    \/ Takes(r) \/ Gate(r) \/ Charges(r) \/ Entry(r) \/ Parses(r) \/ Paired(r) \/ Inserts(r)
    \/ Peeks(r) \/ Rechecks(r) \/ Discards(r) \/ Marks(r) \/ Invalidates(r)

Next == \E r \in Requests : Picks(r) \/ Runs(r) \/ Resumes(r)

Spec == Init /\ [][Next]_vars

(***************************************************************************)
(* The runtime gets round to every task and the kernel to every thread; a  *)
(* body ends or its connection does, and so does the call to the hub.      *)
(***************************************************************************)
Fairness == \A r \in Requests : WF_vars(Picks(r)) /\ WF_vars(Runs(r)) /\ WF_vars(Resumes(r))

FairSpec == Spec /\ Fairness

-----------------------------------------------------------------------------
(* Type invariant: no more tasks run than there are workers. *)
TypeOK ==
    /\ route \in [Requests -> Routes]
    /\ stage \in [Requests -> Stages]
    /\ on \subseteq Requests /\ IsFiniteSet(on) /\ Cardinality(on) <= Workers
    /\ lock \in [Locks -> Requests \cup {None}]
    /\ claimed \in BOOLEAN
    /\ did \in [Requests -> SUBSET Deeds]
    /\ answer \in [Requests -> DOMAIN Status \cup {None}]

(* A task on a worker can go on: it wants no Mutex, or a free one. *)
CanMove(r) == stage[r] \in DOMAIN Wants => lock[Wants[stage[r]]] = None

(***************************************************************************)
(* The workers are never all stuck on each other's Mutexes: if any task    *)
(* has a worker, one of those can go on.  It takes the order of the locks, *)
(* and that no task is off its worker with one (local_claim_finish: "No    *)
(* .await happens anywhere in this block").                                *)
(***************************************************************************)
NoStall == on # {} => \E r \in on : CanMove(r)

(***************************************************************************)
(* A refusal was free of effects: a 4xx has called no hub, stored nothing, *)
(* and touched neither TPM nor marker; and one of the gate, the limiter or *)
(* the first look at the marker has not even read the body (handlers.rs:   *)
(* "checked ... before the request body is read at all").                  *)
(***************************************************************************)
RefusedWithoutEffect ==
    \A r \in Requests : answer[r] # None /\ Status[answer[r]] \in 400 .. 499 =>
        /\ did[r] \subseteq {"charged", "body"}
        /\ answer[r] \in {"non_lan_source", "rate_limited"} => did[r] = {}
        /\ answer[r] = "not_locally_claimed" => did[r] = {"charged"}

(***************************************************************************)
(* Every request is answered, a /healthz probe among claims that queue for *)
(* the commit lock too (local_claim_finish, main).                         *)
(***************************************************************************)
EveryRequestAnswered == \A r \in Requests : <>(answer[r] # None)
=============================================================================
