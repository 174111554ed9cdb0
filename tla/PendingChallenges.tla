-------------------------- MODULE PendingChallenges -------------------------
(***************************************************************************)
(* PendingChallengeStore with its clock: the map of challenges that every  *)
(* challenge and finish handler shares.  A handler reads Instant::now()    *)
(* before it takes the map's Mutex, so calls reach the map in another      *)
(* order than their readings, and what is evicted is decided by readings.  *)
(* LocalClaim has the same store without its clock.                        *)
(***************************************************************************)
EXTENDS Naturals, FiniteSets

CONSTANTS
    Handlers,   \* handlers that may be inside a call of the store at one time
    Ids,        \* challenge ids, random UUIDs
    MaxPending, \* MAX_PENDING_CHALLENGES
    Ttl,        \* CHALLENGE_TTL
    Horizon,    \* the clock stops there: a bound for TLC, any number in the proofs
    None        \* not in the map, not issued yet, or no handler running

Times == 0 .. Horizon + Ttl

Ops == {"insert", "peek", "verify"}

Calls == [op : Ops, id : Ids, now : 0 .. Horizon]

ASSUME StoreAssumption ==
    /\ IsFiniteSet(Ids)
    /\ MaxPending \in Nat \ {0}
    /\ Ttl \in Nat \ {0}
    /\ Horizon \in Nat
    /\ None \notin Times \cup Calls

VARIABLES
    clock,      \* Instant::now()
    challenges, \* id -> expires_at, or None when the map has no such key
    call,       \* handler -> its operation, id and reading of the clock, or None
    due,        \* history: id -> the expires_at it was issued with, or None
    spent       \* history: the ids a successful claim has consumed

vars == <<clock, challenges, call, due, spent>>

Stored == {c \in Ids : challenges[c] # None}

Issued == {c \in Ids : due[c] # None}

Init ==
    /\ clock = 0
    /\ challenges = [c \in Ids |-> None]
    /\ call = [h \in Handlers |-> None]
    /\ due = [c \in Ids |-> None]
    /\ spent = {}

(* Type invariant: the map holds what was issued, with the expiry it was issued with. *)
TypeOK ==
    /\ clock \in 0 .. Horizon
    /\ challenges \in [Ids -> Times \cup {None}]
    /\ call \in [Handlers -> Calls \cup {None}]
    /\ due \in [Ids -> Times \cup {None}]
    /\ spent \subseteq Issued
    /\ \A c \in Stored : challenges[c] = due[c]
    /\ \A h \in Handlers : call[h] # None => call[h].now <= clock

Tick ==
    /\ clock < Horizon
    /\ clock' = clock + 1
    /\ UNCHANGED <<challenges, call, due, spent>>

Runs(h, op, c) ==
    /\ call[h] = None
    /\ call' = [call EXCEPT ![h] = [op |-> op, id |-> c, now |-> clock]]
    /\ UNCHANGED <<clock, challenges, due, spent>>

Returns(h) == call' = [call EXCEPT ![h] = None]

-----------------------------------------------------------------------------
(* local_claim_challenge: a fresh id, the clock is read, insert is called. *)
ChallengeReadsClock(h) ==
    \E c \in Ids \ Issued :
        /\ \A g \in Handlers : call[g] # None => call[g].id # c
        /\ Runs(h, "insert", c)

(* challenges.retain: what has not expired by this call's reading. *)
Unexpired(now) == {c \in Stored : challenges[c] > now}

(* Mutant: the entry that is last to expire is evicted. *)
Kept_EvictsLatest(now) ==
    LET live == Unexpired(now)
    IN  IF Cardinality(live) < MaxPending
        THEN {live}
        ELSE {live \ {c} : c \in {x \in live : \A y \in live : challenges[y] <= challenges[x]}}

(* Mutant: the capacity check is off by one. *)
Kept_OffByOne(now) ==
    LET live == Unexpired(now)
    IN  IF Cardinality(live) <= MaxPending
        THEN {live}
        ELSE {live \ {c} : c \in {x \in live : \A y \in live : challenges[x] <= challenges[y]}}

(***************************************************************************)
(* What insert keeps: the unexpired entries, at capacity without one that  *)
(* is first to expire; which of several such is up to the HashMap.         *)
(***************************************************************************)
Kept(now) ==
    LET live == Unexpired(now)
    IN  IF Cardinality(live) < MaxPending
        THEN {live}
        ELSE {live \ {c} : c \in {x \in live : \A y \in live : challenges[x] <= challenges[y]}}

(* Mutant: the expiry is counted from a second reading, under the Mutex. *)
Inserts_RereadsClock(h) ==
    /\ call[h] # None /\ call[h].op = "insert"
    /\ LET c == call[h].id
       IN  /\ \E kept \in Kept(call[h].now) :
                 challenges' = [x \in Ids |-> IF x = c THEN clock + Ttl
                                              ELSE IF x \in kept THEN challenges[x]
                                              ELSE None]
           /\ due' = [due EXCEPT ![c] = call[h].now + Ttl]
    /\ Returns(h)
    /\ UNCHANGED <<clock, spent>>

(* PendingChallengeStore::insert, one step under the Mutex. *)
Inserts(h) ==
    /\ call[h] # None /\ call[h].op = "insert"
    /\ LET c == call[h].id
           expires == call[h].now + Ttl
       IN  /\ \E kept \in Kept(call[h].now) :
                 challenges' = [x \in Ids |-> IF x = c THEN expires
                                              ELSE IF x \in kept THEN challenges[x]
                                              ELSE None]
           /\ due' = [due EXCEPT ![c] = expires]
    /\ Returns(h)
    /\ UNCHANGED <<clock, spent>>

(* local_claim_finish names an issued challenge; the clock is read for peek. *)
FinishReadsClock(h) == \E c \in Issued : Runs(h, "peek", c)

(* Mutant: an expired entry that no insert has swept yet is still good. *)
PeekFinds_Unfiltered(h) ==
    /\ call[h] # None /\ call[h].op = "peek"
    /\ call[h].id \in Stored
    /\ call' = [call EXCEPT ![h].op = "verify"]
    /\ UNCHANGED <<clock, challenges, due, spent>>

(* PendingChallengeStore::peek finds the challenge; it is not consumed. *)
PeekFinds(h) ==
    /\ call[h] # None /\ call[h].op = "peek"
    /\ call[h].id \in Unexpired(call[h].now)
    /\ call' = [call EXCEPT ![h].op = "verify"]
    /\ UNCHANGED <<clock, challenges, due, spent>>

(* It is absent or expired: 410. *)
PeekMisses(h) ==
    /\ call[h] # None /\ call[h].op = "peek"
    /\ call[h].id \notin Unexpired(call[h].now)
    /\ Returns(h)
    /\ UNCHANGED <<clock, challenges, due, spent>>

(* The proof fails, or the box is claimed by now: the challenge stays. *)
Refuses(h) ==
    /\ call[h] # None /\ call[h].op = "verify"
    /\ Returns(h)
    /\ UNCHANGED <<clock, challenges, due, spent>>

(* The claim is committed: PendingChallengeStore::invalidate. *)
Invalidates(h) ==
    /\ call[h] # None /\ call[h].op = "verify"
    /\ challenges' = [challenges EXCEPT ![call[h].id] = None]
    /\ spent' = spent \cup {call[h].id}
    /\ Returns(h)
    /\ UNCHANGED <<clock, due>>

Next ==
    \/ Tick
    \/ \E h \in Handlers :
          \/ ChallengeReadsClock(h) \/ Inserts(h) \/ FinishReadsClock(h)
          \/ PeekFinds(h) \/ PeekMisses(h) \/ Refuses(h) \/ Invalidates(h)

Spec == Init /\ [][Next]_vars

-----------------------------------------------------------------------------
(* The map never holds more than MAX_PENDING_CHALLENGES (insert). *)
StoreBounded == Cardinality(Stored) <= MaxPending

(* The other challenges issued so far that expire no earlier than c. *)
OutlivedBy(c) == {d \in Issued \ {c} : due[d] >= due[c]}

(***************************************************************************)
(* A challenge that has neither expired nor been consumed is lost only to  *)
(* a full map: at least MAX_PENDING_CHALLENGES - 1 others expire no        *)
(* earlier.  It is one less than the capacity because the insert that      *)
(* evicts may carry an older reading than the evicted entry (insert, and   *)
(* the clock readings of local_claim_challenge).                           *)
(***************************************************************************)
SurvivesFlood ==
    \A c \in (Issued \ Stored) \ spent :
        due[c] > clock => Cardinality(OutlivedBy(c)) >= MaxPending - 1

(***************************************************************************)
(* A challenge a finish goes on with had not expired by its reading of     *)
(* the clock and had not been consumed, whether or not an insert has swept *)
(* the map since (peek, invalidate).                                       *)
(***************************************************************************)
PeekFindsLive ==
    [][\A h \in Handlers :
          call[h] # None /\ call[h].op = "peek" /\ call'[h] = [call[h] EXCEPT !.op = "verify"] =>
              /\ due[call[h].id] > call[h].now
              /\ call[h].id \notin spent]_vars
=============================================================================
