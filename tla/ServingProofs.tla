---------------------------- MODULE ServingProofs ---------------------------
(***************************************************************************)
(* The process of Serving is never stuck on its own Mutexes and refuses    *)
(* without effects, for every set of requests and every number of workers. *)
(***************************************************************************)
EXTENDS Serving, FiniteSetTheorems, TLAPS

(* A Mutex is held by the task at one of its stages, and by no other. *)
HoldInv == \A r \in Requests, l \in Locks : lock[l] = r <=> stage[r] \in Holds[l]

(* A task that holds a Mutex has a worker. *)
OnInv == \A r \in Requests, l \in Locks : stage[r] \in Holds[l] => r \in on

(* What a request has done by the stage it is at, and when it is answered. *)
DidInv ==
    \A r \in Requests :
        /\ answer[r] # None => stage[r] = "done"
        /\ stage[r] \in {"gate", "limit", "charge"} => did[r] = {}
        /\ stage[r] \in {"entry", "body", "parse"} => did[r] = {"charged"}
        /\ stage[r] \in {"insert", "peek", "peeking", "commit", "recheck"}
              => did[r] \subseteq {"charged", "body"}

Inv == TypeOK /\ HoldInv /\ OnInv /\ DidInv /\ RefusedWithoutEffect

-----------------------------------------------------------------------------
(* The tables. *)

LEMMA WantsTable ==
    /\ DOMAIN Wants = {"limit", "insert", "peek", "commit", "tpm", "invalidate"}
    /\ \A s \in DOMAIN Wants : Wants[s] \in Locks
BY DEF Wants, Locks

LEMMA TookTable ==
    /\ Took["limit"] = "charge" /\ Took["insert"] = "inserting" /\ Took["peek"] = "peeking"
    /\ Took["commit"] = "recheck" /\ Took["tpm"] = "discard"
    /\ Took["invalidate"] = "invalidating"
BY DEF Took

LEMMA StageTable ==
    Stages = {"limit", "insert", "peek", "commit", "tpm", "invalidate",
              "charge", "inserting", "peeking", "recheck", "discard", "invalidating",
              "body", "hub", "gate", "entry", "parse", "paired", "mark", "done"}
<1>1. {Took[s] : s \in DOMAIN Wants} =
         {"charge", "inserting", "peeking", "recheck", "discard", "invalidating"}
  BY WantsTable, TookTable
<1>2. QED
  BY <1>1, WantsTable DEF Stages, Awaits

LEMMA HoldsTable ==
    /\ Holds["limiter"] = {"charge"}
    /\ Holds["store"] = {"inserting", "peeking", "invalidating"}
    /\ Holds["tpm"] = {"discard"}
    /\ Holds["commit"] = {"recheck", "tpm", "discard", "mark", "invalidate", "invalidating"}
BY DEF Holds

LEMMA StatusTable ==
    /\ DOMAIN Status = {"ok", "accepted", "malformed_request", "invalid_qr_payload",
          "invalid_proof", "non_lan_source", "not_locally_claimed", "already_claimed",
          "challenge_not_found", "rate_limited", "internal_error", "hub_unreachable"}
    /\ \A a \in {"ok", "accepted", "internal_error", "hub_unreachable"} :
          Status[a] \notin 400 .. 499
BY DEF Status

-----------------------------------------------------------------------------
(* One step of a task. *)

(***************************************************************************)
(* What every step of a task on a worker does to stages and Mutexes: it    *)
(* takes those of the stage it goes to and gives back the others, and it   *)
(* leaves its worker only where it holds none.                             *)
(***************************************************************************)
RunShape(r, to) ==
    /\ r \in on /\ to \in Stages
    /\ stage' = [stage EXCEPT ![r] = to]
    /\ UNCHANGED route
    /\ lock' \in [Locks -> Requests \cup {None}]
    /\ \A l \in Locks :
          /\ lock'[l] = IF to \in Holds[l] THEN r
                        ELSE IF stage[r] \in Holds[l] THEN None ELSE lock[l]
          /\ to \in Holds[l] => lock[l] \in {None, r}
    /\ \/ on' = on
       \/ on' = on \ {r} /\ \A l \in Locks : to \notin Holds[l]

LEMMA TakesShape ==
    ASSUME Inv, NEW r \in Requests, Takes(r)
    PROVE  RunShape(r, Took[stage[r]])
<1> DEFINE s == stage[r]
<1>1. /\ s \in DOMAIN Wants /\ lock[Wants[s]] = None /\ r \in on
      /\ stage' = [stage EXCEPT ![r] = Took[s]] /\ UNCHANGED route /\ on' = on
      /\ lock' = [lock EXCEPT ![Wants[s]] = r]
  BY DEF Takes, Goes, Stays
<1>2. /\ lock \in [Locks -> Requests \cup {None}] /\ Wants[s] \in Locks
      /\ \A l \in Locks : lock[l] = r <=> s \in Holds[l]
  BY <1>1, WantsTable DEF Inv, TypeOK, HoldInv
<1>3. lock' \in [Locks -> Requests \cup {None}]
  BY <1>1, <1>2
<1>4. \A l \in Locks : lock'[l] = IF l = Wants[s] THEN r ELSE lock[l]
  BY <1>1, <1>2
<1>5. Took[s] \in Stages
  BY <1>1, WantsTable, TookTable, StageTable
<1>6. \A l \in Locks : Took[s] \in Holds[l] <=> l = Wants[s] \/ s \in Holds[l]
  BY <1>1, WantsTable, TookTable, HoldsTable DEF Locks, Wants
<1> HIDE DEF s
<1>7. \A l \in Locks :
         /\ lock'[l] = IF Took[s] \in Holds[l] THEN r
                       ELSE IF s \in Holds[l] THEN None ELSE lock[l]
         /\ Took[s] \in Holds[l] => lock[l] \in {None, r}
  BY <1>1, <1>2, <1>4, <1>6
<1>8. QED
  BY <1>1, <1>3, <1>5, <1>7 DEF RunShape, s

(* A step that keeps the Mutexes as they are, from and to stages that hold the same. *)
LEMMA KeepShape ==
    ASSUME Inv, NEW r \in Requests, NEW to \in Stages,
           Goes(r, stage[r], to), UNCHANGED lock,
           \A l \in Locks : to \in Holds[l] <=> stage[r] \in Holds[l],
           on' = on \/ (on' = on \ {r} /\ \A l \in Locks : to \notin Holds[l])
    PROVE  RunShape(r, to)
<1>1. \A l \in Locks : lock[l] = r <=> stage[r] \in Holds[l]
  BY DEF Inv, HoldInv
<1>2. lock' \in [Locks -> Requests \cup {None}]
  BY DEF Inv, TypeOK
<1>3. QED
  BY <1>1, <1>2 DEF RunShape, Goes

(* A step that releases exactly what the stage it leaves held and the next does not. *)
LEMMA ReleaseShape ==
    ASSUME Inv, NEW r \in Requests, NEW to \in Stages, NEW ls \in SUBSET Locks,
           Goes(r, stage[r], to), Releases(ls),
           \A l \in Locks : to \in Holds[l] <=> stage[r] \in Holds[l] /\ l \notin ls,
           \A l \in ls : stage[r] \in Holds[l],
           on' = on \/ (on' = on \ {r} /\ \A l \in Locks : to \notin Holds[l])
    PROVE  RunShape(r, to)
<1>1. \A l \in Locks : lock[l] = r <=> stage[r] \in Holds[l]
  BY DEF Inv, HoldInv
<1>2. \A l \in Locks : lock'[l] = IF l \in ls THEN None ELSE lock[l]
  BY DEF Releases
<1>3. lock' \in [Locks -> Requests \cup {None}]
  <2>1. \A l \in Locks : (IF l \in ls THEN None ELSE lock[l]) \in Requests \cup {None}
    BY DEF Inv, TypeOK
  <2>2. QED
    BY <2>1 DEF Releases
<1>4. \A l \in Locks :
         /\ lock'[l] = IF to \in Holds[l] THEN r
                       ELSE IF stage[r] \in Holds[l] THEN None ELSE lock[l]
         /\ to \in Holds[l] => lock[l] \in {None, r}
  BY <1>1, <1>2
<1>5. QED
  BY <1>3, <1>4 DEF RunShape, Goes

LEMMA RunsShape ==
    ASSUME Inv, NEW r \in Requests, Runs(r)
    PROVE  \E to \in Stages : RunShape(r, to)
<1>1. CASE Takes(r)
  BY <1>1, TakesShape DEF RunShape
<1>2. CASE Gate(r) \/ Entry(r) \/ Parses(r) \/ Paired(r)
  <2>1. /\ UNCHANGED lock
        /\ \E to \in {"done", "limit", "body", "hub", "insert", "peek"} :
              /\ Goes(r, stage[r], to)
              /\ on' = on \/ on' = on \ {r}
              /\ stage[r] \in {"gate", "entry", "parse", "paired"}
    BY <1>2 DEF Gate, Entry, Parses, Paired, Goes, Stays, Answers
  <2>2. PICK to \in {"done", "limit", "body", "hub", "insert", "peek"} :
              /\ Goes(r, stage[r], to)
              /\ on' = on \/ on' = on \ {r}
              /\ stage[r] \in {"gate", "entry", "parse", "paired"}
    BY <2>1
  <2>3. /\ to \in Stages
        /\ \A l \in Locks : to \notin Holds[l] /\ stage[r] \notin Holds[l]
    BY <2>2, StageTable, HoldsTable DEF Locks
  <2>4. QED
    BY <2>1, <2>2, <2>3, KeepShape
<1>3. CASE Charges(r)
  <2>1. PICK to \in {"entry", "done"} : Goes(r, "charge", to) /\ on' \in {on, on \ {r}}
    BY <1>3 DEF Charges, Stays, Answers
  <2>2. stage[r] = "charge" /\ Releases({"limiter"})
    BY <1>3, <2>1 DEF Charges, Goes
  <2>3. /\ to \in Stages /\ {"limiter"} \in SUBSET Locks
        /\ \A l \in Locks : /\ to \notin Holds[l]
                            /\ stage[r] \in Holds[l] <=> l \in {"limiter"}
    BY <2>1, <2>2, StageTable, HoldsTable DEF Locks
  <2>4. QED
    BY <2>1, <2>2, <2>3, ReleaseShape
<1>4. CASE Inserts(r) \/ Peeks(r)
  <2>1. PICK to \in {"commit", "done"} : Goes(r, stage[r], to) /\ on' \in {on, on \ {r}}
    BY <1>4 DEF Inserts, Peeks, Stays, Answers, Goes
  <2>2. stage[r] \in {"inserting", "peeking"} /\ Releases({"store"})
    BY <1>4 DEF Inserts, Peeks, Goes
  <2>3. /\ to \in Stages /\ {"store"} \in SUBSET Locks
        /\ \A l \in Locks : /\ to \notin Holds[l]
                            /\ stage[r] \in Holds[l] <=> l \in {"store"}
    BY <2>1, <2>2, StageTable, HoldsTable DEF Locks
  <2>4. QED
    BY <2>1, <2>2, <2>3, ReleaseShape
<1>5. CASE Rechecks(r)
  <2>1. CASE Goes(r, "recheck", "done") /\ Releases({"commit"}) /\ on' = on \ {r}
    <3>1. stage[r] = "recheck" /\ Goes(r, stage[r], "done")
      BY <2>1 DEF Goes
    <3>2. /\ "done" \in Stages /\ {"commit"} \in SUBSET Locks
          /\ \A l \in Locks : /\ "done" \notin Holds[l]
                              /\ stage[r] \in Holds[l] <=> l \in {"commit"}
      BY <3>1, StageTable, HoldsTable DEF Locks
    <3>3. QED
      BY <2>1, <3>1, <3>2, ReleaseShape
  <2>2. CASE Goes(r, "recheck", "tpm") /\ UNCHANGED lock /\ on' = on
    <3>1. stage[r] = "recheck" /\ Goes(r, stage[r], "tpm")
      BY <2>2 DEF Goes
    <3>2. "tpm" \in Stages /\ \A l \in Locks : "tpm" \in Holds[l] <=> stage[r] \in Holds[l]
      BY <3>1, StageTable, HoldsTable DEF Locks
    <3>3. RunShape(r, "tpm")
      BY <2>2, <3>1, <3>2, KeepShape
    <3>4. QED
      BY <3>2, <3>3
  <2>3. QED
    BY <1>5, <2>1, <2>2 DEF Rechecks, Stays, Answers
<1>6. CASE Discards(r)
  <2>1. CASE Goes(r, "discard", "mark") /\ Releases({"tpm"}) /\ on' = on
    <3>1. stage[r] = "discard" /\ Goes(r, stage[r], "mark")
      BY <2>1 DEF Goes
    <3>2. /\ "mark" \in Stages /\ {"tpm"} \in SUBSET Locks
          /\ \A l \in Locks : "mark" \in Holds[l] <=> stage[r] \in Holds[l] /\ l \notin {"tpm"}
          /\ \A l \in {"tpm"} : stage[r] \in Holds[l]
      BY <3>1, StageTable, HoldsTable DEF Locks
    <3>3. RunShape(r, "mark")
      BY <2>1, <3>1, <3>2, ReleaseShape
    <3>4. QED
      BY <3>2, <3>3
  <2>2. CASE Goes(r, "discard", "done") /\ Releases({"tpm", "commit"}) /\ on' = on \ {r}
    <3>1. stage[r] = "discard" /\ Goes(r, stage[r], "done")
      BY <2>2 DEF Goes
    <3>2. /\ "done" \in Stages /\ {"tpm", "commit"} \in SUBSET Locks
          /\ \A l \in Locks : /\ "done" \notin Holds[l]
                              /\ stage[r] \in Holds[l] <=> l \in {"tpm", "commit"}
      BY <3>1, StageTable, HoldsTable DEF Locks
    <3>3. QED
      BY <2>2, <3>1, <3>2, ReleaseShape
  <2>3. QED
    BY <1>6, <2>1, <2>2 DEF Discards, Stays, Answers
<1>7. CASE Marks(r)
  <2>1. CASE Goes(r, "mark", "invalidate") /\ UNCHANGED lock /\ on' = on
    <3>1. stage[r] = "mark" /\ Goes(r, stage[r], "invalidate")
      BY <2>1 DEF Goes
    <3>2. /\ "invalidate" \in Stages
          /\ \A l \in Locks : "invalidate" \in Holds[l] <=> stage[r] \in Holds[l]
      BY <3>1, StageTable, HoldsTable DEF Locks
    <3>3. RunShape(r, "invalidate")
      BY <2>1, <3>1, <3>2, KeepShape
    <3>4. QED
      BY <3>2, <3>3
  <2>2. CASE Goes(r, "mark", "done") /\ Releases({"commit"}) /\ on' = on \ {r}
    <3>1. stage[r] = "mark" /\ Goes(r, stage[r], "done")
      BY <2>2 DEF Goes
    <3>2. /\ "done" \in Stages /\ {"commit"} \in SUBSET Locks
          /\ \A l \in Locks : /\ "done" \notin Holds[l]
                              /\ stage[r] \in Holds[l] <=> l \in {"commit"}
      BY <3>1, StageTable, HoldsTable DEF Locks
    <3>3. QED
      BY <2>2, <3>1, <3>2, ReleaseShape
  <2>3. QED
    BY <1>7, <2>1, <2>2 DEF Marks, Stays, Answers
<1>8. CASE Invalidates(r)
  <2>1. /\ Goes(r, stage[r], "done") /\ Releases({"store", "commit"}) /\ on' = on \ {r}
        /\ stage[r] = "invalidating"
    BY <1>8 DEF Invalidates, Goes, Answers
  <2>2. /\ "done" \in Stages /\ {"store", "commit"} \in SUBSET Locks
        /\ \A l \in Locks : /\ "done" \notin Holds[l]
                            /\ stage[r] \in Holds[l] <=> l \in {"store", "commit"}
    BY <2>1, StageTable, HoldsTable DEF Locks
  <2>3. QED
    BY <2>1, <2>2, ReleaseShape
<1>9. QED
  BY <1>1, <1>2, <1>3, <1>4, <1>5, <1>6, <1>7, <1>8 DEF Runs

-----------------------------------------------------------------------------
(* The invariant. *)

LEMMA InvInit == Init => Inv
<1> SUFFICES ASSUME Init
             PROVE  Inv
    OBVIOUS
<1>1. \A l \in Locks : "gate" \notin Holds[l]
  BY HoldsTable DEF Locks
<1>2. "gate" \in Stages
  BY StageTable
<1>3. TypeOK
  BY <1>2, FS_EmptySet, ServingAssumption DEF Init, TypeOK
<1>4. HoldInv /\ OnInv
  BY <1>1, ServingAssumption DEF Init, HoldInv, OnInv
<1>5. DidInv /\ RefusedWithoutEffect
  BY DEF Init, DidInv, RefusedWithoutEffect
<1>6. QED
  BY <1>3, <1>4, <1>5 DEF Inv

(* Who holds what after a step of that shape. *)
LEMMA HoldStep ==
    ASSUME Inv, NEW r \in Requests, NEW to \in Stages, RunShape(r, to)
    PROVE  HoldInv' /\ OnInv'
<1>1. /\ stage'[r] = to /\ \A x \in Requests \ {r} : stage'[x] = stage[x]
      /\ \A x \in Requests \ {r} : x \in on' <=> x \in on
      /\ r \in on' \/ \A l \in Locks : to \notin Holds[l]
      /\ r \in on /\ None \notin Requests
  BY ServingAssumption DEF RunShape, Inv, TypeOK
<1>2. \A l \in Locks :
         /\ lock'[l] = IF to \in Holds[l] THEN r
                       ELSE IF stage[r] \in Holds[l] THEN None ELSE lock[l]
         /\ to \in Holds[l] => lock[l] \in {None, r}
         /\ \A x \in Requests : lock[l] = x <=> stage[x] \in Holds[l]
  BY DEF RunShape, Inv, HoldInv
<1>3. ASSUME NEW x \in Requests, NEW l \in Locks
      PROVE  lock'[l] = x <=> stage'[x] \in Holds[l]
  <2>1. CASE x = r
    BY <1>1, <1>2, <2>1
  <2>2. CASE x # r
    BY <1>1, <1>2, <2>2
  <2>3. QED
    BY <2>1, <2>2
<1>4. HoldInv'
  BY <1>3 DEF HoldInv
<1>5. OnInv'
  BY <1>1 DEF OnInv, Inv
<1>6. QED
  BY <1>4, <1>5

LEMMA RunsType ==
    ASSUME Inv, NEW r \in Requests, Runs(r), NEW to \in Stages, RunShape(r, to)
    PROVE  TypeOK'
<1>1. route' \in [Requests -> Routes] /\ stage' \in [Requests -> Stages]
      /\ lock' \in [Locks -> Requests \cup {None}]
  BY DEF RunShape, Inv, TypeOK
<1>2. on' \subseteq Requests /\ IsFiniteSet(on') /\ Cardinality(on') <= Workers
  <2>1. on \subseteq Requests /\ IsFiniteSet(on) /\ Cardinality(on) <= Workers
    BY DEF Inv, TypeOK
  <2>2. IsFiniteSet(on \ {r}) /\ Cardinality(on \ {r}) <= Cardinality(on)
        /\ Cardinality(on) \in Nat /\ Cardinality(on \ {r}) \in Nat
    <3>1. Cardinality(on) \in Nat
      BY <2>1, FS_CardinalityType
    <3>2. /\ IsFiniteSet(on \ {r})
          /\ Cardinality(on \ {r}) \in {Cardinality(on) - 1, Cardinality(on)}
      BY <2>1, FS_RemoveElement
    <3>3. Cardinality(on \ {r}) \in Nat
      BY <3>2, FS_CardinalityType
    <3>4. QED
      BY <3>1, <3>2, <3>3
  <2>3. on' = on \/ on' = on \ {r}
    BY DEF RunShape
  <2>4. QED
    BY <2>1, <2>2, <2>3, ServingAssumption
<1>3. claimed' \in BOOLEAN
  BY DEF Runs, Takes, Gate, Charges, Entry, Parses, Paired, Inserts, Peeks, Rechecks, Discards,
     Marks, Invalidates, Inv, TypeOK
<1>4. did' \in [Requests -> SUBSET Deeds]
  <2>1. did' = did \/ \E d \in Deeds : Does(r, d)
    BY DEF Runs, Takes, Gate, Charges, Entry, Parses, Paired, Inserts, Peeks, Rechecks,
       Discards, Marks, Invalidates, Deeds
  <2>2. QED
    BY <2>1 DEF Does, Inv, TypeOK
<1>5. answer' \in [Requests -> DOMAIN Status \cup {None}]
  <2>1. answer' = answer \/ \E a \in DOMAIN Status : Answers(r, a)
    <3>1. CASE Takes(r) \/ Gate(r) \/ Charges(r) \/ Entry(r) \/ Inserts(r) \/ Invalidates(r)
      BY <3>1, StatusTable DEF Takes, Gate, Charges, Entry, Inserts, Invalidates, Stays
    <3>2. CASE Parses(r) \/ Rechecks(r) \/ Discards(r) \/ Marks(r)
      <4>1. \/ answer' = answer \/ Answers(r, "malformed_request")
            \/ Answers(r, "invalid_qr_payload") \/ Answers(r, "already_claimed")
            \/ Answers(r, "internal_error")
        BY <3>2 DEF Parses, Rechecks, Discards, Marks, Stays
      <4>2. QED
        BY <4>1, StatusTable
    <3>3. CASE Paired(r) \/ Peeks(r)
      BY <3>3, StatusTable DEF Paired, Peeks, Stays
    <3>4. QED
      BY <3>1, <3>2, <3>3 DEF Runs
  <2>2. QED
    BY <2>1 DEF Answers, Inv, TypeOK
<1>6. QED
  BY <1>1, <1>2, <1>3, <1>4, <1>5 DEF TypeOK

(* What a step of r does to its own record: nothing of another request changes. *)
LEMMA RunsDid ==
    ASSUME Inv, NEW r \in Requests, Runs(r)
    PROVE  DidInv' /\ RefusedWithoutEffect'
<1> DEFINE Ok(x) ==
        /\ answer'[x] # None => stage'[x] = "done"
        /\ stage'[x] \in {"gate", "limit", "charge"} => did'[x] = {}
        /\ stage'[x] \in {"entry", "body", "parse"} => did'[x] = {"charged"}
        /\ stage'[x] \in {"insert", "peek", "peeking", "commit", "recheck"}
              => did'[x] \subseteq {"charged", "body"}
        /\ answer'[x] # None /\ Status[answer'[x]] \in 400 .. 499 =>
              /\ did'[x] \subseteq {"charged", "body"}
              /\ answer'[x] \in {"non_lan_source", "rate_limited"} => did'[x] = {}
              /\ answer'[x] = "not_locally_claimed" => did'[x] = {"charged"}
<1>1. PICK to \in Stages : RunShape(r, to)
  BY RunsShape
<1>2. /\ stage \in [Requests -> Stages] /\ did \in [Requests -> SUBSET Deeds]
      /\ answer \in [Requests -> DOMAIN Status \cup {None}] /\ stage'[r] = to
      /\ \A x \in Requests \ {r} : stage'[x] = stage[x]
  BY <1>1 DEF RunShape, Inv, TypeOK
<1>3. /\ stage[r] # "done" => answer[r] = None
      /\ stage[r] \in {"gate", "limit", "charge"} => did[r] = {}
      /\ stage[r] \in {"entry", "body", "parse"} => did[r] = {"charged"}
      /\ stage[r] \in {"insert", "peek", "peeking", "commit", "recheck"}
            => did[r] \subseteq {"charged", "body"}
  BY DEF Inv, DidInv
<1>4. ASSUME NEW x \in Requests \ {r}
      PROVE  Ok(x)
  <2>1. did'[x] = did[x] /\ answer'[x] = answer[x]
    BY <1>2 DEF Runs, Takes, Gate, Charges, Entry, Parses, Paired, Inserts, Peeks, Rechecks,
       Discards, Marks, Invalidates, Does, Answers, Stays
  <2>2. QED
    BY <1>2, <2>1 DEF Inv, DidInv, RefusedWithoutEffect
<1>5. Ok(r)
  <2>1. CASE Takes(r)
    <3>1. /\ stage[r] \in DOMAIN Wants /\ stage'[r] = Took[stage[r]]
          /\ did' = did /\ answer' = answer
      BY <1>2, <2>1 DEF Takes, Goes, Stays
    <3>2. stage[r] # "done"
      BY <3>1, WantsTable
    <3>3. QED
      BY <1>3, <3>1, <3>2, WantsTable, TookTable
  <2>2. CASE Gate(r)
    <3>1. stage[r] = "gate" /\ did' = did
      BY <2>2 DEF Gate, Goes
    <3>2. \/ stage'[r] = "done" /\ answer'[r] \in {"ok", "non_lan_source"}
          \/ stage'[r] = "limit" /\ answer'[r] = answer[r]
      BY <1>2, <2>2 DEF Gate, Goes, Answers, Stays
    <3>3. QED
      BY <1>3, <3>1, <3>2, StatusTable
  <2>3. CASE Charges(r)
    <3>1. stage[r] = "charge"
      BY <2>3 DEF Charges, Goes
    <3>2. \/ stage'[r] = "entry" /\ answer'[r] = answer[r] /\ did'[r] = did[r] \cup {"charged"}
          \/ stage'[r] = "done" /\ answer'[r] = "rate_limited" /\ did'[r] = did[r]
      BY <1>2, <2>3 DEF Charges, Goes, Answers, Stays, Does
    <3>3. QED
      BY <1>3, <3>1, <3>2
  <2>4. CASE Entry(r)
    <3>1. stage[r] = "entry" /\ did' = did
      BY <2>4 DEF Entry, Goes
    <3>2. \/ /\ stage'[r] = "done"
             /\ answer'[r] \in {"not_locally_claimed", "already_claimed", "malformed_request"}
          \/ stage'[r] = "body" /\ answer'[r] = answer[r]
      BY <1>2, <2>4 DEF Entry, Goes, Answers
    <3>3. QED
      BY <1>3, <3>1, <3>2
  <2>5. CASE Parses(r)
    <3>1. stage[r] = "parse" /\ did'[r] = did[r] \cup {"body"}
      BY <1>2, <2>5 DEF Parses, Goes, Does
    <3>2. \/ /\ stage'[r] = "done"
             /\ answer'[r] \in {"malformed_request", "invalid_qr_payload"}
          \/ stage'[r] \in {"hub", "insert", "peek"} /\ answer'[r] = answer[r]
      BY <1>2, <2>5 DEF Parses, Goes, Answers, Stays
    <3>3. QED
      BY <1>3, <3>1, <3>2
  <2>6. CASE Paired(r) \/ Inserts(r) \/ Invalidates(r)
    <3>1. stage'[r] = "done" /\ answer'[r] \in {"accepted", "hub_unreachable", "ok"}
      BY <1>2, <2>6 DEF Paired, Inserts, Invalidates, Goes, Answers
    <3>2. QED
      BY <3>1, StatusTable
  <2>7. CASE Peeks(r) \/ Rechecks(r)
    <3>1. stage[r] \in {"peeking", "recheck"} /\ did' = did
      BY <2>7 DEF Peeks, Rechecks, Goes
    <3>2. \/ /\ stage'[r] = "done"
             /\ answer'[r] \in {"challenge_not_found", "malformed_request", "invalid_proof",
                                "already_claimed"}
          \/ stage'[r] \in {"commit", "tpm"} /\ answer'[r] = answer[r]
      BY <1>2, <2>7 DEF Peeks, Rechecks, Goes, Answers, Stays
    <3>3. QED
      BY <1>3, <3>1, <3>2
  <2>8. CASE Discards(r) \/ Marks(r)
    <3>1. stage[r] \in {"discard", "mark"}
      BY <2>8 DEF Discards, Marks, Goes
    <3>2. \/ stage'[r] = "done" /\ answer'[r] = "internal_error"
          \/ stage'[r] \in {"mark", "invalidate"} /\ answer'[r] = answer[r]
      BY <1>2, <2>8 DEF Discards, Marks, Goes, Answers, Stays
    <3>3. QED
      BY <1>3, <3>1, <3>2, StatusTable
  <2>9. QED
    BY <2>1, <2>2, <2>3, <2>4, <2>5, <2>6, <2>7, <2>8 DEF Runs
<1>6. \A x \in Requests : Ok(x)
  BY <1>4, <1>5
<1>7. QED
  BY <1>6 DEF DidInv, RefusedWithoutEffect

LEMMA PicksStep ==
    ASSUME Inv, NEW r \in Requests, Picks(r)
    PROVE  Inv'
<1>1. UNCHANGED <<route, stage, lock, claimed, did, answer>> /\ on' = on \cup {r}
  BY DEF Picks
<1>2. on' \subseteq Requests /\ IsFiniteSet(on') /\ Cardinality(on') <= Workers
  <2>1. /\ on \subseteq Requests /\ IsFiniteSet(on) /\ r \notin on
        /\ Cardinality(on) < Workers /\ Cardinality(on) \in Nat
    BY FS_CardinalityType DEF Picks, Inv, TypeOK
  <2>2. IsFiniteSet(on \cup {r}) /\ Cardinality(on \cup {r}) = Cardinality(on) + 1
    BY <2>1, FS_AddElement
  <2>3. QED
    BY <1>1, <2>1, <2>2, ServingAssumption
<1>3. QED
  BY <1>1, <1>2 DEF Inv, TypeOK, HoldInv, OnInv, DidInv, RefusedWithoutEffect

LEMMA ResumesStep ==
    ASSUME Inv, NEW r \in Requests, Resumes(r)
    PROVE  Inv'
<1>1. /\ UNCHANGED <<route, on, lock, claimed, did, answer>>
      /\ \/ stage[r] = "body" /\ stage' = [stage EXCEPT ![r] = "parse"]
         \/ stage[r] = "hub" /\ stage' = [stage EXCEPT ![r] = "paired"]
  BY DEF Resumes, Awaits
<1>2. stage \in [Requests -> Stages] /\ {"parse", "paired"} \subseteq Stages
  BY StageTable DEF Inv, TypeOK
<1>3. /\ stage' \in [Requests -> Stages]
      /\ \A x \in Requests \ {r} : stage'[x] = stage[x]
      /\ \/ stage[r] = "body" /\ stage'[r] = "parse"
         \/ stage[r] = "hub" /\ stage'[r] = "paired"
  BY <1>1, <1>2
<1>4. \A l \in Locks : {"body", "hub", "parse", "paired"} \cap Holds[l] = {}
  BY HoldsTable DEF Locks
<1>5. TypeOK'
  BY <1>1, <1>3 DEF Inv, TypeOK
<1>6. HoldInv' /\ OnInv'
  BY <1>1, <1>3, <1>4 DEF Inv, HoldInv, OnInv
<1>7. DidInv' /\ RefusedWithoutEffect'
  BY <1>1, <1>3 DEF Inv, DidInv, RefusedWithoutEffect
<1>8. QED
  BY <1>5, <1>6, <1>7 DEF Inv

LEMMA InvStep == Inv /\ [Next]_vars => Inv'
<1> SUFFICES ASSUME Inv, [Next]_vars
             PROVE  Inv'
    OBVIOUS
<1>1. ASSUME NEW r \in Requests, Runs(r)
      PROVE  Inv'
  <2>1. PICK to \in Stages : RunShape(r, to)
    BY <1>1, RunsShape
  <2>2. QED
    BY <1>1, <2>1, HoldStep, RunsType, RunsDid DEF Inv
<1>2. CASE UNCHANGED vars
  BY <1>2 DEF vars, Inv, TypeOK, HoldInv, OnInv, DidInv, RefusedWithoutEffect
<1>3. QED
  BY <1>1, <1>2, PicksStep, ResumesStep DEF Next

(* The inductive invariant: who holds which Mutex, at which stage, on a worker. *)
THEOREM ServingInvariance == Spec => []Inv
BY InvInit, InvStep, PTL DEF Spec

-----------------------------------------------------------------------------
(* The properties. *)

(* No more tasks run than there are workers (main). *)
THEOREM ServingTypes == Spec => []TypeOK
BY ServingInvariance, PTL DEF Inv

(* Locks are taken in one order, and only on a worker. *)
LEMMA HoldersMove == Inv => NoStall
<1> SUFFICES ASSUME Inv, NEW r \in on
             PROVE  \E x \in on : CanMove(x)
    BY DEF NoStall
<1>1. /\ on \subseteq Requests
      /\ \A l \in Locks : lock[l] = None \/ (lock[l] \in on /\ stage[lock[l]] \in Holds[l])
  BY DEF Inv, TypeOK, HoldInv, OnInv
<1>2. \A x : stage[x] \notin DOMAIN Wants => CanMove(x)
  BY DEF CanMove
<1>3. \A l \in {"limiter", "store", "tpm"} :
         stage[lock[l]] \in Holds[l] => stage[lock[l]] \notin DOMAIN Wants
  BY HoldsTable, WantsTable
<1>4. ASSUME NEW l \in {"limiter", "store", "tpm"}, lock[l] # None
      PROVE  \E x \in on : CanMove(x)
  BY <1>1, <1>2, <1>3, <1>4, WantsTable DEF Locks
<1>5. CASE lock["limiter"] = None /\ lock["store"] = None /\ lock["tpm"] = None
  <2>1. \A x : stage[x] # "commit" => CanMove(x)
    BY <1>5, WantsTable DEF CanMove, Wants
  <2>2. CASE lock["commit"] = None
    BY <1>5, <2>2, WantsTable DEF CanMove, Wants
  <2>3. CASE lock["commit"] # None
    <3>1. lock["commit"] \in on /\ stage[lock["commit"]] # "commit"
      BY <1>1, <2>3, HoldsTable DEF Locks
    <3>2. QED
      BY <2>1, <3>1
  <2>4. QED
    BY <2>2, <2>3
<1>6. QED
  BY <1>4, <1>5

(***************************************************************************)
(* The workers are never all stuck on the Mutexes, however many requests   *)
(* and workers there are (local_claim_finish's commit section).            *)
(***************************************************************************)
THEOREM NeverStalls == Spec => []NoStall
BY ServingInvariance, HoldersMove, PTL

(***************************************************************************)
(* A 4xx has had no effect, and the early ones have read no body           *)
(* (onboard_claim, local_claim_challenge, local_claim_finish).             *)
(***************************************************************************)
THEOREM RefusalsAreFree == Spec => []RefusedWithoutEffect
BY ServingInvariance, PTL DEF Inv
=============================================================================
