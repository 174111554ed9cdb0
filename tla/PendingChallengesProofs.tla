----------------------- MODULE PendingChallengesProofs ----------------------
(***************************************************************************)
(* What the store of pending challenges promises for any number of         *)
(* handlers, any capacity, any TTL and any order of clock readings.        *)
(***************************************************************************)
EXTENDS PendingChallenges, FiniteSetTheorems, TLAPS

(* An id is fresh until its insert; what a finish names has been issued. *)
FreshInv ==
    \A h \in Handlers : call[h] # None =>
        /\ call[h].op = "insert" =>
              /\ call[h].id \notin Issued
              /\ \A g \in Handlers \ {h} : call[g] # None => call[g].id # call[h].id
        /\ call[h].op # "insert" => call[h].id \in Issued

(* What a claim has consumed does not come back into the map. *)
SpentInv == \A c \in spent : challenges[c] = None

(* The conjunction that every step preserves. *)
Inv == TypeOK /\ FreshInv /\ SpentInv /\ StoreBounded /\ SurvivesFlood

-----------------------------------------------------------------------------
LEMMA TimesType == 0 .. Horizon \subseteq Nat /\ Times \subseteq Nat
BY StoreAssumption DEF Times

(* The sets of ids are finite, and what is counted is a natural number. *)
LEMMA IdsFinite ==
    ASSUME NEW S, S \subseteq Ids
    PROVE  IsFiniteSet(S) /\ Cardinality(S) \in Nat
BY StoreAssumption, FS_Subset, FS_CardinalityType

LEMMA SmallerSet ==
    ASSUME NEW S, NEW T, S \subseteq T, T \subseteq Ids
    PROVE  Cardinality(S) <= Cardinality(T)
BY IdsFinite, FS_Subset

(* insert keeps unexpired entries only, and leaves room for one more. *)
LEMMA KeptFits ==
    ASSUME TypeOK, StoreBounded, NEW now \in 0 .. Horizon, NEW kept \in Kept(now)
    PROVE  kept \subseteq Unexpired(now) /\ Cardinality(kept) <= MaxPending - 1
<1> DEFINE live == Unexpired(now)
<1>1. live \subseteq Stored /\ Stored \subseteq Ids
  BY DEF Unexpired, Stored
<1>2. Cardinality(live) \in Nat /\ Cardinality(live) <= MaxPending
  <2>1. Cardinality(live) <= Cardinality(Stored)
    BY <1>1, SmallerSet
  <2>2. Cardinality(live) \in Nat /\ Cardinality(Stored) \in Nat
    BY <1>1, IdsFinite
  <2>3. QED
    BY <2>1, <2>2, StoreAssumption DEF StoreBounded
<1>3. CASE Cardinality(live) < MaxPending
  BY <1>2, <1>3, StoreAssumption DEF Kept
<1>4. CASE ~(Cardinality(live) < MaxPending)
  <2>1. PICK c \in live : kept = live \ {c}
    BY <1>4 DEF Kept
  <2>2. Cardinality(kept) = Cardinality(live) - 1
    BY <1>1, <2>1, IdsFinite, FS_RemoveElement
  <2>3. QED
    BY <1>2, <2>1, <2>2, StoreAssumption
<1>5. QED
  BY <1>3, <1>4

(* What insert evicts leaves MAX_PENDING_CHALLENGES - 1 entries that outlive it. *)
LEMMA EvictedIsFirst ==
    ASSUME TypeOK, NEW now \in 0 .. Horizon, NEW kept \in Kept(now),
           NEW x \in Unexpired(now) \ kept
    PROVE  /\ Cardinality(Unexpired(now) \ {x}) >= MaxPending - 1
           /\ \A y \in Unexpired(now) : due[y] >= due[x]
<1> DEFINE live == Unexpired(now)
<1>1. live \subseteq Stored /\ Stored \subseteq Ids
  BY DEF Unexpired, Stored
<1>2. Cardinality(live) \in Nat
  BY <1>1, IdsFinite
<1>3. ~(Cardinality(live) < MaxPending)
  BY DEF Kept
<1>4. PICK c \in live : kept = live \ {c} /\ \A y \in live : challenges[c] <= challenges[y]
  BY <1>3 DEF Kept
<1>5. c = x
  BY <1>4
<1>6. Cardinality(live \ {x}) = Cardinality(live) - 1
  BY <1>1, IdsFinite, FS_RemoveElement
<1>7. Cardinality(live \ {x}) >= MaxPending - 1
  BY <1>2, <1>3, <1>6, StoreAssumption
<1>8. \A y \in live : challenges[y] = due[y] /\ challenges[y] \in Nat
  BY <1>1, TimesType DEF TypeOK, Stored
<1>9. QED
  BY <1>4, <1>5, <1>7, <1>8

-----------------------------------------------------------------------------
LEMMA InvInit == Init => Inv
<1> SUFFICES ASSUME Init
             PROVE  Inv
    OBVIOUS
<1>1. Stored = {} /\ Issued = {}
  BY DEF Init, Stored, Issued
<1>2. TypeOK
  BY <1>1, StoreAssumption DEF Init, TypeOK
<1>3. StoreBounded
  BY <1>1, FS_EmptySet, StoreAssumption DEF StoreBounded
<1>4. QED
  BY <1>1, <1>2, <1>3 DEF Init, Inv, FreshInv, SpentInv, SurvivesFlood

(* The insert: the new entry is fresh, and an evicted one was first to expire. *)
LEMMA InsertStep ==
    ASSUME Inv, NEW h \in Handlers, Inserts(h)
    PROVE  Inv'
<1> DEFINE c == call[h].id
           now == call[h].now
<1>0. TypeOK /\ FreshInv /\ SpentInv /\ StoreBounded /\ SurvivesFlood
  BY DEF Inv
<1>1. /\ call[h] \in Calls /\ c \in Ids /\ now \in 0 .. Horizon /\ now <= clock
      /\ call[h].op = "insert" /\ c \notin Issued
  BY <1>0 DEF Inserts, TypeOK, Calls, FreshInv
<1>2. PICK kept \in Kept(now) :
         challenges' = [x \in Ids |-> IF x = c THEN now + Ttl
                                      ELSE IF x \in kept THEN challenges[x] ELSE None]
  BY DEF Inserts
<1>3. due' = [due EXCEPT ![c] = now + Ttl] /\ clock' = clock /\ spent' = spent
  BY DEF Inserts
<1>4. call' = [call EXCEPT ![h] = None]
  BY DEF Inserts, Returns
<1>5. kept \subseteq Unexpired(now) /\ Cardinality(kept) <= MaxPending - 1
  BY <1>0, <1>1, KeptFits
<1>6. kept \subseteq Stored /\ Stored \subseteq Ids
  BY <1>5 DEF Unexpired, Stored
<1>7. now + Ttl \in Times /\ now + Ttl # None
  BY <1>1, StoreAssumption DEF Times
<1>8. Issued' = Issued \cup {c}
  BY <1>0, <1>1, <1>3, <1>7 DEF Issued, TypeOK
<1>9. Stored' = kept \cup {c}
  BY <1>1, <1>2, <1>6, <1>7 DEF Stored
<1>10. \A x \in Ids \ {c} : due'[x] = due[x]
  BY <1>0, <1>3 DEF TypeOK
<1>11. TypeOK'
  <2>1. challenges' \in [Ids -> Times \cup {None}]
    BY <1>0, <1>2, <1>7 DEF TypeOK
  <2>2. due' \in [Ids -> Times \cup {None}]
    BY <1>0, <1>3, <1>7 DEF TypeOK
  <2>3. call' \in [Handlers -> Calls \cup {None}]
    BY <1>0, <1>4 DEF TypeOK
  <2>4. \A x \in Stored' : challenges'[x] = due'[x]
    BY <1>0, <1>1, <1>2, <1>3, <1>6, <1>9, <1>10 DEF TypeOK
  <2>5. \A g \in Handlers : call'[g] # None => call'[g].now <= clock'
    BY <1>0, <1>3, <1>4 DEF TypeOK
  <2>6. QED
    BY <1>0, <1>3, <1>8, <2>1, <2>2, <2>3, <2>4, <2>5 DEF TypeOK
<1>12. FreshInv'
  <2> SUFFICES ASSUME NEW g \in Handlers, call'[g] # None
               PROVE  /\ call'[g].op = "insert" =>
                           /\ call'[g].id \notin Issued'
                           /\ \A f \in Handlers \ {g} :
                                 call'[f] # None => call'[f].id # call'[g].id
                      /\ call'[g].op # "insert" => call'[g].id \in Issued'
    BY DEF FreshInv
  <2>1. g # h /\ call'[g] = call[g]
    BY <1>0, <1>4 DEF TypeOK
  <2>2. call[g].id # c
    BY <1>0, <1>1, <2>1 DEF FreshInv, Inserts
  <2>3. \A f \in Handlers : call'[f] # None => call'[f] = call[f]
    BY <1>0, <1>4 DEF TypeOK
  <2>4. QED
    BY <1>0, <1>8, <2>1, <2>2, <2>3 DEF FreshInv
<1>13. SpentInv'
  <2>1. c \notin spent
    BY <1>0, <1>1 DEF TypeOK
  <2>2. QED
    BY <1>0, <1>2, <1>3, <1>6, <2>1 DEF SpentInv, Stored, TypeOK, Issued
<1>14. StoreBounded'
  <2>1. IsFiniteSet(kept) /\ Cardinality(kept) \in Nat
    BY <1>6, IdsFinite
  <2>2. Cardinality(kept \cup {c}) \in {Cardinality(kept), Cardinality(kept) + 1}
    BY <2>1, FS_AddElement, Zenon
  <2>3. Cardinality(kept \cup {c}) \in Nat
    BY <1>1, <1>6, IdsFinite
  <2>4. QED
    BY <1>5, <1>9, <2>1, <2>2, <2>3, StoreAssumption DEF StoreBounded
<1>15. SurvivesFlood'
  <2> SUFFICES ASSUME NEW x \in (Issued' \ Stored') \ spent', due'[x] > clock'
               PROVE  Cardinality(OutlivedBy(x)') >= MaxPending - 1
    BY DEF SurvivesFlood
  <2>1. x \in Issued /\ x # c /\ x \in Ids /\ x \notin kept /\ x \notin spent
    BY <1>3, <1>8, <1>9 DEF Issued
  <2>2. due'[x] = due[x] /\ due[x] > clock
    BY <1>3, <1>10, <2>1
  <2>3. OutlivedBy(x)' \subseteq Ids
    BY DEF OutlivedBy, Issued
  <2>4. CASE x \notin Stored
    <3>1. Cardinality(OutlivedBy(x)) >= MaxPending - 1
      BY <1>0, <2>1, <2>2, <2>4 DEF SurvivesFlood
    <3>2. OutlivedBy(x) \subseteq OutlivedBy(x)'
      BY <1>1, <1>8, <1>10, <2>2 DEF OutlivedBy, Issued
    <3>3. OutlivedBy(x) \subseteq Ids
      BY DEF OutlivedBy, Issued
    <3>4. Cardinality(OutlivedBy(x)) <= Cardinality(OutlivedBy(x)')
      BY <2>3, <3>2, SmallerSet
    <3>5. QED
      BY <2>3, <3>1, <3>3, <3>4, IdsFinite, StoreAssumption
  <2>5. CASE x \in Stored
    <3>1. challenges[x] = due[x] /\ due[x] \in Nat /\ clock \in Nat /\ now \in Nat
      BY <1>0, <1>1, <2>1, <2>5, TimesType DEF TypeOK, Stored
    <3>2. x \in Unexpired(now) \ kept
      BY <1>1, <2>1, <2>2, <2>5, <3>1 DEF Unexpired
    <3>3. /\ Cardinality(Unexpired(now) \ {x}) >= MaxPending - 1
          /\ \A y \in Unexpired(now) : due[y] >= due[x]
      BY <1>0, <1>1, <3>2, EvictedIsFirst
    <3>4. Unexpired(now) \subseteq Issued
      BY <1>0, TimesType, StoreAssumption DEF TypeOK, Unexpired, Stored, Issued
    <3>5. Unexpired(now) \ {x} \subseteq OutlivedBy(x)'
      BY <1>1, <1>8, <1>10, <2>2, <3>3, <3>4 DEF OutlivedBy, Issued
    <3>6. Cardinality(Unexpired(now) \ {x}) <= Cardinality(OutlivedBy(x)')
      BY <2>3, <3>5, SmallerSet
    <3>7. Unexpired(now) \ {x} \subseteq Ids
      BY DEF Unexpired, Stored
    <3>8. QED
      BY <2>3, <3>3, <3>6, <3>7, IdsFinite, StoreAssumption
  <2>6. QED
    BY <2>4, <2>5
<1>16. QED
  BY <1>11, <1>12, <1>13, <1>14, <1>15 DEF Inv

(* A step that leaves the map and its history alone: only the types are at stake. *)
LEMMA MapFrame ==
    ASSUME Inv, UNCHANGED <<challenges, due, spent>>, clock \in Nat, clock' \in Nat,
           clock' >= clock
    PROVE  SpentInv' /\ StoreBounded' /\ SurvivesFlood'
<1>1. Stored' = Stored /\ Issued' = Issued /\ \A x : OutlivedBy(x)' = OutlivedBy(x)
  BY DEF Stored, Issued, OutlivedBy
<1>2. SpentInv' /\ StoreBounded'
  BY <1>1 DEF Inv, SpentInv, StoreBounded
<1>3. ASSUME NEW x \in (Issued' \ Stored') \ spent', due'[x] > clock'
      PROVE  Cardinality(OutlivedBy(x)') >= MaxPending - 1
  <2>1. x \in (Issued \ Stored) \ spent /\ due[x] \in Nat
    BY <1>1, <1>3, TimesType DEF Inv, TypeOK, Issued
  <2>2. due[x] > clock
    BY <1>3, <2>1
  <2>3. QED
    BY <1>1, <2>1, <2>2 DEF Inv, SurvivesFlood
<1>4. QED
  BY <1>2, <1>3 DEF SurvivesFlood

(* The consumed entry leaves the map. *)
LEMMA InvalidateStep ==
    ASSUME Inv, NEW h \in Handlers, Invalidates(h)
    PROVE  Inv'
<1> DEFINE c == call[h].id
<1>0. TypeOK /\ FreshInv /\ SpentInv /\ StoreBounded /\ SurvivesFlood
  BY DEF Inv
<1>1. /\ c \in Ids /\ c \in Issued
      /\ challenges' = [challenges EXCEPT ![c] = None]
      /\ spent' = spent \cup {c} /\ clock' = clock /\ due' = due
      /\ call' = [call EXCEPT ![h] = None]
  BY <1>0 DEF Invalidates, Returns, TypeOK, Calls, FreshInv
<1>2. Issued' = Issued /\ Stored' = Stored \ {c} /\ \A x : OutlivedBy(x)' = OutlivedBy(x)
  BY <1>0, <1>1 DEF Issued, Stored, OutlivedBy, TypeOK
<1>3. TypeOK'
  BY <1>0, <1>1, <1>2 DEF TypeOK, Stored
<1>4. FreshInv'
  <2>1. \A g \in Handlers : call'[g] # None => call'[g] = call[g]
    BY <1>0, <1>1 DEF TypeOK
  <2>2. QED
    BY <1>0, <1>2, <2>1 DEF FreshInv
<1>5. SpentInv'
  BY <1>0, <1>1 DEF SpentInv, TypeOK, Issued
<1>6. StoreBounded'
  <2>1. Cardinality(Stored \ {c}) <= Cardinality(Stored)
    BY SmallerSet DEF Stored
  <2>2. Cardinality(Stored \ {c}) \in Nat /\ Cardinality(Stored) \in Nat
    BY IdsFinite DEF Stored
  <2>3. QED
    BY <1>0, <1>2, <2>1, <2>2, StoreAssumption DEF StoreBounded
<1>7. SurvivesFlood'
  BY <1>0, <1>1, <1>2 DEF SurvivesFlood
<1>8. QED
  BY <1>3, <1>4, <1>5, <1>6, <1>7 DEF Inv

LEMMA InvStep == Inv /\ [Next]_vars => Inv'
<1> SUFFICES ASSUME Inv, [Next]_vars
             PROVE  Inv'
    OBVIOUS
<1>0. TypeOK /\ FreshInv /\ clock \in Nat
  BY TimesType DEF Inv, TypeOK
<1>1. CASE Tick
  <2>1. clock' \in 0 .. Horizon /\ clock' > clock /\ clock' \in Nat
    BY <1>0, <1>1, StoreAssumption DEF Tick, TypeOK
  <2>2. Stored' = Stored /\ Issued' = Issued
    BY <1>1 DEF Tick, Stored, Issued
  <2>3. \A g \in Handlers : call[g] # None => call[g].now \in Nat
    BY <1>0, TimesType DEF TypeOK, Calls
  <2>4. TypeOK'
    BY <1>0, <1>1, <2>1, <2>2, <2>3 DEF Tick, TypeOK
  <2>5. FreshInv'
    BY <1>0, <1>1, <2>2 DEF Tick, FreshInv
  <2>6. QED
    BY <1>0, <1>1, <2>1, <2>4, <2>5, MapFrame DEF Tick, Inv
<1>2. ASSUME NEW h \in Handlers, NEW op \in Ops, NEW c \in Ids, Runs(h, op, c),
             op = "insert" => /\ c \notin Issued
                              /\ \A g \in Handlers : call[g] # None => call[g].id # c,
             op # "insert" => c \in Issued
      PROVE  Inv'
  <2>1. /\ call' = [call EXCEPT ![h] = [op |-> op, id |-> c, now |-> clock]]
        /\ UNCHANGED <<clock, challenges, due, spent>>
    BY <1>2 DEF Runs
  <2>2. Stored' = Stored /\ Issued' = Issued
    BY <2>1 DEF Stored, Issued
  <2>3. [op |-> op, id |-> c, now |-> clock] \in Calls
    BY <1>0 DEF Calls, TypeOK
  <2>4. TypeOK'
    BY <1>0, <2>1, <2>2, <2>3 DEF TypeOK
  <2>5. FreshInv'
    BY <1>0, <1>2, <2>1, <2>2 DEF FreshInv, TypeOK
  <2>6. QED
    BY <1>0, <2>1, <2>4, <2>5, MapFrame DEF Inv
<1>3. ASSUME NEW h \in Handlers, ChallengeReadsClock(h)
      PROVE  Inv'
  BY <1>2, <1>3 DEF ChallengeReadsClock, Ops
<1>4. ASSUME NEW h \in Handlers, FinishReadsClock(h)
      PROVE  Inv'
  BY <1>2, <1>4 DEF FinishReadsClock, Ops, Issued
<1>5. ASSUME NEW h \in Handlers, PeekFinds(h)
      PROVE  Inv'
  <2>1. /\ call' = [call EXCEPT ![h].op = "verify"] /\ call[h] # None
        /\ call[h].op = "peek" /\ UNCHANGED <<clock, challenges, due, spent>>
    BY <1>5 DEF PeekFinds
  <2>2. Stored' = Stored /\ Issued' = Issued
    BY <2>1 DEF Stored, Issued
  <2>3. TypeOK'
    BY <1>0, <2>1, <2>2 DEF TypeOK, Calls, Ops
  <2>4. \A g \in Handlers : /\ call'[g] # None <=> call[g] # None
                            /\ call[g] # None =>
                                 /\ call'[g].id = call[g].id
                                 /\ call'[g].op = "insert" <=> call[g].op = "insert"
    BY <1>0, <2>1, StoreAssumption DEF TypeOK, Calls, Ops
  <2>5. FreshInv'
    BY <1>0, <2>2, <2>4 DEF FreshInv
  <2>6. QED
    BY <1>0, <2>1, <2>3, <2>5, MapFrame DEF Inv
<1>6. ASSUME NEW h \in Handlers, PeekMisses(h) \/ Refuses(h)
      PROVE  Inv'
  <2>1. call' = [call EXCEPT ![h] = None] /\ UNCHANGED <<clock, challenges, due, spent>>
    BY <1>6 DEF PeekMisses, Refuses, Returns
  <2>2. Stored' = Stored /\ Issued' = Issued
    BY <2>1 DEF Stored, Issued
  <2>3. TypeOK'
    BY <1>0, <2>1, <2>2 DEF TypeOK
  <2>4. \A g \in Handlers : call'[g] # None => call'[g] = call[g]
    BY <1>0, <2>1 DEF TypeOK
  <2>5. FreshInv'
    BY <1>0, <2>2, <2>4 DEF FreshInv
  <2>6. QED
    BY <1>0, <2>1, <2>3, <2>5, MapFrame DEF Inv
<1>7. CASE UNCHANGED vars
  <2>1. Stored' = Stored /\ Issued' = Issued
    BY <1>7 DEF vars, Stored, Issued
  <2>2. TypeOK' /\ FreshInv'
    BY <1>0, <1>7, <2>1 DEF vars, TypeOK, FreshInv
  <2>3. QED
    BY <1>0, <1>7, <2>2, MapFrame DEF vars, Inv
<1>8. QED
  BY <1>1, <1>3, <1>4, <1>5, <1>6, <1>7, InsertStep, InvalidateStep DEF Next

(* The inductive invariant of the map, its calls and its history (insert). *)
THEOREM StoreInvariance == Spec => []Inv
BY InvInit, InvStep, PTL DEF Spec

(* The map holds challenges that were issued, each until the time it was given. *)
THEOREM StoreTypes == Spec => []TypeOK
<1>1. Inv => TypeOK
  BY DEF Inv
<1>2. QED
  BY <1>1, StoreInvariance, PTL

(***************************************************************************)
(* The map stays within MAX_PENDING_CHALLENGES, whatever has expired       *)
(* without having been swept (PendingChallengeStore::insert).              *)
(***************************************************************************)
THEOREM MapIsBounded == Spec => []StoreBounded
<1>1. Inv => StoreBounded
  BY DEF Inv
<1>2. QED
  BY <1>1, StoreInvariance, PTL

(***************************************************************************)
(* A live challenge is lost only to a map full of challenges that outlive  *)
(* it, in whatever order the clock readings reach the map.                 *)
(***************************************************************************)
THEOREM FloodHasToFill == Spec => []SurvivesFlood
<1>1. Inv => SurvivesFlood
  BY DEF Inv
<1>2. QED
  BY <1>1, StoreInvariance, PTL

(* A finish goes on only with a challenge that is alive and not consumed. *)
THEOREM AcceptedIsLive == Spec => PeekFindsLive
<1> DEFINE Live == \A h \in Handlers :
                      call[h] # None /\ call[h].op = "peek"
                        /\ call'[h] = [call[h] EXCEPT !.op = "verify"] =>
                            /\ due[call[h].id] > call[h].now
                            /\ call[h].id \notin spent
<1>1. ASSUME Inv, [Next]_vars, NEW h \in Handlers, call[h] # None, call[h].op = "peek",
             call'[h] = [call[h] EXCEPT !.op = "verify"]
      PROVE  due[call[h].id] > call[h].now /\ call[h].id \notin spent
  <2>1. call[h] \in Calls /\ call'[h].op = "verify" /\ call'[h] # None
    BY <1>1, StoreAssumption DEF Inv, TypeOK, Calls, Ops
  <2>2. PeekFinds(h)
    BY <1>1, <2>1 DEF Next, vars, Tick, ChallengeReadsClock, Inserts, FinishReadsClock,
       PeekFinds, PeekMisses, Refuses, Invalidates, Runs, Returns, Inv, TypeOK
  <2>3. call[h].id \in Stored /\ challenges[call[h].id] > call[h].now
    BY <2>2 DEF PeekFinds, Unexpired
  <2>4. challenges[call[h].id] = due[call[h].id]
    BY <1>1, <2>3 DEF Inv, TypeOK
  <2>5. call[h].id \notin spent
    BY <1>1, <2>3 DEF Inv, SpentInv, Stored
  <2>6. QED
    BY <2>3, <2>4, <2>5
<1>2. Inv /\ [Next]_vars => [Live]_vars
  BY <1>1
<1>3. QED
  BY <1>2, StoreInvariance, PTL DEF Spec, PeekFindsLive
=============================================================================
