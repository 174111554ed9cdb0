-------------------------- MODULE ClaimAgentProofs --------------------------
(***************************************************************************)
(* Proofs about ClaimAgent for every number of requests and joins, every   *)
(* set of owners, devices, secrets and challenges, and every set of faults.*)
(***************************************************************************)
EXTENDS ClaimAgentInv, TLAPS

(* What a step leaves alone keeps its shape. *)
LEMMA StoreFrame == StoreTypeOK /\ UNCHANGED <<diskVars, lockoutAuth>> => StoreTypeOK'
BY DEF StoreTypeOK, diskVars

LEMMA BootFrame == BootTypeOK /\ UNCHANGED <<proc, bootVars>> => BootTypeOK'
BY DEF BootTypeOK, bootVars

LEMMA ClaimFrame == ClaimTypeOK /\ UNCHANGED claimVars => ClaimTypeOK'
BY DEF ClaimTypeOK, claimVars

LEMMA JoinFrame == JoinTypeOK /\ UNCHANGED joinVars => JoinTypeOK'
BY DEF JoinTypeOK, joinVars

(* The steps of main() keep the shape of what they write. *)
LEMMA BootTypeStep ==
    StoreTypeOK /\ BootTypeOK /\ Boot => StoreTypeOK' /\ BootTypeOK'
<1> SUFFICES ASSUME StoreTypeOK, BootTypeOK, Boot
             PROVE  StoreTypeOK' /\ BootTypeOK'
    OBVIOUS
<1> USE DEF BootTypeOK, ProcStates
<1>1. CASE BootReadClaimed
  <2>1. StoreTypeOK'
    BY <1>1, StoreFrame DEF BootReadClaimed
  <2>2. alreadyClaimed' \in BOOLEAN
    BY <1>1 DEF BootReadClaimed, IsClaimed, StoreTypeOK, Markers
  <2>3. QED
    BY <1>1, <2>1, <2>2 DEF BootReadClaimed
<1>2. CASE BootLoadSecret
  <2>1. StoreTypeOK'
    BY <1>2, StoreFrame DEF BootLoadSecret
  <2>2. QED
    BY <1>2, <2>1 DEF BootLoadSecret, StoreTypeOK
<1>3. CASE BootCreateSecret
  <2>1. PICK s \in Secrets, outcome \in WriteOutcomes :
          /\ secretFile' = Written(secretFile, s, outcome)
          /\ IF outcome = "ok"
             THEN /\ memSecret' = s
                  /\ proc' = "display"
                  /\ UNCHANGED alreadyClaimed
             ELSE ProcessEnds
    BY <1>3 DEF BootCreateSecret, FreshSecrets
  <2>2. StoreTypeOK'
    BY <1>3, <2>1 DEF BootCreateSecret, StoreTypeOK, Written
  <2>3. alreadyClaimed' \in BOOLEAN
    <3>1. CASE outcome = "ok"
      BY <2>1, <3>1
    <3>2. CASE outcome # "ok"
      BY <2>1, <3>2 DEF ProcessEnds
    <3>3. QED
      BY <3>1, <3>2
  <2>4. proc' \in ProcStates /\ memSecret' \in Secrets \cup {None}
    BY <2>1 DEF ProcessEnds
  <2>5. screen' = screen /\ displayed' \in BOOLEAN
    BY <1>3, <2>1 DEF BootCreateSecret, ProcessEnds
  <2>6. QED
    BY <2>2, <2>3, <2>4, <2>5
<1>4. CASE BootDisplay
  <2>1. StoreTypeOK'
    BY <1>4, StoreFrame DEF BootDisplay
  <2>2. QED
    BY <1>4, <2>1 DEF BootDisplay, DisplayClaimCode
<1>5. CASE BootServe
  <2>1. StoreTypeOK'
    BY <1>5, StoreFrame DEF BootServe
  <2>2. QED
    BY <1>5, <2>1 DEF BootServe, bootVars
<1>6. CASE BootNoNetwork
  <2>1. StoreTypeOK'
    BY <1>6, StoreFrame DEF BootNoNetwork
  <2>2. QED
    BY <1>6, <2>1 DEF BootNoNetwork, ProcessEnds
<1>7. QED
  BY <1>1, <1>2, <1>3, <1>4, <1>5, <1>6 DEF Boot

(* The steps of the local claim's handlers keep the shape of what they write. *)
LEMMA ClaimTypeStep ==
    ASSUME NEW r \in Requests, StoreTypeOK, ClaimTypeOK, ClaimStep(r)
    PROVE  StoreTypeOK' /\ ClaimTypeOK'
<1> USE DEF ClaimTypeOK, Steps, CriticalSteps, Answered, GoesTo,
            ReleasedAndAnswered
<1>0. NoReq \in Reqs
  BY DEF NoReq, Reqs
<1>1. CASE ChallengeArrives(r)
  BY <1>1, StoreFrame DEF ChallengeArrives
<1>2. CASE ChallengeRefused(r)
  BY <1>0, <1>2, StoreFrame DEF ChallengeRefused
<1>3. CASE ChallengeIssued(r)
  <2>1. pending' \subseteq Challenges
    BY <1>3 DEF ChallengeIssued, Inserted
  <2>2. QED
    BY <1>0, <1>3, <2>1, StoreFrame DEF ChallengeIssued
<1>4. CASE FinishArrives(r)
  BY <1>4, StoreFrame DEF FinishArrives
<1>5. CASE FinishRefused(r)
  BY <1>0, <1>5, StoreFrame DEF FinishRefused
<1>6. CASE FinishVerified(r)
  BY <1>6, StoreFrame DEF FinishVerified, Reqs
<1>7. CASE FinishLocks(r)
  BY <1>7, StoreFrame DEF FinishLocks
<1>8. CASE FinishRechecks(r)
  BY <1>0, <1>8, StoreFrame DEF FinishRechecks
<1>9. CASE FinishNoTpm(r)
  BY <1>9, StoreFrame DEF FinishNoTpm, Reqs, Custody
<1>10. CASE FinishDiscardsLockout(r)
  <2>1. StoreTypeOK'
    BY <1>10 DEF FinishDiscardsLockout, StoreTypeOK, diskVars
  <2>2. QED
    BY <1>10, <2>1 DEF FinishDiscardsLockout, Reqs, Custody
<1>11. CASE FinishTpmFails(r)
  <2>1. StoreTypeOK'
    BY <1>11 DEF FinishTpmFails, StoreTypeOK, diskVars
  <2>2. QED
    BY <1>0, <1>11, <2>1 DEF FinishTpmFails
<1>12. CASE FinishMarks(r)
  <2>1. PICK outcome \in WriteOutcomes :
          /\ marker' = Written(marker, LocalMarker(req[r].owner), outcome)
          /\ IF outcome = "ok"
             THEN GoesTo(r, "delete") /\ UNCHANGED <<lock, req>>
             ELSE ReleasedAndAnswered(r)
    BY <1>12 DEF FinishMarks
  <2>2. marker' \in Markers
    BY <1>12, <2>1 DEF FinishMarks, StoreTypeOK, Markers, Written, LocalMarker
  <2>3. StoreTypeOK'
    BY <1>12, <2>2 DEF FinishMarks, StoreTypeOK
  <2>4. ClaimTypeOK'
    BY <1>0, <1>12, <2>1 DEF FinishMarks, Written
  <2>5. QED
    BY <2>3, <2>4
<1>13. CASE FinishDeletesSecret(r)
  <2>1. StoreTypeOK'
    BY <1>13 DEF FinishDeletesSecret, StoreTypeOK
  <2>2. QED
    BY <1>13, <2>1 DEF FinishDeletesSecret
<1>14. CASE FinishBinds(r)
  <2>1. StoreTypeOK'
    BY <1>14 DEF FinishBinds, StoreTypeOK, Written, Bindings, NewActiveLocal, Reqs
  <2>2. QED
    BY <1>14, <2>1 DEF FinishBinds
<1>15. CASE FinishUnlocks(r)
  BY <1>15, StoreFrame DEF FinishUnlocks
<1>16. CASE FinishResponds(r)
  BY <1>0, <1>16, StoreFrame DEF FinishResponds
<1>17. QED
  BY <1>1, <1>2, <1>3, <1>4, <1>5, <1>6, <1>7, <1>8, <1>9, <1>10, <1>11, <1>12,
     <1>13, <1>14, <1>15, <1>16 DEF ClaimStep, Commit

(* The steps of a hub join keep the shape of what they write. *)
LEMMA JoinTypeStep ==
    ASSUME NEW j \in Joins, StoreTypeOK, JoinTypeOK, JoinStep(j)
    PROVE  StoreTypeOK' /\ JoinTypeOK'
<1> USE DEF JoinTypeOK, JoinSteps, RecordingSteps, JoinEnds, JoinGoesTo
<1>0. NoBinding \in Bindings
  BY DEF NoBinding, Bindings
<1>1. CASE JoinArrives(j)
  BY <1>1, StoreFrame DEF JoinArrives
<1>2. CASE JoinUnreachable(j)
  BY <1>0, <1>2, StoreFrame DEF JoinUnreachable
<1>3. CASE JoinInitiated(j)
  BY <1>3, StoreFrame DEF JoinInitiated
<1>4. CASE JoinDeclined(j)
  BY <1>0, <1>4, StoreFrame DEF JoinDeclined
<1>5. CASE JoinApproved(j)
  BY <1>5, StoreFrame DEF JoinApproved
<1>6. CASE JoinMarks(j)
  <2>1. StoreTypeOK'
    BY <1>6 DEF JoinMarks, StoreTypeOK, Written, Markers, HubMarker
  <2>2. QED
    BY <1>0, <1>6, <2>1 DEF JoinMarks
<1>7. CASE JoinPersistsCreds(j)
  <2>1. StoreTypeOK'
    BY <1>7 DEF JoinPersistsCreds, StoreTypeOK, Written
  <2>2. QED
    BY <1>0, <1>7, <2>1 DEF JoinPersistsCreds
<1>8. CASE JoinLoadsBinding(j)
  <2>1. RecordHubJoin(binding, jdev[j]) \in Bindings
    BY DEF RecordHubJoin, StoreTypeOK, Bindings
  <2>2. QED
    BY <1>8, <2>1, StoreFrame DEF JoinLoadsBinding
<1>9. CASE JoinWithoutBinding(j)
  BY <1>0, <1>9, StoreFrame DEF JoinWithoutBinding
<1>10. CASE JoinBinds(j)
  <2>1. StoreTypeOK'
    BY <1>10 DEF JoinBinds, StoreTypeOK, Written
  <2>2. QED
    BY <1>0, <1>10, <2>1 DEF JoinBinds
<1>11. QED
  BY <1>1, <1>2, <1>3, <1>4, <1>5, <1>6, <1>7, <1>8, <1>9, <1>10
  DEF JoinStep, Background

(* Every step keeps the shape of every file, register, handler and join. *)
LEMMA TypeStep == TypeOK /\ [Next]_vars => TypeOK'
<1> SUFFICES ASSUME TypeOK, [Next]_vars
             PROVE  TypeOK'
    OBVIOUS
<1> USE DEF TypeOK
<1>1. CASE Boot /\ UNCHANGED <<claimVars, joinVars>>
  BY <1>1, BootTypeStep, ClaimFrame, JoinFrame
<1>2. CASE ChallengeExpires /\ UNCHANGED joinVars
  <2>1. ClaimTypeOK'
    BY <1>2 DEF ChallengeExpires, ClaimTypeOK
  <2>2. QED
    BY <1>2, <2>1, StoreFrame, BootFrame, JoinFrame DEF ChallengeExpires
<1>3. ASSUME NEW r \in Requests, ClaimStep(r), UNCHANGED joinVars
      PROVE  TypeOK'
  <2>1. UNCHANGED <<proc, bootVars>>
    BY <1>3 DEF ClaimStep, Commit, ChallengeArrives, ChallengeRefused, ChallengeIssued,
                FinishArrives, FinishRefused, FinishVerified, FinishLocks, FinishRechecks,
                FinishNoTpm, FinishDiscardsLockout, FinishTpmFails, FinishMarks,
                FinishDeletesSecret, FinishBinds, FinishUnlocks, FinishResponds
  <2>2. QED
    BY <1>3, <2>1, ClaimTypeStep, BootFrame, JoinFrame
<1>4. ASSUME NEW j \in Joins, JoinStep(j), UNCHANGED claimVars
      PROVE  TypeOK'
  <2>1. UNCHANGED <<proc, bootVars>>
    BY <1>4 DEF JoinStep, Background, JoinArrives, JoinUnreachable, JoinInitiated,
                JoinDeclined, JoinApproved, JoinMarks, JoinPersistsCreds,
                JoinLoadsBinding, JoinWithoutBinding, JoinBinds
  <2>2. QED
    BY <1>4, <2>1, JoinTypeStep, BootFrame, ClaimFrame
<1>5. CASE Crash
  <2>1. StoreTypeOK'
    BY <1>5, StoreFrame DEF Crash
  <2>2. BootTypeOK'
    BY <1>5 DEF Crash, ProcessEnds, BootTypeOK, ProcStates
  <2>3. ClaimTypeOK'
    BY <1>5 DEF Crash, ClaimTypeOK, Steps, CriticalSteps, NoReq, Reqs
  <2>4. JoinTypeOK'
    BY <1>5 DEF Crash, JoinTypeOK, JoinSteps, NoBinding, Bindings
  <2>5. QED
    BY <2>1, <2>2, <2>3, <2>4
<1>6. CASE UNCHANGED vars
  BY <1>6, StoreFrame, BootFrame, ClaimFrame, JoinFrame DEF vars
<1>7. QED
  BY <1>1, <1>2, <1>3, <1>4, <1>5, <1>6 DEF Next

(* The initial state has its shape. *)
LEMMA TypeInit == Init => TypeOK
<1> SUFFICES ASSUME Init
             PROVE  TypeOK
    OBVIOUS
<1>1. StoreTypeOK
  BY DEF Init, StoreInit, StoreTypeOK, Markers, NoMarker, Bindings, NoBinding
<1>2. BootTypeOK
  BY DEF Init, BootInit, BootTypeOK, ProcStates
<1>3. ClaimTypeOK
  BY DEF Init, ClaimInit, ClaimTypeOK, Steps, CriticalSteps, NoReq, Reqs
<1>4. JoinTypeOK
  BY DEF Init, JoinInit, JoinTypeOK, JoinSteps, NoBinding, Bindings
<1>5. QED
  BY <1>1, <1>2, <1>3, <1>4 DEF TypeOK

(***************************************************************************)
(* Type correctness: every file, register, handler and join of the agent   *)
(* always has its shape (AgentState, Startup, LocalClaim, HubJoin).        *)
(***************************************************************************)
THEOREM TypeCorrect == Spec => []TypeOK
BY TypeInit, TypeStep, PTL DEF Spec

-----------------------------------------------------------------------------
(* The lock: a handler takes it to enter its commit and drops it to leave. *)
LEMMA LockClaimStep ==
    ASSUME NEW r \in Requests, ClaimTypeOK, LockInv, ClaimStep(r)
    PROVE  LockInv'
<1> None \notin Requests
  BY ClaimAssumption
<1> USE DEF LockInv, ClaimTypeOK, CriticalSteps, Answered, ReleasedAndAnswered,
            GoesTo
<1>1. CASE ChallengeArrives(r)
  BY <1>1 DEF ChallengeArrives
<1>2. CASE ChallengeRefused(r)
  BY <1>2 DEF ChallengeRefused
<1>3. CASE ChallengeIssued(r)
  BY <1>3 DEF ChallengeIssued
<1>4. CASE FinishArrives(r)
  BY <1>4 DEF FinishArrives
<1>5. CASE FinishRefused(r)
  BY <1>5 DEF FinishRefused
<1>6. CASE FinishVerified(r)
  BY <1>6 DEF FinishVerified
<1>7. CASE FinishLocks(r)
  BY <1>7 DEF FinishLocks
<1>8. CASE FinishRechecks(r)
  BY <1>8 DEF FinishRechecks
<1>9. CASE FinishNoTpm(r)
  BY <1>9 DEF FinishNoTpm
<1>10. CASE FinishDiscardsLockout(r)
  BY <1>10 DEF FinishDiscardsLockout
<1>11. CASE FinishTpmFails(r)
  BY <1>11 DEF FinishTpmFails
<1>12. CASE FinishMarks(r)
  BY <1>12 DEF FinishMarks
<1>13. CASE FinishDeletesSecret(r)
  BY <1>13 DEF FinishDeletesSecret
<1>14. CASE FinishBinds(r)
  BY <1>14 DEF FinishBinds
<1>15. CASE FinishUnlocks(r)
  BY <1>15 DEF FinishUnlocks
<1>16. CASE FinishResponds(r)
  BY <1>16 DEF FinishResponds
<1>17. QED
  BY <1>1, <1>2, <1>3, <1>4, <1>5, <1>6, <1>7, <1>8, <1>9, <1>10, <1>11, <1>12,
     <1>13, <1>14, <1>15, <1>16 DEF ClaimStep, Commit

(* A claim's step agrees with what it knows about the marker. *)
LEMMA ClaimedClaimStep ==
    ASSUME NEW r \in Requests, TypeOK, LockInv, ClaimedInv, ClaimStep(r), UNCHANGED joinVars
    PROVE  ClaimedInv'
<1> USE DEF TypeOK, StoreTypeOK, ClaimTypeOK, LockInv, ClaimedInv, IsClaimed,
            CriticalSteps, CommittedSteps, Answered, ReleasedAndAnswered,
            GoesTo, diskVars, joinVars
<1>1. CASE ChallengeArrives(r)
  BY <1>1 DEF ChallengeArrives
<1>2. CASE ChallengeRefused(r)
  BY <1>2 DEF ChallengeRefused
<1>3. CASE ChallengeIssued(r)
  BY <1>3 DEF ChallengeIssued
<1>4. CASE FinishArrives(r)
  BY <1>4 DEF FinishArrives
<1>5. CASE FinishRefused(r)
  BY <1>5 DEF FinishRefused
<1>6. CASE FinishVerified(r)
  BY <1>6 DEF FinishVerified
<1>7. CASE FinishLocks(r)
  BY <1>7 DEF FinishLocks
<1>8. CASE FinishRechecks(r)
  BY <1>8 DEF FinishRechecks
<1>9. CASE FinishNoTpm(r)
  BY <1>9 DEF FinishNoTpm
<1>10. CASE FinishDiscardsLockout(r)
  BY <1>10 DEF FinishDiscardsLockout
<1>11. CASE FinishTpmFails(r)
  BY <1>11 DEF FinishTpmFails
<1>12. CASE FinishMarks(r)
  BY <1>12, NoneAssumption DEF FinishMarks, Written, LocalMarker
<1>13. CASE FinishDeletesSecret(r)
  BY <1>13 DEF FinishDeletesSecret
<1>14. CASE FinishBinds(r)
  BY <1>14 DEF FinishBinds, Written, NewActiveLocal
<1>15. CASE FinishUnlocks(r)
  BY <1>15 DEF FinishUnlocks
<1>16. CASE FinishResponds(r)
  BY <1>16 DEF FinishResponds
<1>17. QED
  BY <1>1, <1>2, <1>3, <1>4, <1>5, <1>6, <1>7, <1>8, <1>9, <1>10, <1>11, <1>12,
     <1>13, <1>14, <1>15, <1>16 DEF ClaimStep, Commit

(* A join runs on a claimed box and never takes the marker away. *)
LEMMA ClaimedJoinStep ==
    ASSUME NEW j \in Joins, TypeOK, ClaimedInv, JoinStep(j), UNCHANGED claimVars
    PROVE  ClaimedInv'
<1> USE DEF TypeOK, JoinTypeOK, ClaimedInv, IsClaimed, JoinEnds, JoinGoesTo,
            diskVars, claimVars
<1>1. CASE JoinArrives(j)
  BY <1>1 DEF JoinArrives
<1>2. CASE JoinUnreachable(j)
  BY <1>2 DEF JoinUnreachable
<1>3. CASE JoinInitiated(j)
  BY <1>3 DEF JoinInitiated
<1>4. CASE JoinDeclined(j)
  BY <1>4 DEF JoinDeclined
<1>5. CASE JoinApproved(j)
  BY <1>5 DEF JoinApproved
<1>6. CASE JoinMarks(j)
  BY <1>6 DEF JoinMarks, Written, HubMarker
<1>7. CASE JoinPersistsCreds(j)
  BY <1>7 DEF JoinPersistsCreds, Written
<1>8. CASE JoinLoadsBinding(j)
  BY <1>8 DEF JoinLoadsBinding
<1>9. CASE JoinWithoutBinding(j)
  BY <1>9 DEF JoinWithoutBinding
<1>10. CASE JoinBinds(j)
  BY <1>10 DEF JoinBinds, Written
<1>11. QED
  BY <1>1, <1>2, <1>3, <1>4, <1>5, <1>6, <1>7, <1>8, <1>9, <1>10 DEF JoinStep, Background

(* The binding is created once, by the claim that wrote the marker. *)
LEMMA BindingClaimStep ==
    ASSUME NEW r \in Requests, TypeOK, LockInv, ClaimedInv, BindingInv, ClaimStep(r),
           UNCHANGED joinVars
    PROVE  BindingInv'
<1> USE DEF TypeOK, StoreTypeOK, ClaimTypeOK, LockInv, ClaimedInv, BindingInv,
            IsClaimed, CriticalSteps, CommittedSteps, Answered,
            ReleasedAndAnswered, GoesTo, diskVars, joinVars
<1>1. CASE ChallengeArrives(r)
  BY <1>1 DEF ChallengeArrives
<1>2. CASE ChallengeRefused(r)
  BY <1>2 DEF ChallengeRefused
<1>3. CASE ChallengeIssued(r)
  BY <1>3 DEF ChallengeIssued
<1>4. CASE FinishArrives(r)
  BY <1>4 DEF FinishArrives
<1>5. CASE FinishRefused(r)
  BY <1>5 DEF FinishRefused
<1>6. CASE FinishVerified(r)
  BY <1>6 DEF FinishVerified
<1>7. CASE FinishLocks(r)
  BY <1>7 DEF FinishLocks
<1>8. CASE FinishRechecks(r)
  BY <1>8 DEF FinishRechecks
<1>9. CASE FinishNoTpm(r)
  BY <1>9 DEF FinishNoTpm
<1>10. CASE FinishDiscardsLockout(r)
  BY <1>10 DEF FinishDiscardsLockout
<1>11. CASE FinishTpmFails(r)
  BY <1>11 DEF FinishTpmFails
<1>12. CASE FinishMarks(r)
  BY <1>12 DEF FinishMarks
<1>13. CASE FinishDeletesSecret(r)
  BY <1>13 DEF FinishDeletesSecret
<1>14. CASE FinishBinds(r)
  BY <1>14 DEF FinishBinds, Written, NewActiveLocal
<1>15. CASE FinishUnlocks(r)
  BY <1>15 DEF FinishUnlocks
<1>16. CASE FinishResponds(r)
  BY <1>16 DEF FinishResponds
<1>17. QED
  BY <1>1, <1>2, <1>3, <1>4, <1>5, <1>6, <1>7, <1>8, <1>9, <1>10, <1>11, <1>12,
     <1>13, <1>14, <1>15, <1>16 DEF ClaimStep, Commit

(* A join writes back the owner and the custody it has read. *)
LEMMA BindingJoinStep ==
    ASSUME NEW j \in Joins, TypeOK, ClaimedInv, BindingInv, JoinStep(j), UNCHANGED claimVars
    PROVE  BindingInv'
<1> USE DEF TypeOK, JoinTypeOK, BindingInv, JoinEnds, JoinGoesTo, diskVars,
            claimVars
<1>1. CASE JoinArrives(j)
  BY <1>1 DEF JoinArrives
<1>2. CASE JoinUnreachable(j)
  BY <1>2 DEF JoinUnreachable
<1>3. CASE JoinInitiated(j)
  BY <1>3 DEF JoinInitiated
<1>4. CASE JoinDeclined(j)
  BY <1>4 DEF JoinDeclined
<1>5. CASE JoinApproved(j)
  BY <1>5 DEF JoinApproved
<1>6. CASE JoinMarks(j)
  BY <1>6 DEF JoinMarks
<1>7. CASE JoinPersistsCreds(j)
  BY <1>7 DEF JoinPersistsCreds
<1>8. CASE JoinLoadsBinding(j)
  BY <1>8 DEF JoinLoadsBinding, RecordHubJoin, StoreTypeOK, Bindings
<1>9. CASE JoinWithoutBinding(j)
  BY <1>9 DEF JoinWithoutBinding
<1>10. CASE JoinBinds(j)
  BY <1>10 DEF JoinBinds, Written
<1>11. QED
  BY <1>1, <1>2, <1>3, <1>4, <1>5, <1>6, <1>7, <1>8, <1>9, <1>10 DEF JoinStep, Background

(* The TPM step comes before the marker and settles the custody state. *)
LEMMA TpmClaimStep ==
    ASSUME NEW r \in Requests, TypeOK, LockInv, ClaimedInv, BindingInv, TpmInv, ClaimStep(r)
    PROVE  TpmInv'
<1> USE DEF TypeOK, StoreTypeOK, ClaimTypeOK, LockInv, ClaimedInv, BindingInv,
            TpmInv, RightCustody, IsClaimed, CriticalSteps, CommittedSteps,
            Answered, ReleasedAndAnswered, GoesTo, diskVars
<1>1. CASE ChallengeArrives(r)
  BY <1>1 DEF ChallengeArrives
<1>2. CASE ChallengeRefused(r)
  BY <1>2 DEF ChallengeRefused
<1>3. CASE ChallengeIssued(r)
  BY <1>3 DEF ChallengeIssued
<1>4. CASE FinishArrives(r)
  BY <1>4 DEF FinishArrives
<1>5. CASE FinishRefused(r)
  BY <1>5 DEF FinishRefused
<1>6. CASE FinishVerified(r)
  BY <1>6 DEF FinishVerified
<1>7. CASE FinishLocks(r)
  BY <1>7 DEF FinishLocks
<1>8. CASE FinishRechecks(r)
  BY <1>8 DEF FinishRechecks
<1>9. CASE FinishNoTpm(r)
  BY <1>9 DEF FinishNoTpm
<1>10. CASE FinishDiscardsLockout(r)
  BY <1>10 DEF FinishDiscardsLockout
<1>11. CASE FinishTpmFails(r)
  BY <1>11 DEF FinishTpmFails
<1>12. CASE FinishMarks(r)
  BY <1>12 DEF FinishMarks, Written, LocalMarker
<1>13. CASE FinishDeletesSecret(r)
  BY <1>13 DEF FinishDeletesSecret
<1>14. CASE FinishBinds(r)
  BY <1>14 DEF FinishBinds, Written, NewActiveLocal
<1>15. CASE FinishUnlocks(r)
  BY <1>15 DEF FinishUnlocks
<1>16. CASE FinishResponds(r)
  BY <1>16 DEF FinishResponds
<1>17. QED
  BY <1>1, <1>2, <1>3, <1>4, <1>5, <1>6, <1>7, <1>8, <1>9, <1>10, <1>11, <1>12,
     <1>13, <1>14, <1>15, <1>16 DEF ClaimStep, Commit

LEMMA TpmJoinStep ==
    ASSUME NEW j \in Joins, TypeOK, ClaimedInv, BindingInv, TpmInv, JoinStep(j),
           UNCHANGED claimVars
    PROVE  TpmInv'
<1> USE DEF TypeOK, ClaimedInv, BindingInv, TpmInv, RightCustody, IsClaimed,
            diskVars, claimVars
<1>1. CASE JoinArrives(j)
  BY <1>1 DEF JoinArrives
<1>2. CASE JoinUnreachable(j)
  BY <1>2 DEF JoinUnreachable
<1>3. CASE JoinInitiated(j)
  BY <1>3 DEF JoinInitiated
<1>4. CASE JoinDeclined(j)
  BY <1>4 DEF JoinDeclined
<1>5. CASE JoinApproved(j)
  BY <1>5 DEF JoinApproved
<1>6. CASE JoinMarks(j)
  BY <1>6 DEF JoinMarks, Written, HubMarker
<1>7. CASE JoinPersistsCreds(j)
  BY <1>7 DEF JoinPersistsCreds
<1>8. CASE JoinLoadsBinding(j)
  BY <1>8 DEF JoinLoadsBinding
<1>9. CASE JoinWithoutBinding(j)
  BY <1>9 DEF JoinWithoutBinding
<1>10. CASE JoinBinds(j)
  BY <1>10 DEF JoinBinds, Written
<1>11. QED
  BY <1>1, <1>2, <1>3, <1>4, <1>5, <1>6, <1>7, <1>8, <1>9, <1>10 DEF JoinStep, Background

(* Committed: a handler whose owner the marker has been written for. *)
Committed(r) == pc[r] \in CommittedSteps \cup {"respond"}

(***************************************************************************)
(* All steps of a claim but FinishMarks name only owners that were         *)
(* claimants before, and commit no other handler.                          *)
(***************************************************************************)
Inherited ==
    /\ \A q \in Requests : Committed(q)' => Committed(q) /\ req'[q].owner = req[q].owner
    /\ NamedOwners' \subseteq Claimants
    /\ claimedBy' = claimedBy

LEMMA InheritedSuffices ==
    ASSUME OwnerInv, Inherited
    PROVE  OwnerInv'
<1>1. Claimants' \subseteq Claimants
  BY DEF Inherited, Claimants, Committed
<1>2. QED
  BY <1>1 DEF OwnerInv, Inherited

LEMMA OwnerInherited ==
    ASSUME NEW r \in Requests, ClaimTypeOK, ClaimStep(r), ~FinishMarks(r)
    PROVE  Inherited
<1> USE DEF ClaimTypeOK, Inherited, Committed, CriticalSteps, CommittedSteps,
            Claimants, NamedOwners,
           Answered, ReleasedAndAnswered, GoesTo, diskVars
<1>1. CASE ChallengeArrives(r)
  BY <1>1 DEF ChallengeArrives
<1>2. CASE ChallengeRefused(r)
  BY <1>2 DEF ChallengeRefused
<1>3. CASE ChallengeIssued(r)
  BY <1>3 DEF ChallengeIssued
<1>4. CASE FinishArrives(r)
  BY <1>4 DEF FinishArrives
<1>5. CASE FinishRefused(r)
  BY <1>5 DEF FinishRefused
<1>6. CASE FinishVerified(r)
  BY <1>6 DEF FinishVerified
<1>7. CASE FinishLocks(r)
  BY <1>7 DEF FinishLocks
<1>8. CASE FinishRechecks(r)
  BY <1>8 DEF FinishRechecks
<1>9. CASE FinishNoTpm(r)
  BY <1>9 DEF FinishNoTpm
<1>10. CASE FinishDiscardsLockout(r)
  BY <1>10 DEF FinishDiscardsLockout
<1>11. CASE FinishTpmFails(r)
  BY <1>11 DEF FinishTpmFails
<1>12. CASE FinishDeletesSecret(r)
  BY <1>12 DEF FinishDeletesSecret
<1>13. CASE FinishBinds(r)
  BY <1>13 DEF FinishBinds, Written, NewActiveLocal
<1>14. CASE FinishUnlocks(r)
  BY <1>14 DEF FinishUnlocks
<1>15. CASE FinishResponds(r)
  BY <1>15 DEF FinishResponds
<1>16. QED
  BY <1>1, <1>2, <1>3, <1>4, <1>5, <1>6, <1>7, <1>8, <1>9, <1>10, <1>11, <1>12,
     <1>13, <1>14, <1>15 DEF ClaimStep, Commit

(* A claim names its own owner only where no other has been named. *)
LEMMA OwnerClaimStep ==
    ASSUME NEW r \in Requests, TypeOK, LockInv, ClaimedInv, BindingInv, OwnerInv, ClaimStep(r)
    PROVE  OwnerInv'
<1>1. CASE ~FinishMarks(r)
  BY <1>1, OwnerInherited, InheritedSuffices DEF TypeOK
<1>2. CASE FinishMarks(r)
  <2> DEFINE o == req[r].owner
  <2>1. ~IsClaimed
    BY <1>2 DEF ClaimedInv, FinishMarks
  <2>2. NamedOwners = {}
    BY <2>1 DEF ClaimedInv, BindingInv, NamedOwners
  <2>3. \A q \in Requests : ~Committed(q)
    BY <2>1 DEF ClaimedInv, Committed
  <2>4. /\ UNCHANGED <<binding, acked>>
        /\ marker' = marker \/ (marker'.owner = o /\ claimedBy' = o)
    BY <1>2 DEF FinishMarks, Written, LocalMarker
  <2>5. CASE marker' = marker
    <3>1. NamedOwners' = {}
      BY <2>2, <2>4, <2>5 DEF NamedOwners
    <3>2. \A q \in Requests : ~Committed(q)'
      BY <1>2, <2>1, <2>3, <2>5 DEF FinishMarks, ReleasedAndAnswered, Answered, GoesTo,
         TypeOK, ClaimTypeOK, Written, LocalMarker, IsClaimed, Committed, CommittedSteps
    <3>3. QED
      BY <3>1, <3>2 DEF OwnerInv, Claimants, Committed
  <2>6. CASE marker'.owner = o /\ claimedBy' = o
    <3>1. NamedOwners' \subseteq {o}
      BY <2>2, <2>4, <2>6 DEF NamedOwners
    <3>2. \A q \in Requests : Committed(q)' => req'[q].owner = o
      <4>1. \A q \in Requests \ {r} : ~Committed(q)'
        BY <1>2, <2>3 DEF FinishMarks, ReleasedAndAnswered, Answered, GoesTo,
           TypeOK, ClaimTypeOK, Committed
      <4>2. Committed(r)' => req' = req
        BY <1>2 DEF FinishMarks, ReleasedAndAnswered, Answered, GoesTo, TypeOK,
                    ClaimTypeOK, Committed, CommittedSteps
      <4>3. QED
        BY <4>1, <4>2
    <3>3. QED
      BY <2>6, <3>1, <3>2 DEF OwnerInv, Claimants, Committed
  <2>7. QED
    BY <2>4, <2>5, <2>6
<1>3. QED
  BY <1>1, <1>2

(* A join names nobody new. *)
LEMMA JoinNamesNobody ==
    ASSUME NEW j \in Joins, BindingInv, JoinStep(j), UNCHANGED claimVars
    PROVE  NamedOwners' \subseteq NamedOwners
<1> USE DEF NamedOwners, diskVars, claimVars
<1>1. CASE JoinArrives(j)
  BY <1>1 DEF JoinArrives
<1>2. CASE JoinUnreachable(j)
  BY <1>2 DEF JoinUnreachable
<1>3. CASE JoinInitiated(j)
  BY <1>3 DEF JoinInitiated
<1>4. CASE JoinDeclined(j)
  BY <1>4 DEF JoinDeclined
<1>5. CASE JoinApproved(j)
  BY <1>5 DEF JoinApproved
<1>6. CASE JoinMarks(j)
  BY <1>6 DEF JoinMarks, Written, HubMarker
<1>7. CASE JoinPersistsCreds(j)
  BY <1>7 DEF JoinPersistsCreds
<1>8. CASE JoinLoadsBinding(j)
  BY <1>8 DEF JoinLoadsBinding
<1>9. CASE JoinWithoutBinding(j)
  BY <1>9 DEF JoinWithoutBinding
<1>10. CASE JoinBinds(j)
  BY <1>10 DEF JoinBinds, Written, BindingInv
<1>11. QED
  BY <1>1, <1>2, <1>3, <1>4, <1>5, <1>6, <1>7, <1>8, <1>9, <1>10 DEF JoinStep, Background

LEMMA OwnerJoinStep ==
    ASSUME NEW j \in Joins, BindingInv, OwnerInv, JoinStep(j), UNCHANGED claimVars
    PROVE  OwnerInv'
<1>1. NamedOwners' \subseteq Claimants
  BY JoinNamesNobody DEF Claimants
<1>2. Inherited
  BY <1>1 DEF Inherited, Committed, claimVars
<1>3. QED
  BY <1>2, InheritedSuffices

(* A claim records no hub, and replaces nothing a hub join has recorded. *)
LEMMA HubClaimStep ==
    ASSUME NEW r \in Requests, ClaimedInv, BindingInv, HubInv, ClaimStep(r),
           UNCHANGED joinVars
    PROVE  HubInv'
<1>1. CASE FinishMarks(r)
  <2>1. ~IsClaimed
    BY <1>1 DEF ClaimedInv, FinishMarks
  <2>2. creds = None /\ (\A j \in Joins : jpc[j] = "idle")
    BY <2>1 DEF ClaimedInv
  <2>3. UNCHANGED <<binding, creds>>
    BY <1>1 DEF FinishMarks
  <2>4. QED
    BY <2>2, <2>3 DEF HubInv, HubRecordedInOrder, RecordingSteps, joinVars
<1>2. CASE FinishBinds(r)
  BY <1>2 DEF HubInv, HubRecordedInOrder, FinishBinds, Written, NewActiveLocal, joinVars
<1>3. CASE ~FinishMarks(r) /\ ~FinishBinds(r)
  <2>1. UNCHANGED <<marker, binding, creds>>
    BY <1>3 DEF ClaimStep, Commit, ChallengeArrives, ChallengeRefused, ChallengeIssued,
                FinishArrives, FinishRefused, FinishVerified, FinishLocks, FinishRechecks,
                FinishNoTpm, FinishDiscardsLockout, FinishTpmFails,
                FinishDeletesSecret, FinishUnlocks, FinishResponds, diskVars
  <2>2. QED
    BY <2>1 DEF HubInv, HubRecordedInOrder, joinVars
<1>4. QED
  BY <1>1, <1>2, <1>3

(* A join records the hub in the marker, the credentials, the binding. *)
LEMMA HubJoinStep ==
    ASSUME NEW j \in Joins, TypeOK, HubInv, JoinStep(j)
    PROVE  HubInv'
<1> USE DEF TypeOK, StoreTypeOK, JoinTypeOK, HubInv, HubRecordedInOrder,
            RecordingSteps, JoinEnds, JoinGoesTo, diskVars
<1>1. CASE JoinArrives(j)
  BY <1>1 DEF JoinArrives
<1>2. CASE JoinUnreachable(j)
  BY <1>2 DEF JoinUnreachable
<1>3. CASE JoinInitiated(j)
  BY <1>3 DEF JoinInitiated
<1>4. CASE JoinDeclined(j)
  BY <1>4 DEF JoinDeclined
<1>5. CASE JoinApproved(j)
  BY <1>5 DEF JoinApproved
<1>6. CASE JoinMarks(j)
  BY <1>6, NoneAssumption DEF JoinMarks, Written, HubMarker
<1>7. CASE JoinPersistsCreds(j)
  BY <1>7, NoneAssumption DEF JoinPersistsCreds, Written
<1>8. CASE JoinLoadsBinding(j)
  BY <1>8 DEF JoinLoadsBinding
<1>9. CASE JoinWithoutBinding(j)
  BY <1>9 DEF JoinWithoutBinding
<1>10. CASE JoinBinds(j)
  BY <1>10 DEF JoinBinds, Written
<1>11. QED
  BY <1>1, <1>2, <1>3, <1>4, <1>5, <1>6, <1>7, <1>8, <1>9, <1>10 DEF JoinStep, Background

(* main() keeps memory, disk and console in step while the box is unclaimed. *)
LEMMA CodeBootStep ==
    ASSUME TypeOK, CodeInv, Boot
    PROVE  CodeInv'
<1> USE DEF TypeOK, StoreTypeOK, BootTypeOK, CodeInv, IsClaimed, diskVars,
            bootVars
<1>1. CASE BootReadClaimed
  BY <1>1 DEF BootReadClaimed
<1>2. CASE BootLoadSecret
  BY <1>2 DEF BootLoadSecret
<1>3. CASE BootCreateSecret
  BY <1>3 DEF BootCreateSecret, FreshSecrets, Written, ProcessEnds
<1>4. CASE BootDisplay
  BY <1>4 DEF BootDisplay, DisplayClaimCode
<1>5. CASE BootServe
  BY <1>5 DEF BootServe
<1>6. CASE BootNoNetwork
  BY <1>6 DEF BootNoNetwork, ProcessEnds
<1>7. QED
  BY <1>1, <1>2, <1>3, <1>4, <1>5, <1>6 DEF Boot

LEMMA CodeClaimStep ==
    ASSUME NEW r \in Requests, TypeOK, ClaimedInv, CodeInv, ClaimStep(r)
    PROVE  CodeInv'
<1> USE DEF TypeOK, ClaimedInv, CodeInv, IsClaimed, CommittedSteps, diskVars,
            bootVars
<1>1. CASE ChallengeArrives(r)
  BY <1>1 DEF ChallengeArrives
<1>2. CASE ChallengeRefused(r)
  BY <1>2 DEF ChallengeRefused
<1>3. CASE ChallengeIssued(r)
  BY <1>3 DEF ChallengeIssued
<1>4. CASE FinishArrives(r)
  BY <1>4 DEF FinishArrives
<1>5. CASE FinishRefused(r)
  BY <1>5 DEF FinishRefused
<1>6. CASE FinishVerified(r)
  BY <1>6 DEF FinishVerified
<1>7. CASE FinishLocks(r)
  BY <1>7 DEF FinishLocks
<1>8. CASE FinishRechecks(r)
  BY <1>8 DEF FinishRechecks
<1>9. CASE FinishNoTpm(r)
  BY <1>9 DEF FinishNoTpm
<1>10. CASE FinishDiscardsLockout(r)
  BY <1>10 DEF FinishDiscardsLockout
<1>11. CASE FinishTpmFails(r)
  BY <1>11 DEF FinishTpmFails
<1>12. CASE FinishMarks(r)
  BY <1>12 DEF FinishMarks, Written, LocalMarker
<1>13. CASE FinishDeletesSecret(r)
  BY <1>13 DEF FinishDeletesSecret
<1>14. CASE FinishBinds(r)
  BY <1>14 DEF FinishBinds
<1>15. CASE FinishUnlocks(r)
  BY <1>15 DEF FinishUnlocks
<1>16. CASE FinishResponds(r)
  BY <1>16 DEF FinishResponds
<1>17. QED
  BY <1>1, <1>2, <1>3, <1>4, <1>5, <1>6, <1>7, <1>8, <1>9, <1>10, <1>11, <1>12,
     <1>13, <1>14, <1>15, <1>16 DEF ClaimStep, Commit

LEMMA CodeJoinStep ==
    ASSUME NEW j \in Joins, TypeOK, ClaimedInv, CodeInv, JoinStep(j)
    PROVE  CodeInv'
<1> USE DEF TypeOK, ClaimedInv, CodeInv, IsClaimed, diskVars, bootVars
<1>1. CASE JoinArrives(j)
  BY <1>1 DEF JoinArrives
<1>2. CASE JoinUnreachable(j)
  BY <1>2 DEF JoinUnreachable
<1>3. CASE JoinInitiated(j)
  BY <1>3 DEF JoinInitiated
<1>4. CASE JoinDeclined(j)
  BY <1>4 DEF JoinDeclined
<1>5. CASE JoinApproved(j)
  BY <1>5 DEF JoinApproved
<1>6. CASE JoinMarks(j)
  BY <1>6 DEF JoinMarks, Written, HubMarker
<1>7. CASE JoinPersistsCreds(j)
  BY <1>7 DEF JoinPersistsCreds
<1>8. CASE JoinLoadsBinding(j)
  BY <1>8 DEF JoinLoadsBinding
<1>9. CASE JoinWithoutBinding(j)
  BY <1>9 DEF JoinWithoutBinding
<1>10. CASE JoinBinds(j)
  BY <1>10 DEF JoinBinds
<1>11. QED
  BY <1>1, <1>2, <1>3, <1>4, <1>5, <1>6, <1>7, <1>8, <1>9, <1>10 DEF JoinStep, Background

-----------------------------------------------------------------------------
(* The whole invariant. *)

LEMMA BootLeaves == Boot => UNCHANGED <<marker, binding, creds, lockoutAuth>>
BY DEF Boot, BootReadClaimed, BootLoadSecret, BootCreateSecret, BootDisplay, BootServe,
       BootNoNetwork, diskVars

LEMMA JoinLeaves ==
    ASSUME NEW j \in Joins, JoinStep(j)
    PROVE  UNCHANGED <<secretFile, lockoutAuth, proc, bootVars>>
BY DEF JoinStep, Background, JoinArrives, JoinUnreachable, JoinInitiated, JoinDeclined,
       JoinApproved, JoinMarks, JoinPersistsCreds, JoinLoadsBinding, JoinWithoutBinding,
       JoinBinds, diskVars

LEMMA InvInit == Init => IInv
<1> SUFFICES ASSUME Init
             PROVE  IInv
    OBVIOUS
<1> USE DEF Init, StoreInit, BootInit, ClaimInit, JoinInit, NoMarker, NoBinding
<1>1. LockInv
  BY ClaimAssumption DEF LockInv, CriticalSteps
<1>2. ClaimedInv /\ BindingInv /\ TpmInv
  BY DEF ClaimedInv, BindingInv, TpmInv, CommittedSteps, IsClaimed
<1>3. OwnerInv
  BY DEF OwnerInv, Claimants, NamedOwners, CommittedSteps
<1>4. CodeInv /\ HubInv
  BY DEF CodeInv, HubInv, HubRecordedInOrder, RecordingSteps
<1>5. QED
  BY <1>1, <1>2, <1>3, <1>4, TypeInit DEF IInv

LEMMA InvStep == IInv /\ [Next]_vars => IInv'
<1> SUFFICES ASSUME IInv, [Next]_vars
             PROVE  IInv'
    OBVIOUS
<1> USE DEF IInv
<1>0. TypeOK'
  BY TypeStep
<1>1. CASE Boot /\ UNCHANGED <<claimVars, joinVars>>
  <2>1. UNCHANGED <<marker, binding, creds, lockoutAuth, claimVars, joinVars>>
    BY <1>1, BootLeaves
  <2>2. LockInv' /\ ClaimedInv' /\ BindingInv'
    BY <2>1 DEF LockInv, ClaimedInv, BindingInv, IsClaimed, claimVars, joinVars
  <2>3. TpmInv' /\ OwnerInv' /\ HubInv'
    BY <2>1 DEF TpmInv, RightCustody, OwnerInv, Claimants, NamedOwners, IsClaimed, HubInv,
                HubRecordedInOrder, claimVars, joinVars
  <2>4. QED
    BY <1>0, <1>1, <2>2, <2>3, CodeBootStep
<1>2. CASE ChallengeExpires /\ UNCHANGED joinVars
  <2>1. UNCHANGED <<diskVars, lockoutAuth, proc, bootVars, lock, pc, req, acked,
                   claimedBy, joinVars>>
    BY <1>2 DEF ChallengeExpires
  <2>2. LockInv' /\ ClaimedInv' /\ BindingInv'
    BY <2>1 DEF LockInv, ClaimedInv, BindingInv, IsClaimed, diskVars, joinVars
  <2>3. TpmInv' /\ OwnerInv' /\ HubInv'
    BY <2>1 DEF TpmInv, RightCustody, OwnerInv, Claimants, NamedOwners, IsClaimed, HubInv,
                HubRecordedInOrder, diskVars, joinVars
  <2>4. CodeInv'
    BY <2>1 DEF CodeInv, IsClaimed, diskVars, bootVars
  <2>5. QED
    BY <1>0, <2>2, <2>3, <2>4
<1>3. ASSUME NEW r \in Requests, ClaimStep(r), UNCHANGED joinVars
      PROVE  IInv'
  BY <1>0, <1>3, LockClaimStep, ClaimedClaimStep, BindingClaimStep, TpmClaimStep,
     OwnerClaimStep, CodeClaimStep, HubClaimStep DEF TypeOK
<1>4. ASSUME NEW j \in Joins, JoinStep(j), UNCHANGED claimVars
      PROVE  IInv'
  <2>1. LockInv'
    BY <1>4 DEF LockInv, claimVars
  <2>2. QED
    BY <1>0, <1>4, <2>1, ClaimedJoinStep, BindingJoinStep, TpmJoinStep, OwnerJoinStep,
       CodeJoinStep, HubJoinStep
<1>5. CASE Crash
  <2>1. UNCHANGED <<diskVars, lockoutAuth, screen, acked, claimedBy>>
    BY <1>5 DEF Crash
  <2>2. /\ proc' = "down" /\ alreadyClaimed' = FALSE /\ lock' = None
        /\ \A r \in Requests : pc'[r] = "idle"
        /\ \A j \in Joins : jpc'[j] = "idle"
    BY <1>5 DEF Crash, ProcessEnds
  <2>3. LockInv'
    BY <2>2, ClaimAssumption DEF LockInv, CriticalSteps
  <2>4. ClaimedInv' /\ BindingInv' /\ TpmInv'
    BY <2>1, <2>2 DEF ClaimedInv, BindingInv, TpmInv, RightCustody, IsClaimed,
                      CommittedSteps, diskVars
  <2>5. OwnerInv'
    <3>1. Claimants' \subseteq Claimants
      BY <2>1, <2>2 DEF Claimants, NamedOwners, CommittedSteps, diskVars
    <3>2. QED
      BY <2>1, <3>1 DEF OwnerInv
  <2>6. CodeInv' /\ HubInv'
    BY <2>1, <2>2 DEF CodeInv, HubInv, HubRecordedInOrder, RecordingSteps, diskVars
  <2>7. QED
    BY <1>0, <2>3, <2>4, <2>5, <2>6
<1>6. CASE UNCHANGED vars
  <2>1. LockInv' /\ ClaimedInv' /\ BindingInv'
    BY <1>6 DEF LockInv, ClaimedInv, BindingInv, IsClaimed, vars, diskVars, claimVars, joinVars
  <2>2. TpmInv' /\ OwnerInv' /\ CodeInv' /\ HubInv'
    BY <1>6 DEF TpmInv, RightCustody, OwnerInv, Claimants, NamedOwners, CodeInv, IsClaimed,
                HubInv, HubRecordedInOrder, vars, diskVars, bootVars, claimVars, joinVars
  <2>3. QED
    BY <1>0, <2>1, <2>2
<1>7. QED
  BY <1>1, <1>2, <1>3, <1>4, <1>5, <1>6 DEF Next

THEOREM Invariance == Spec => []IInv
BY InvInit, InvStep, PTL DEF Spec

-----------------------------------------------------------------------------
(* The properties. *)

(***************************************************************************)
(* First writer wins: a 200 answer, the marker and the binding never name  *)
(* two owners, and once one is named the box is claimed.                   *)
(***************************************************************************)
THEOREM FirstWriterWins == Spec => []OneOwner
<1>1. IInv => OneOwner
  BY DEF IInv, OwnerInv, Claimants, ClaimedInv, BindingInv, OneOwner, NamedOwners
<1>2. QED
  BY <1>1, Invariance, PTL

(***************************************************************************)
(* A box is claimed only with its TPM, if it has one, locked down, and the *)
(* binding says which it is.                                               *)
(***************************************************************************)
THEOREM FailClosedOnTpm == Spec => []TpmResolved
<1>1. IInv => TpmResolved
  BY DEF IInv, TpmInv, RightCustody, TpmResolved
<1>2. QED
  BY <1>1, Invariance, PTL

(***************************************************************************)
(* An unclaimed, serving box checks proofs against the secret it would     *)
(* load at a restart; and that is the code its console shows, unless this  *)
(* start could not write it there.                                         *)
(***************************************************************************)
THEOREM CodeWorks == Spec => []ShownCodeWorks
<1>1. IInv => ShownCodeWorks
  BY NoneAssumption DEF IInv, CodeInv, ShownCodeWorks
<1>2. QED
  BY <1>1, Invariance, PTL

(* The hub join never runs, and leaves nothing, on an unclaimed box. *)
THEOREM HubGated == Spec => []HubNeedsLocalClaim
<1>1. IInv => HubNeedsLocalClaim
  BY DEF IInv, ClaimedInv, HubNeedsLocalClaim
<1>2. QED
  BY <1>1, Invariance, PTL

(***************************************************************************)
(* Hub records: whatever fails or crashes in a join, there are hub         *)
(* credentials only where the marker names a hub and a hub in the binding  *)
(* only where there are credentials.                                       *)
(***************************************************************************)
THEOREM HubRecordsInOrder == Spec => []HubRecordedInOrder
<1>1. IInv => HubRecordedInOrder
  BY DEF IInv, HubInv
<1>2. QED
  BY <1>1, Invariance, PTL

(* Only FinishBinds and JoinBinds write the binding. *)
LEMMA BindingWriters ==
    ASSUME [Next]_vars,
           \A r \in Requests : ~FinishBinds(r),
           \A j \in Joins : ~JoinBinds(j)
    PROVE  binding' = binding
<1>1. CASE Boot
  BY <1>1, BootLeaves
<1>2. CASE ChallengeExpires \/ Crash
  BY <1>2 DEF ChallengeExpires, Crash, diskVars
<1>3. ASSUME NEW r \in Requests, ClaimStep(r)
      PROVE  binding' = binding
  BY <1>3 DEF ClaimStep, Commit, ChallengeArrives, ChallengeRefused, ChallengeIssued,
              FinishArrives, FinishRefused, FinishVerified, FinishLocks, FinishRechecks,
              FinishNoTpm, FinishDiscardsLockout, FinishTpmFails, FinishMarks,
              FinishDeletesSecret, FinishUnlocks, FinishResponds, diskVars
<1>4. ASSUME NEW j \in Joins, JoinStep(j)
      PROVE  binding' = binding
  BY <1>4 DEF JoinStep, Background, JoinArrives, JoinUnreachable, JoinInitiated,
              JoinDeclined, JoinApproved, JoinMarks, JoinPersistsCreds,
              JoinLoadsBinding, JoinWithoutBinding, diskVars
<1>5. CASE UNCHANGED vars
  BY <1>5 DEF vars, diskVars
<1>6. QED
  BY <1>1, <1>2, <1>3, <1>4, <1>5 DEF Next

(***************************************************************************)
(* A hub join, or anything else, never changes the owner or the custody    *)
(* state of a binding, nor removes it.                                     *)
(***************************************************************************)
THEOREM BindingOwnerKept == Spec => BindingKeepsOwner
<1> DEFINE Kept == binding.present =>
                      /\ binding'.present
                      /\ binding'.owner = binding.owner
                      /\ binding'.custody = binding.custody
<1>1. ASSUME IInv, [Next]_vars
      PROVE  Kept
  <2>1. CASE \E r \in Requests : FinishBinds(r)
    BY <1>1, <2>1 DEF IInv, BindingInv, FinishBinds
  <2>2. CASE \E j \in Joins : JoinBinds(j)
    <3>1. PICK j \in Joins : JoinBinds(j)
      BY <2>2
    <3>2. binding' \in {binding, jcopy[j]}
      BY <3>1 DEF JoinBinds, Written
    <3>3. QED
      BY <1>1, <3>1, <3>2 DEF IInv, BindingInv, JoinBinds
  <2>3. CASE binding' = binding
    BY <2>3
  <2>4. QED
    BY <1>1, <2>1, <2>2, <2>3, BindingWriters
<1>2. IInv /\ [Next]_vars => [Kept]_vars
  BY <1>1
<1>3. QED
  BY <1>2, Invariance, PTL DEF Spec, BindingKeepsOwner

(* Without read faults a step keeps the secret on disk and shows no other. *)
LEMMA SecretStep ==
    ASSUME "read" \notin Faults, IInv, [Next]_vars, ~IsClaimed
    PROVE  /\ secretFile # None => secretFile' = secretFile
           /\ screen' # screen => screen' \in {None, secretFile}
<1>1. CASE Boot
  <2> USE DEF diskVars, bootVars
  <2>1. CASE BootReadClaimed
    BY <2>1 DEF BootReadClaimed
  <2>2. CASE BootLoadSecret
    BY <2>2 DEF BootLoadSecret
  <2>3. CASE BootCreateSecret
    BY <2>3 DEF BootCreateSecret
  <2>4. CASE BootDisplay
    <3>1. secretFile' = secretFile /\ memSecret = secretFile
      BY <2>4 DEF BootDisplay, IInv, CodeInv
    <3>2. screen' \in {screen, None, memSecret}
      BY <2>4 DEF BootDisplay, DisplayClaimCode
    <3>3. QED
      BY <3>1, <3>2
  <2>5. CASE BootServe \/ BootNoNetwork
    BY <2>5 DEF BootServe, BootNoNetwork
  <2>6. QED
    BY <1>1, <2>1, <2>2, <2>3, <2>4, <2>5 DEF Boot
<1>2. CASE ChallengeExpires \/ Crash
  BY <1>2 DEF ChallengeExpires, Crash, diskVars, bootVars
<1>3. ASSUME NEW r \in Requests, ClaimStep(r)
      PROVE  screen' = screen /\ secretFile' = secretFile
  <2>1. ~FinishDeletesSecret(r)
    BY DEF FinishDeletesSecret, IInv, ClaimedInv, CommittedSteps
  <2>2. QED
    BY <1>3, <2>1 DEF ClaimStep, Commit, ChallengeArrives, ChallengeRefused,
              ChallengeIssued, FinishArrives, FinishRefused, FinishVerified, FinishLocks,
              FinishRechecks, FinishNoTpm, FinishDiscardsLockout, FinishTpmFails,
              FinishMarks, FinishBinds, FinishUnlocks, FinishResponds, diskVars, bootVars
<1>4. ASSUME NEW j \in Joins, JoinStep(j)
      PROVE  screen' = screen /\ secretFile' = secretFile
  BY <1>4, JoinLeaves DEF bootVars
<1>5. CASE UNCHANGED vars
  BY <1>5 DEF vars, diskVars, bootVars
<1>6. QED
  BY <1>1, <1>2, <1>3, <1>4, <1>5 DEF Next

(***************************************************************************)
(* Where reading the secret file does not fail, an unclaimed box keeps the *)
(* secret it has on disk, and its console comes to show no other code.     *)
(***************************************************************************)
THEOREM CodeIsStable ==
    ASSUME "read" \notin Faults
    PROVE  Spec => CodeNeverRotates
<1>1. IInv /\ [Next]_vars =>
         [~IsClaimed =>
             /\ secretFile # None => secretFile' = secretFile
             /\ screen' # screen => screen' \in {None, secretFile}]_vars
  BY SecretStep
<1>2. QED
  BY <1>1, Invariance, PTL DEF Spec, CodeNeverRotates

-----------------------------------------------------------------------------
(* Refinement of Ownership. *)

(* A step of the agent claims, tells or stutters. *)
LEMMA RefinementStep ==
    ASSUME IInv, [Next]_vars
    PROVE  [Abstract!Next]_<<claimedBy, acked>>
<1> USE DEF Abstract!Next, Abstract!Claim, Abstract!Tell
<1>1. CASE UNCHANGED <<claimedBy, acked>>
  BY <1>1
<1>2. ASSUME NEW r \in Requests, FinishMarks(r)
      PROVE  [Abstract!Next]_<<claimedBy, acked>>
  <2>1. claimedBy = None
    BY <1>2 DEF IInv, ClaimedInv, FinishMarks
  <2>2. req[r].owner \in Owners
    BY <1>2 DEF IInv, TypeOK, ClaimTypeOK, CriticalSteps, FinishMarks
  <2>3. claimedBy' \in {claimedBy, req[r].owner} /\ acked' = acked
    BY <1>2 DEF FinishMarks, Written
  <2>4. QED
    BY <2>1, <2>2, <2>3
<1>3. ASSUME NEW r \in Requests, FinishResponds(r)
      PROVE  [Abstract!Next]_<<claimedBy, acked>>
  <2>1. claimedBy' = claimedBy /\ acked' = acked \cup {req[r].owner}
    BY <1>3 DEF FinishResponds
  <2>2. req[r].owner \in Owners
    BY <1>3 DEF IInv, TypeOK, ClaimTypeOK, FinishResponds
  <2>3. req[r].owner = claimedBy
    BY <1>3 DEF IInv, OwnerInv, Claimants, FinishResponds
  <2>4. QED
    BY <2>1, <2>2, <2>3
<1>4. ASSUME NEW r \in Requests, ClaimStep(r), ~FinishMarks(r), ~FinishResponds(r)
      PROVE  UNCHANGED <<claimedBy, acked>>
  BY <1>4 DEF ClaimStep, Commit, ChallengeArrives, ChallengeRefused, ChallengeIssued,
              FinishArrives, FinishRefused, FinishVerified, FinishLocks, FinishRechecks,
              FinishNoTpm, FinishDiscardsLockout, FinishTpmFails,
              FinishDeletesSecret, FinishBinds, FinishUnlocks
<1>5. CASE ChallengeExpires \/ Crash
  <2>1. UNCHANGED <<claimedBy, acked>>
    BY <1>5 DEF ChallengeExpires, Crash
  <2>2. QED
    BY <1>1, <2>1
<1>6. CASE UNCHANGED claimVars
  BY <1>1, <1>6 DEF claimVars
<1>7. QED
  BY <1>1, <1>2, <1>3, <1>4, <1>5, <1>6 DEF Next, vars

(***************************************************************************)
(* The agent, with any number of hub joins, implements first-writer-wins   *)
(* ownership: the owner is the one whose marker took effect first, the 200 *)
(* answers are what was told.                                              *)
(***************************************************************************)
THEOREM LocalClaimRefinesOwnership == Spec => ImplementsOwnership
<1>1. Init => Abstract!Init
  BY DEF Init, ClaimInit, Abstract!Init
<1>2. IInv /\ [Next]_vars => [Abstract!Next]_<<claimedBy, acked>>
  BY RefinementStep
<1>3. QED
  BY <1>1, <1>2, Invariance, PTL DEF Spec, ImplementsOwnership, Abstract!Spec
=============================================================================
