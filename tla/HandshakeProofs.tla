--------------------------- MODULE HandshakeProofs --------------------------
(***************************************************************************)
(* Who owns a box, and which key a Courier has pinned, for every number of *)
(* boxes, Couriers, requests and restarts.  The argument follows the       *)
(* messages: an honest Courier proves only the code its user typed, so a   *)
(* verified finish names a Courier that read this box's code, and a box    *)
(* sends box_proofs to one Courier only, the one whose claim it took; a    *)
(* hub join may take the owner out of the marker, the marker it leaves.    *)
(***************************************************************************)
EXTENDS Handshake, TLAPS

(* A keypair in memory is the one on disk. *)
ServedKey == \A b \in Boxes : Up(b) => keyFile[b] = boxKey[b]

(* A Courier proves the code its user reads or a mistyped one. *)
FinishHonest ==
    \A m \in net : m.type = "finish" => m.proof.secret \in {code[m.client], Typo}

(* What goes on to the commit was proven with this box's secret. *)
VerifiedProven ==
    \A b \in Boxes : \A m \in verified[b] : Up(b) /\ m.proof.secret = b

(* A 200, with a proof by this box, goes to nobody but the owner on record. *)
ClaimsAreOwners ==
    \A m \in net : m.type = "claimed" =>
        claimed[m.box] /\ owner[m.box] \in {m.client, None} /\ m.proof.secret = m.box

(* The 200s of a box go to one Courier, also when no owner is on record. *)
OneClient ==
    \A m, n \in net : m.type = "claimed" /\ n.type = "claimed" /\ m.box = n.box =>
        m.client = n.client

(* What a Courier trusts it was told by the box whose code its user typed. *)
TrustsProven ==
    \A c \in Couriers : trusts[c] # None =>
        \E m \in net : m.type = "claimed" /\ m.client = c /\ m.proof.secret = code[c]

OwnInv ==
    /\ TypeOK
    /\ ServedKey
    /\ FinishHonest
    /\ VerifiedProven
    /\ ClaimsAreOwners
    /\ OneClient
    /\ TrustsProven
    /\ OwnerReadCode

-----------------------------------------------------------------------------
(* Messages. *)

LEMMA MessageKinds ==
    ASSUME NEW m \in Messages
    PROVE  /\ m.type = "challenge" => m \in ChallengeRequests
           /\ m.type = "issued" => m \in ChallengeResponses
           /\ m.type = "finish" => m \in FinishRequests
           /\ m.type = "claimed" => m \in FinishResponses
<1>1. CASE m \in ChallengeRequests
  BY <1>1 DEF ChallengeRequests
<1>2. CASE m \in ChallengeResponses
  BY <1>2 DEF ChallengeResponses
<1>3. CASE m \in FinishRequests
  BY <1>3 DEF FinishRequests
<1>4. CASE m \in FinishResponses
  BY <1>4 DEF FinishResponses
<1>5. QED
  BY <1>1, <1>2, <1>3, <1>4 DEF Messages

LEMMA TranscriptType ==
    ASSUME NEW n \in Challenges, NEW c \in Couriers, NEW k \in Keys
    PROVE  Transcript(n, c, k) \in Transcripts
BY DEF Transcript, Transcripts

LEMMA HmacType ==
    ASSUME NEW s \in Boxes \cup {Typo}, NEW l \in Labels, NEW t \in Transcripts
    PROVE  Hmac(s, l, t) \in Proofs
BY DEF Hmac, Proofs

LEMMA FinishForType ==
    ASSUME NEW i \in ChallengeResponses, NEW typed \in Boxes \cup {Typo}
    PROVE  /\ FinishFor(i, typed) \in FinishRequests
           /\ FinishFor(i, typed).type = "finish"
           /\ FinishFor(i, typed).client = i.client
           /\ FinishFor(i, typed).proof.secret = typed
<1> DEFINE proof == Hmac(typed, "benix-claim/client", Transcript(i.chal, i.client, i.key))
<1>1. i.box \in Boxes /\ i.client \in Couriers /\ i.chal \in Challenges /\ i.key \in Keys
  BY DEF ChallengeResponses
<1>2. proof \in Proofs
  BY <1>1, TranscriptType, HmacType DEF Labels
<1>3. Signature(i.client, i.chal, proof) \in Signatures
  BY <1>1, <1>2 DEF Signature, Signatures
<1>4. FinishFor(i, typed) =
         [type |-> "finish", box |-> i.box, client |-> i.client, chal |-> i.chal,
          proof |-> proof, sig |-> Signature(i.client, i.chal, proof)]
  BY DEF FinishFor
<1>5. proof.secret = typed
  BY DEF Hmac
<1> HIDE DEF proof
<1>6. QED
  BY <1>1, <1>2, <1>3, <1>4, <1>5 DEF FinishRequests

LEMMA FinishResponseType ==
    ASSUME NEW b \in Boxes, NEW m \in FinishRequests, boxKey[b] \in Keys
    PROVE  /\ FinishResponse(b, m) \in FinishResponses
           /\ FinishResponse(b, m).type = "claimed"
           /\ FinishResponse(b, m).box = b
           /\ FinishResponse(b, m).client = m.client
           /\ FinishResponse(b, m).proof.secret = b
           /\ FinishResponse(b, m).proof.transcript.key = boxKey[b]
<1> DEFINE proof == Hmac(b, "benix-claim/box", Transcript(m.chal, m.client, boxKey[b]))
<1>1. m.client \in Couriers /\ m.chal \in Challenges
  BY DEF FinishRequests
<1>2. proof \in Proofs
  BY <1>1, TranscriptType, HmacType DEF Labels
<1>3. FinishResponse(b, m) =
         [type |-> "claimed", box |-> b, client |-> m.client, chal |-> m.chal,
          proof |-> proof]
  BY DEF FinishResponse
<1>4. proof.secret = b /\ proof.transcript.key = boxKey[b]
  BY DEF Hmac, Transcript
<1> HIDE DEF proof
<1>5. QED
  BY <1>1, <1>2, <1>3, <1>4 DEF FinishResponses

-----------------------------------------------------------------------------
(* Ownership. *)

LEMMA OwnInit == Init => OwnInv
<1> SUFFICES ASSUME Init PROVE OwnInv
  OBVIOUS
<1>1. TypeOK
  BY HandshakeAssumption DEF Init, TypeOK
<1>2. ServedKey /\ FinishHonest /\ VerifiedProven /\ ClaimsAreOwners
  BY DEF Init, ServedKey, FinishHonest, VerifiedProven, ClaimsAreOwners, Up
<1>3. OneClient /\ TrustsProven /\ OwnerReadCode
  BY DEF Init, OneClient, TrustsProven, OwnerReadCode
<1>4. QED
  BY <1>1, <1>2, <1>3 DEF OwnInv

(* A step of the boxes' start and stop, or of their stores, sends nothing. *)
LEMMA OwnQuiet ==
    ASSUME OwnInv, UNCHANGED <<claimed, owner, net, trusts, code>>, TypeOK', ServedKey',
           VerifiedProven'
    PROVE  OwnInv'
BY DEF OwnInv, FinishHonest, ClaimsAreOwners, OneClient, TrustsProven, OwnerReadCode

(* So it is with a request or an answer that is not a 200. *)
LEMMA OwnOther ==
    ASSUME OwnInv, NEW m, m.type # "claimed", net' = net \cup {m},
           UNCHANGED <<claimed, owner, trusts, code>>
    PROVE  ClaimsAreOwners' /\ OneClient' /\ TrustsProven' /\ OwnerReadCode'
<1>1. \A n \in net' : n.type = "claimed" => n \in net
  OBVIOUS
<1>2. ClaimsAreOwners' /\ OneClient'
  BY <1>1 DEF OwnInv, ClaimsAreOwners, OneClient
<1>3. TrustsProven' /\ OwnerReadCode'
  BY DEF OwnInv, TrustsProven, OwnerReadCode
<1>4. QED
  BY <1>2, <1>3

LEMMA OwnLoadsKey ==
    ASSUME OwnInv, NEW b \in Boxes, LoadsKey(b)
    PROVE  OwnInv'
<1>1. TypeOK'
  BY DEF OwnInv, LoadsKey, TypeOK, courierVars
<1>2. ServedKey'
  BY DEF OwnInv, LoadsKey, TypeOK, ServedKey, Up
<1>3. VerifiedProven'
  BY DEF OwnInv, LoadsKey, TypeOK, VerifiedProven, Up
<1>4. QED
  BY <1>1, <1>2, <1>3, OwnQuiet DEF LoadsKey, courierVars

LEMMA OwnCreatesKey ==
    ASSUME OwnInv, NEW b \in Boxes, CreatesKey(b)
    PROVE  OwnInv'
<1>1. PICK k \in FreshKeys :
         \/ /\ keyFile' = [keyFile EXCEPT ![b] = k]
            /\ boxKey' \in {boxKey, [boxKey EXCEPT ![b] = k]}
         \/ UNCHANGED <<keyFile, boxKey>>
  BY DEF CreatesKey
<1>2. k \in Keys
  BY DEF FreshKeys
<1>3. TypeOK'
  BY <1>1, <1>2 DEF OwnInv, CreatesKey, TypeOK, courierVars
<1>4. ServedKey'
  BY <1>1, <1>2 DEF OwnInv, CreatesKey, TypeOK, ServedKey, Up
<1>5. VerifiedProven'
  BY <1>1, <1>2, HandshakeAssumption DEF OwnInv, CreatesKey, TypeOK, VerifiedProven, Up
<1>6. QED
  BY <1>3, <1>4, <1>5, OwnQuiet DEF CreatesKey, courierVars

LEMMA OwnCrashes ==
    ASSUME OwnInv, NEW b \in Boxes, Crashes(b)
    PROVE  OwnInv'
<1>1. TypeOK'
  BY HandshakeAssumption DEF OwnInv, Crashes, TypeOK, courierVars
<1>2. ServedKey'
  BY DEF OwnInv, Crashes, TypeOK, ServedKey, Up
<1>3. VerifiedProven'
  BY DEF OwnInv, Crashes, TypeOK, VerifiedProven, Up
<1>4. QED
  BY <1>1, <1>2, <1>3, OwnQuiet DEF Crashes, courierVars

LEMMA OwnExpires ==
    ASSUME OwnInv, NEW b \in Boxes, Expires(b)
    PROVE  OwnInv'
<1>1. TypeOK'
  BY DEF OwnInv, Expires, TypeOK, courierVars
<1>2. ServedKey' /\ VerifiedProven'
  BY DEF OwnInv, Expires, ServedKey, VerifiedProven, Up
<1>3. QED
  BY <1>1, <1>2, OwnQuiet DEF Expires, courierVars

LEMMA OwnFinishVerified ==
    ASSUME OwnInv, NEW b \in Boxes, FinishVerified(b)
    PROVE  OwnInv'
<1>1. PICK m \in net :
         /\ m.type = "finish" /\ m.box = b
         /\ Verifies(b, m)
         /\ verified' = [verified EXCEPT ![b] = @ \cup {m}]
  BY DEF FinishVerified
<1>2. TypeOK'
  BY <1>1 DEF OwnInv, FinishVerified, TypeOK, courierVars
<1>3. ServedKey'
  BY DEF OwnInv, FinishVerified, ServedKey, Up
<1>4. m.proof.secret = b
  BY <1>1 DEF Verifies, Hmac
<1>5. VerifiedProven'
  BY <1>1, <1>4 DEF OwnInv, FinishVerified, TypeOK, VerifiedProven, Up
<1>6. QED
  BY <1>2, <1>3, <1>5, OwnQuiet DEF FinishVerified, courierVars

LEMMA OwnAsks ==
    ASSUME OwnInv, NEW c \in Couriers, NEW b \in Boxes, Asks(c, b)
    PROVE  OwnInv'
<1> DEFINE m == [type |-> "challenge", box |-> b, client |-> c, chal |-> tries + 1]
<1>1. tries + 1 \in Challenges /\ tries + 1 \in 0 .. MaxTries
  BY HandshakeAssumption DEF OwnInv, TypeOK, Asks, Challenges
<1>2. m \in Messages /\ m.type = "challenge"
  BY <1>1 DEF Messages, ChallengeRequests
<1>3. net' = net \cup {m} /\ tries' = tries + 1
  BY DEF Asks
<1> HIDE DEF m
<1>4. TypeOK'
  BY <1>1, <1>2, <1>3 DEF OwnInv, Asks, TypeOK, boxVars
<1>5. FinishHonest'
  BY <1>2, <1>3 DEF OwnInv, Asks, FinishHonest
<1>6. UNCHANGED <<claimed, owner, trusts, code>>
  BY DEF Asks, boxVars
<1>7. ServedKey' /\ VerifiedProven'
  BY DEF OwnInv, Asks, boxVars, ServedKey, VerifiedProven, Up
<1>8. QED
  BY <1>2, <1>3, <1>4, <1>5, <1>6, <1>7, OwnOther DEF OwnInv

LEMMA OwnIssues ==
    ASSUME OwnInv, NEW b \in Boxes, Issues(b)
    PROVE  OwnInv'
<1>1. PICK q \in net :
         /\ q.type = "challenge"
         /\ pending' = [pending EXCEPT ![b] = @ \cup {q.chal}]
         /\ net' = net \cup {[type |-> "issued", box |-> b, client |-> q.client,
                              chal |-> q.chal, key |-> boxKey[b]]}
  BY DEF Issues
<1> DEFINE m == [type |-> "issued", box |-> b, client |-> q.client,
                 chal |-> q.chal, key |-> boxKey[b]]
<1>2. q.client \in Couriers /\ q.chal \in Challenges
  BY <1>1, MessageKinds DEF OwnInv, TypeOK, ChallengeRequests
<1>3. boxKey[b] \in Keys
  BY DEF OwnInv, TypeOK, Issues, Up
<1>4. m \in Messages /\ m.type = "issued"
  BY <1>2, <1>3 DEF Messages, ChallengeResponses
<1>5. net' = net \cup {m}
  BY <1>1
<1> HIDE DEF m
<1>6. TypeOK'
  BY <1>1, <1>2, <1>4, <1>5 DEF OwnInv, Issues, TypeOK, courierVars
<1>7. FinishHonest'
  BY <1>4, <1>5 DEF OwnInv, Issues, FinishHonest, courierVars
<1>8. UNCHANGED <<claimed, owner, trusts, code>>
  BY DEF Issues, courierVars
<1>9. ServedKey' /\ VerifiedProven'
  BY DEF OwnInv, Issues, ServedKey, VerifiedProven, Up
<1>10. QED
  BY <1>4, <1>5, <1>6, <1>7, <1>8, <1>9, OwnOther DEF OwnInv

LEMMA OwnSendsFinish ==
    ASSUME OwnInv, NEW c \in Couriers, SendsFinish(c)
    PROVE  OwnInv'
<1>1. PICK i \in net, typed \in {code[c], Typo} :
         /\ i.type = "issued" /\ i.client = c
         /\ net' = net \cup {FinishFor(i, typed)}
  BY DEF SendsFinish
<1> DEFINE m == FinishFor(i, typed)
<1>2. i \in ChallengeResponses
  BY <1>1, MessageKinds DEF OwnInv, TypeOK
<1>3. typed \in Boxes \cup {Typo}
  BY DEF OwnInv, TypeOK
<1>4. /\ m \in FinishRequests /\ m.type = "finish" /\ m.client = c
      /\ m.proof.secret = typed
  BY <1>1, <1>2, <1>3, FinishForType
<1>5. net' = net \cup {m}
  BY <1>1
<1>6. m \in Messages
  BY <1>4 DEF Messages
<1> HIDE DEF m
<1>7. TypeOK'
  BY <1>5, <1>6 DEF OwnInv, SendsFinish, TypeOK, boxVars, courierVars
<1>8. FinishHonest'
  BY <1>4, <1>5 DEF OwnInv, SendsFinish, FinishHonest, courierVars
<1>9. UNCHANGED <<claimed, owner, trusts, code>>
  BY DEF SendsFinish, boxVars, courierVars
<1>10. ServedKey' /\ VerifiedProven'
  BY DEF OwnInv, SendsFinish, boxVars, ServedKey, VerifiedProven, Up
<1>11. QED
  BY <1>4, <1>5, <1>7, <1>8, <1>9, <1>10, OwnOther DEF OwnInv

LEMMA OwnAccepts ==
    ASSUME OwnInv, NEW c \in Couriers, Accepts(c)
    PROVE  OwnInv'
<1>1. PICK i \in net, m \in net :
         /\ i.type = "issued" /\ i.client = c
         /\ m.type = "claimed" /\ m.client = c /\ m.chal = i.chal
         /\ m.proof = Hmac(code[c], "benix-claim/box", Transcript(i.chal, c, i.key))
         /\ trusts' = [trusts EXCEPT ![c] = i.key]
  BY DEF Accepts
<1>2. i.key \in Keys
  BY <1>1, MessageKinds DEF OwnInv, TypeOK, ChallengeResponses
<1>3. m.proof.secret = code[c]
  BY <1>1 DEF Hmac
<1>4. UNCHANGED <<boxVars, net, code>>
  BY DEF Accepts
<1>5. TypeOK'
  BY <1>1, <1>2 DEF OwnInv, Accepts, TypeOK, boxVars
<1>6. TrustsProven'
  <2> SUFFICES ASSUME NEW d \in Couriers, trusts'[d] # None
               PROVE  \E n \in net : n.type = "claimed" /\ n.client = d
                                      /\ n.proof.secret = code[d]
    BY <1>4 DEF TrustsProven
  <2>1. CASE d = c
    BY <1>1, <1>3, <2>1
  <2>2. CASE d # c
    BY <1>1, <2>2 DEF OwnInv, TypeOK, TrustsProven
  <2>3. QED
    BY <2>1, <2>2
<1>7. QED
  BY <1>4, <1>5, <1>6 DEF OwnInv, boxVars, ServedKey, FinishHonest, VerifiedProven,
     ClaimsAreOwners, OneClient, OwnerReadCode, Up

LEMMA OwnFinishCommits ==
    ASSUME OwnInv, NEW b \in Boxes, FinishCommits(b)
    PROVE  OwnInv'
<1>1. PICK q \in verified[b] :
         /\ claimed' = [claimed EXCEPT ![b] = TRUE]
         /\ owner' = [owner EXCEPT ![b] = q.client]
         /\ pending' = [pending EXCEPT ![b] = @ \ {q.chal}]
         /\ net' = net \cup {FinishResponse(b, q)}
  BY DEF FinishCommits
<1> DEFINE m == FinishResponse(b, q)
<1>2. q \in net /\ q.type = "finish" /\ q \in FinishRequests
  BY MessageKinds DEF OwnInv, TypeOK
<1>3. Up(b) /\ q.proof.secret = b
  BY DEF OwnInv, VerifiedProven
<1>4. boxKey[b] \in Keys
  BY <1>3 DEF OwnInv, TypeOK, Up
<1>5. /\ m \in FinishResponses /\ m.type = "claimed" /\ m.box = b
      /\ m.client = q.client /\ m.proof.secret = b
  BY <1>2, <1>4, FinishResponseType
<1>6. net' = net \cup {m} /\ m \in Messages
  BY <1>1, <1>5 DEF Messages
<1>7. q.client \in Couriers /\ q.client # None
  BY <1>2, HandshakeAssumption DEF FinishRequests
<1>8. code[q.client] = b
  BY <1>2, <1>3, HandshakeAssumption DEF OwnInv, FinishHonest
<1> HIDE DEF m
<1>9. TypeOK'
  BY <1>1, <1>6, <1>7 DEF OwnInv, FinishCommits, TypeOK, courierVars
<1>10. FinishHonest'
  BY <1>5, <1>6 DEF OwnInv, FinishCommits, FinishHonest, courierVars
(* An unclaimed box has sent no 200 yet. *)
<1>11. \A x \in net : x.type = "claimed" => x.box # b /\ x.box \in Boxes
  BY MessageKinds DEF OwnInv, TypeOK, ClaimsAreOwners, FinishCommits, FinishResponses
<1>12. ClaimsAreOwners'
  <2> SUFFICES ASSUME NEW x \in net', x.type = "claimed"
               PROVE  /\ claimed'[x.box] /\ owner'[x.box] \in {x.client, None}
                      /\ x.proof.secret = x.box
    BY DEF ClaimsAreOwners
  <2>1. CASE x = m
    BY <2>1, <1>1, <1>5 DEF OwnInv, TypeOK
  <2>2. CASE x \in net
    <3>1. /\ claimed[x.box] /\ owner[x.box] \in {x.client, None}
          /\ x.proof.secret = x.box
      BY <2>2 DEF OwnInv, ClaimsAreOwners
    <3>2. x.box # b /\ x.box \in Boxes
      BY <2>2, <1>11
    <3>3. QED
      BY <1>1, <3>1, <3>2 DEF OwnInv, TypeOK
  <2>3. QED
    BY <1>6, <2>1, <2>2
<1>13. OneClient'
  BY <1>5, <1>6, <1>11 DEF OwnInv, OneClient
<1>14. TrustsProven'
  BY <1>6 DEF OwnInv, FinishCommits, TrustsProven, courierVars
<1>15. OwnerReadCode'
  BY <1>1, <1>8 DEF OwnInv, FinishCommits, OwnerReadCode, TypeOK, courierVars
<1>16. ServedKey' /\ VerifiedProven'
  BY DEF OwnInv, FinishCommits, ServedKey, VerifiedProven, Up
<1>17. QED
  BY <1>9, <1>10, <1>12, <1>13, <1>14, <1>15, <1>16 DEF OwnInv

LEMMA OwnHubJoins ==
    ASSUME OwnInv, NEW b \in Boxes, HubJoins(b)
    PROVE  OwnInv'
<1>1. owner' = [owner EXCEPT ![b] = None]
  BY DEF HubJoins
<1>2. UNCHANGED <<keyFile, boxKey, pending, verified, claimed, net, courierVars, restarts>>
  BY DEF HubJoins
<1>3. TypeOK'
  BY <1>1, <1>2 DEF OwnInv, TypeOK, courierVars
<1>4. \A x \in Boxes : owner'[x] \in {owner[x], None}
  BY <1>1 DEF OwnInv, TypeOK
<1>5. ClaimsAreOwners'
  <2> SUFFICES ASSUME NEW x \in net, x.type = "claimed"
               PROVE  /\ claimed[x.box] /\ owner'[x.box] \in {x.client, None}
                      /\ x.proof.secret = x.box
    BY <1>2 DEF ClaimsAreOwners
  <2>1. x.box \in Boxes
    BY MessageKinds DEF OwnInv, TypeOK, FinishResponses
  <2>2. QED
    BY <1>4, <2>1 DEF OwnInv, ClaimsAreOwners
<1>6. OwnerReadCode'
  BY <1>2, <1>4 DEF OwnInv, OwnerReadCode, courierVars
<1>7. QED
  BY <1>2, <1>3, <1>5, <1>6 DEF OwnInv, ServedKey, FinishHonest, VerifiedProven, OneClient,
     TrustsProven, Up, courierVars

LEMMA OwnStep == OwnInv /\ [Next]_vars => OwnInv'
<1> SUFFICES ASSUME OwnInv, [Next]_vars PROVE OwnInv'
  OBVIOUS
<1>1. CASE UNCHANGED vars
  BY <1>1 DEF OwnInv, TypeOK, ServedKey, FinishHonest, VerifiedProven, ClaimsAreOwners,
     OneClient, TrustsProven, OwnerReadCode, Up, vars
<1>2. CASE Next
  BY <1>2, OwnLoadsKey, OwnCreatesKey, OwnCrashes, OwnIssues, OwnExpires,
     OwnFinishVerified, OwnFinishCommits, OwnHubJoins, OwnAsks, OwnSendsFinish, OwnAccepts DEF Next
<1>3. QED
  BY <1>1, <1>2

(* The ownership invariant holds whether or not reading the key file can fail. *)
THEOREM HandshakeInvariance == Spec => []OwnInv
BY OwnInit, OwnStep, PTL DEF Spec

(* Every request and answer, and every request in a handler, is well formed. *)
THEOREM HandshakeTypes == Spec => []TypeOK
<1>1. OwnInv => TypeOK
  BY DEF OwnInv
<1>2. QED
  BY <1>1, HandshakeInvariance, PTL

(* A box is owned only by a Courier whose user read its code (client_proof). *)
THEOREM OwnersHaveReadTheCode == Spec => []OwnerReadCode
<1>1. OwnInv => OwnerReadCode
  BY DEF OwnInv
<1>2. QED
  BY <1>1, HandshakeInvariance, PTL

(***************************************************************************)
(* The Courier that has verified a box_proof is the only one that ever     *)
(* will for that box; the box is claimed, and its marker names that        *)
(* Courier or, after a hub join, nobody.                                   *)
(***************************************************************************)
THEOREM AcceptingCourierOwns == Spec => []AcceptedOwns
<1>1. ASSUME OwnInv
      PROVE  AcceptedOwns
  <2> SUFFICES ASSUME NEW c \in Couriers, trusts[c] # None
               PROVE  /\ claimed[code[c]] /\ owner[code[c]] \in {c, None}
                      /\ \A d \in Couriers : trusts[d] # None /\ code[d] = code[c] => d = c
    BY DEF AcceptedOwns
  <2>1. PICK m \in net : m.type = "claimed" /\ m.client = c /\ m.proof.secret = code[c]
    BY <1>1 DEF OwnInv, TrustsProven
  <2>2. m.box = code[c] /\ claimed[m.box] /\ owner[m.box] \in {m.client, None}
    BY <1>1, <2>1 DEF OwnInv, ClaimsAreOwners
  <2>3. ASSUME NEW d \in Couriers, trusts[d] # None, code[d] = code[c]
        PROVE  d = c
    <3>1. PICK n \in net : n.type = "claimed" /\ n.client = d /\ n.proof.secret = code[d]
      BY <1>1, <2>3 DEF OwnInv, TrustsProven
    <3>2. n.box = m.box
      BY <1>1, <2>2, <2>3, <3>1 DEF OwnInv, ClaimsAreOwners
    <3>3. QED
      BY <1>1, <2>1, <3>1, <3>2 DEF OwnInv, OneClient
  <2>4. QED
    BY <2>1, <2>2, <2>3
<1>2. QED
  BY <1>1, HandshakeInvariance, PTL

-----------------------------------------------------------------------------
(* Identity, when reading the key file does not fail. *)

(* No two boxes have the same keypair. *)
KeysDistinct ==
    \A a, b \in Boxes : keyFile[a] = keyFile[b] => a = b \/ keyFile[a] = None

(* A box_proof covers the keypair of the box that made it. *)
ClaimsCoverKey ==
    \A m \in net : m.type = "claimed" =>
        m.proof.transcript.key = keyFile[m.box] /\ keyFile[m.box] # None

KeyInv == OwnInv /\ KeysDistinct /\ ClaimsCoverKey /\ PinnedKeyStays

LEMMA KeyInit == Init => KeyInv
<1> SUFFICES ASSUME Init PROVE KeyInv
  OBVIOUS
<1>1. KeysDistinct /\ ClaimsCoverKey /\ PinnedKeyStays
  BY DEF Init, KeysDistinct, ClaimsCoverKey, PinnedKeyStays
<1>2. QED
  BY <1>1, OwnInit DEF KeyInv

LEMMA KeyCreatesKey ==
    ASSUME KeyInv, ReadsFail = FALSE, NEW b \in Boxes, CreatesKey(b)
    PROVE  KeysDistinct' /\ ClaimsCoverKey' /\ PinnedKeyStays'
<1>1. PICK k \in FreshKeys :
         keyFile' = [keyFile EXCEPT ![b] = k] \/ keyFile' = keyFile
  BY DEF CreatesKey
<1>2. k \in Keys /\ \A a \in Boxes : keyFile[a] # k
  BY DEF FreshKeys
<1>3. keyFile[b] = None
  BY DEF CreatesKey
<1>4. DOMAIN keyFile = Boxes /\ net' = net /\ trusts' = trusts /\ code' = code
  BY DEF KeyInv, OwnInv, TypeOK, CreatesKey, courierVars
<1>5. KeysDistinct'
  BY <1>1, <1>2, <1>4 DEF KeyInv, KeysDistinct
<1>6. ClaimsCoverKey'
  <2> SUFFICES ASSUME NEW m \in net, m.type = "claimed"
               PROVE  m.proof.transcript.key = keyFile'[m.box] /\ keyFile'[m.box] # None
    BY <1>4 DEF ClaimsCoverKey
  <2>1. m.box \in Boxes
    BY MessageKinds DEF KeyInv, OwnInv, TypeOK, FinishResponses
  <2>2. QED
    BY <1>1, <1>3, <1>4, <2>1 DEF KeyInv, ClaimsCoverKey
<1>7. PinnedKeyStays'
  <2> SUFFICES ASSUME NEW c \in Couriers, trusts[c] # None
               PROVE  {a \in Boxes : keyFile'[a] = trusts[c]} = {code[c]}
    BY <1>4 DEF PinnedKeyStays
  <2>1. {a \in Boxes : keyFile[a] = trusts[c]} = {code[c]}
    BY DEF KeyInv, PinnedKeyStays
  <2>2. code[c] \in Boxes /\ keyFile[code[c]] = trusts[c] /\ k # trusts[c]
    BY <1>2, <2>1
  <2>3. \A a \in Boxes : keyFile'[a] = trusts[c] <=> keyFile[a] = trusts[c]
    BY <1>1, <1>3, <1>4, <2>2
  <2>4. QED
    BY <2>1, <2>3
<1>8. QED
  BY <1>5, <1>6, <1>7

LEMMA KeyAccepts ==
    ASSUME KeyInv, NEW c \in Couriers, Accepts(c)
    PROVE  PinnedKeyStays'
<1>1. PICK i \in net, m \in net :
         /\ m.type = "claimed"
         /\ m.proof = Hmac(code[c], "benix-claim/box", Transcript(i.chal, c, i.key))
         /\ trusts' = [trusts EXCEPT ![c] = i.key]
  BY DEF Accepts
<1>2. m.proof.secret = code[c] /\ m.proof.transcript.key = i.key
  BY <1>1 DEF Hmac, Transcript
<1>3. m.box = code[c] /\ code[c] \in Boxes
  BY <1>1, <1>2 DEF KeyInv, OwnInv, ClaimsAreOwners, TypeOK
<1>4. keyFile[code[c]] = i.key /\ i.key # None
  BY <1>1, <1>2, <1>3 DEF KeyInv, ClaimsCoverKey
<1>5. {a \in Boxes : keyFile[a] = i.key} = {code[c]}
  BY <1>3, <1>4 DEF KeyInv, KeysDistinct
<1>6. \A d \in Couriers : trusts'[d] = IF d = c THEN i.key ELSE trusts[d]
  BY <1>1 DEF KeyInv, OwnInv, TypeOK
<1>7. QED
  BY <1>5, <1>6 DEF KeyInv, PinnedKeyStays, Accepts, boxVars

LEMMA KeyFinishCommits ==
    ASSUME KeyInv, NEW b \in Boxes, FinishCommits(b)
    PROVE  ClaimsCoverKey'
<1>1. PICK q \in verified[b] : net' = net \cup {FinishResponse(b, q)}
  BY DEF FinishCommits
<1>2. q \in FinishRequests
  BY MessageKinds DEF KeyInv, OwnInv, TypeOK
<1>3. Up(b) /\ boxKey[b] \in Keys /\ keyFile[b] = boxKey[b]
  BY DEF KeyInv, OwnInv, VerifiedProven, ServedKey, TypeOK, Up
<1>4. /\ FinishResponse(b, q).box = b
      /\ FinishResponse(b, q).proof.transcript.key = keyFile[b]
      /\ keyFile[b] # None
  BY <1>2, <1>3, FinishResponseType, HandshakeAssumption
<1>5. keyFile' = keyFile
  BY DEF FinishCommits
<1>6. QED
  BY <1>1, <1>4, <1>5 DEF KeyInv, ClaimsCoverKey

LEMMA KeyStep ==
    ASSUME ReadsFail = FALSE
    PROVE  KeyInv /\ [Next]_vars => KeyInv'
<1> SUFFICES ASSUME KeyInv, [Next]_vars PROVE KeyInv'
  OBVIOUS
<1>1. OwnInv'
  BY OwnStep DEF KeyInv
<1>2. ASSUME keyFile' = keyFile, net' = net, trusts' = trusts, code' = code
      PROVE  KeysDistinct' /\ ClaimsCoverKey' /\ PinnedKeyStays'
  BY <1>2 DEF KeyInv, KeysDistinct, ClaimsCoverKey, PinnedKeyStays
<1>3. ASSUME keyFile' = keyFile, trusts' = trusts, code' = code
      PROVE  KeysDistinct' /\ PinnedKeyStays'
  BY <1>3 DEF KeyInv, KeysDistinct, PinnedKeyStays
<1>4. ASSUME keyFile' = keyFile, NEW m, net' = net \cup {m}, m.type # "claimed"
      PROVE  ClaimsCoverKey'
  BY <1>4 DEF KeyInv, ClaimsCoverKey
<1>5. KeysDistinct' /\ ClaimsCoverKey' /\ PinnedKeyStays'
  <2>1. CASE UNCHANGED vars
    BY <2>1, <1>2 DEF vars
  <2>2. ASSUME NEW b \in Boxes,
               LoadsKey(b) \/ Crashes(b) \/ Expires(b) \/ FinishVerified(b)
                  \/ HubJoins(b)
        PROVE  KeysDistinct' /\ ClaimsCoverKey' /\ PinnedKeyStays'
    BY <2>2, <1>2 DEF LoadsKey, Crashes, Expires, FinishVerified, HubJoins, courierVars
  <2>3. ASSUME NEW b \in Boxes, CreatesKey(b)
        PROVE  KeysDistinct' /\ ClaimsCoverKey' /\ PinnedKeyStays'
    BY <2>3, KeyCreatesKey
  <2>4. ASSUME NEW b \in Boxes, Issues(b)
        PROVE  KeysDistinct' /\ ClaimsCoverKey' /\ PinnedKeyStays'
    <3>1. PICK q \in net :
             net' = net \cup {[type |-> "issued", box |-> b, client |-> q.client,
                               chal |-> q.chal, key |-> boxKey[b]]}
      BY <2>4 DEF Issues
    <3>2. ClaimsCoverKey'
      BY <3>1, <2>4, <1>4 DEF Issues
    <3>3. QED
      BY <3>2, <2>4, <1>3 DEF Issues, courierVars
  <2>5. ASSUME NEW b \in Boxes, FinishCommits(b)
        PROVE  KeysDistinct' /\ ClaimsCoverKey' /\ PinnedKeyStays'
    BY <2>5, <1>3, KeyFinishCommits DEF FinishCommits, courierVars
  <2>6. ASSUME NEW c \in Couriers, NEW b \in Boxes, Asks(c, b)
        PROVE  KeysDistinct' /\ ClaimsCoverKey' /\ PinnedKeyStays'
    <3> DEFINE m == [type |-> "challenge", box |-> b, client |-> c, chal |-> tries + 1]
    <3>1. net' = net \cup {m}
      BY <2>6 DEF Asks
    <3>2. m.type # "claimed"
      OBVIOUS
    <3>3. keyFile' = keyFile /\ trusts' = trusts /\ code' = code
      BY <2>6 DEF Asks, boxVars
    <3> HIDE DEF m
    <3>4. ClaimsCoverKey'
      BY <3>1, <3>2, <3>3, <1>4
    <3>5. QED
      BY <3>3, <3>4, <1>3
  <2>7. ASSUME NEW c \in Couriers, SendsFinish(c)
        PROVE  KeysDistinct' /\ ClaimsCoverKey' /\ PinnedKeyStays'
    <3>1. PICK i \in net, typed \in {code[c], Typo} :
             net' = net \cup {FinishFor(i, typed)}
      BY <2>7 DEF SendsFinish
    <3>2. FinishFor(i, typed).type # "claimed"
      BY DEF FinishFor
    <3>3. ClaimsCoverKey'
      BY <3>1, <3>2, <2>7, <1>4 DEF SendsFinish, boxVars
    <3>4. QED
      BY <3>3, <2>7, <1>3 DEF SendsFinish, boxVars, courierVars
  <2>8. ASSUME NEW c \in Couriers, Accepts(c)
        PROVE  KeysDistinct' /\ ClaimsCoverKey' /\ PinnedKeyStays'
    BY <2>8, KeyAccepts DEF KeyInv, KeysDistinct, ClaimsCoverKey, Accepts, boxVars
  <2>9. QED
    BY <2>1, <2>2, <2>3, <2>4, <2>5, <2>6, <2>7, <2>8 DEF Next
<1>6. QED
  BY <1>1, <1>5 DEF KeyInv

(***************************************************************************)
(* The key a Courier has pinned stays the key of its box and of no other,  *)
(* through restarts and failed writes, as long as the key file can be read.*)
(***************************************************************************)
THEOREM PinnedKeysStay == ReadsFail = FALSE => (Spec => []PinnedKeyStays)
<1> SUFFICES ASSUME ReadsFail = FALSE PROVE Spec => []PinnedKeyStays
  OBVIOUS
<1>1. KeyInv /\ [Next]_vars => KeyInv'
  BY KeyStep
<1>2. KeyInv => PinnedKeyStays
  BY DEF KeyInv
<1>3. QED
  BY <1>1, <1>2, KeyInit, PTL DEF Spec
=============================================================================
