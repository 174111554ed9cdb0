--------------------------- MODULE SystemTpmProofs --------------------------
(***************************************************************************)
(* What SystemTpm answers is true of the TPM, for every set of values,     *)
(* every number of orphaned tools and every set of faults.                 *)
(***************************************************************************)
EXTENDS SystemTpm, SequenceTheorems, TLAPS

(* The handle's process is the only one that is the agent's. *)
ParentInv ==
    \A k \in Children :
        /\ kids[k].parent = "agent" <=> child = k
        /\ kids[k].writer <=> child = k /\ pc = "write"
        /\ child = k => kids[k].state # "free"

(* How far a process is, against what it was given. *)
KidInv ==
    \A k \in Children :
        /\ kids[k].ok => kids[k].state = "zombie"
        /\ kids[k].writer => kids[k].state \in {"running", "zombie"} /\ ~kids[k].ok
        /\ child = k /\ pc = "wait" =>
              /\ kids[k].text = HexAuth(value)
              /\ kids[k].state = "changed" \/ kids[k].ok => lockoutAuth = value

(* What the call has drawn and answered. *)
CallInv ==
    /\ pc \in {"open", "signals", "spawn"} => value = None
    /\ child # None => value # None
    /\ pc # "idle" <=> answer = "pending"

Inv == TypeOK /\ ParentInv /\ KidInv /\ CallInv /\ NeverTruncated /\ AnswersTrue

-----------------------------------------------------------------------------
(* The hex text. *)

LEMMA ValueType ==
    ASSUME NEW v \in Values
    PROVE  /\ v \in Seq(0 .. 255) /\ v # <<>> /\ v # None
           /\ Len(v) \in Nat \ {0}
           /\ \A i \in 1 .. Len(v) : v[i] \in 0 .. 255
<1>1. v \in Seq(0 .. 255) /\ v # <<>> /\ v # None
  BY ValuesAssumption
<1>2. Len(v) \in Nat \ {0} /\ \A i \in 1 .. Len(v) : v[i] \in 0 .. 255
  BY <1>1, EmptySeq, ElementOfSeq
<1>3. QED
  BY <1>1, <1>2

(* A nibble survives its digit, and no digit is a NUL. *)
LEMMA DigitRoundTrip ==
    ASSUME NEW n \in 0 .. 15
    PROVE  Digit(n) \in 48 .. 102 /\ Nibble(Digit(n)) = n
BY SMT DEF Digit, Nibble

(* The two nibbles of a byte. *)
LEMMA ByteSplit ==
    ASSUME NEW b \in 0 .. 255
    PROVE  b \div 16 \in 0 .. 15 /\ b % 16 \in 0 .. 15 /\ 16 * (b \div 16) + (b % 16) = b
BY SMT

LEMMA FunctionIsSeq ==
    ASSUME NEW S, NEW n \in Nat, NEW f \in [1 .. n -> S]
    PROVE  f \in Seq(S) /\ Len(f) = n
  OBVIOUS

(* A sequence of non-zero bytes has no NUL. *)
LEMMA NoNul ==
    ASSUME NEW s \in Seq(1 .. 255)
    PROVE  \A i \in DOMAIN s : s[i] # 0
<1>1. ASSUME NEW i \in DOMAIN s
      PROVE  s[i] # 0
  <2>1. i \in 1 .. Len(s)
    BY LenProperties
  <2>2. s[i] \in 1 .. 255
    BY <2>1, ElementOfSeq
  <2>3. \A x \in 1 .. 255 : x # 0
    OBVIOUS
  <2>4. QED
    BY <2>2, <2>3, Zenon
<1>2. QED
  BY <1>1

(* The digits of a value, by position. *)
LEMMA HexShape ==
    ASSUME NEW v \in Values
    PROVE  /\ HexAuth(v) \in Seq(1 .. 255)
           /\ Len(HexAuth(v)) = 4 + 2 * Len(v)
           /\ SubSeq(HexAuth(v), 1, 4) = HexPrefix
           /\ \A i \in 1 .. Len(v) :
                 /\ HexAuth(v)[2 * i + 3] = Digit(v[i] \div 16)
                 /\ HexAuth(v)[2 * i + 4] = Digit(v[i] % 16)
<1> DEFINE d == [i \in 1 .. 2 * Len(v) |->
                    Digit(IF i % 2 = 1 THEN v[(i + 1) \div 2] \div 16 ELSE v[i \div 2] % 16)]
<1>1. Len(v) \in Nat /\ 2 * Len(v) \in Nat
  BY ValueType
<1>2. ASSUME NEW i \in 1 .. 2 * Len(v)
      PROVE  d[i] \in 48 .. 102
  <2>1. CASE i % 2 = 1
    <3>1. (i + 1) \div 2 \in 1 .. Len(v)
      BY <1>1, <2>1, SMT
    <3>2. v[(i + 1) \div 2] \div 16 \in 0 .. 15
      BY <3>1, ValueType, ByteSplit
    <3>3. QED
      BY <2>1, <3>2, DigitRoundTrip
  <2>2. CASE i % 2 # 1
    <3>1. i \div 2 \in 1 .. Len(v)
      BY <1>1, <2>2, SMT
    <3>2. v[i \div 2] % 16 \in 0 .. 15
      BY <3>1, ValueType, ByteSplit
    <3>3. QED
      BY <2>2, <3>2, DigitRoundTrip
  <2>3. QED
    BY <2>1, <2>2
<1>3. d \in Seq(1 .. 255) /\ Len(d) = 2 * Len(v)
  <2>1. d = [i \in 1 .. 2 * Len(v) |-> d[i]]
    OBVIOUS
  <2> HIDE DEF d
  <2>2. \A i \in 1 .. 2 * Len(v) : d[i] \in 1 .. 255
    BY <1>2
  <2>3. d \in [1 .. 2 * Len(v) -> 1 .. 255]
    BY <2>1, <2>2, Zenon
  <2>4. \A n \in Nat : d \in [1 .. n -> 1 .. 255] => d \in Seq(1 .. 255) /\ Len(d) = n
    BY FunctionIsSeq
  <2>5. QED
    BY <1>1, <2>3, <2>4, Zenon
<1>4. HexPrefix \in Seq(1 .. 255) /\ Len(HexPrefix) = 4
  BY DEF HexPrefix
<1>5. HexAuth(v) = HexPrefix \o d
  BY DEF HexAuth
<1>6. ASSUME NEW i \in 1 .. Len(v)
      PROVE  d[2 * i - 1] = Digit(v[i] \div 16) /\ d[2 * i] = Digit(v[i] % 16)
  <2>1. 2 * i - 1 \in 1 .. 2 * Len(v) /\ 2 * i \in 1 .. 2 * Len(v)
    BY <1>1, SMT
  <2>2. (2 * i - 1) % 2 = 1 /\ (2 * i) % 2 = 0
    BY SMT
  <2>3. ((2 * i - 1) + 1) \div 2 = i /\ (2 * i) \div 2 = i
    BY SMT
  <2>4. QED
    BY <2>1, <2>2, <2>3
<1> HIDE DEF d
<1>7. /\ HexAuth(v) \in Seq(1 .. 255) /\ Len(HexAuth(v)) = 4 + 2 * Len(v)
      /\ \A j \in 1 .. 4 + 2 * Len(v) :
            HexAuth(v)[j] = IF j <= 4 THEN HexPrefix[j] ELSE d[j - 4]
  <2>1. /\ HexPrefix \o d \in Seq(1 .. 255)
        /\ Len(HexPrefix \o d) = Len(HexPrefix) + Len(d)
        /\ \A j \in 1 .. Len(HexPrefix) + Len(d) :
              (HexPrefix \o d)[j] = IF j <= Len(HexPrefix) THEN HexPrefix[j]
                                    ELSE d[j - Len(HexPrefix)]
    BY <1>3, <1>4, ConcatProperties, Zenon
  <2>2. QED
    BY <1>3, <1>4, <1>5, <2>1
<1>8. \A j \in 1 .. 2 * Len(v) : HexAuth(v)[j + 4] = d[j]
  BY <1>1, <1>7
<1>9. SubSeq(HexAuth(v), 1, 4) = HexPrefix
  <2>1. \A j \in 1 .. 4 : HexAuth(v)[j] = HexPrefix[j]
    BY <1>1, <1>7
  <2>2. SubSeq(HexAuth(v), 1, 4) = [j \in 1 .. 4 |-> HexAuth(v)[j]]
    BY <1>1, <1>7
  <2>3. HexPrefix = [j \in 1 .. 4 |-> HexPrefix[j]]
    BY DEF HexPrefix
  <2>4. QED
    BY <2>1, <2>2, <2>3
<1>10. ASSUME NEW i \in 1 .. Len(v)
       PROVE  /\ HexAuth(v)[2 * i + 3] = Digit(v[i] \div 16)
              /\ HexAuth(v)[2 * i + 4] = Digit(v[i] % 16)
  <2>1. 2 * i - 1 \in 1 .. 2 * Len(v) /\ 2 * i \in 1 .. 2 * Len(v)
    BY <1>1, SMT
  <2>2. (2 * i - 1) + 4 = 2 * i + 3
    BY SMT
  <2>3. HexAuth(v)[2 * i + 3] = d[2 * i - 1] /\ HexAuth(v)[2 * i + 4] = d[2 * i]
    BY <1>8, <2>1, <2>2
  <2>4. QED
    BY <1>6, <2>3
<1>11. QED
  BY <1>7, <1>9, <1>10

(***************************************************************************)
(* The hex text carries the whole value through a reader that stops at a   *)
(* NUL, whatever bytes the value has (write_hex_auth_and_wait, CA-1b).     *)
(***************************************************************************)
THEOREM HexRoundTrip ==
    ASSUME NEW v \in Values
    PROVE  Parsed(CString(HexAuth(v))) = v
<1> DEFINE t == HexAuth(v)
<1>1. t \in Seq(1 .. 255) /\ Len(t) = 4 + 2 * Len(v) /\ SubSeq(t, 1, 4) = HexPrefix
  BY HexShape
<1>2. CString(t) = t
  <2>1. \A i \in DOMAIN t : t[i] # 0
    BY <1>1, NoNul
  <2>2. {i \in DOMAIN t : t[i] = 0} = {}
    BY <2>1
  <2>3. QED
    BY <2>2 DEF CString
<1>3. Len(v) \in Nat /\ Len(t) >= 4 /\ (Len(t) - 4) \div 2 = Len(v)
  <2>1. Len(v) \in Nat
    BY ValueType
  <2>2. QED
    BY <1>1, <2>1, SMT
<1>4. ASSUME NEW i \in 1 .. Len(v)
      PROVE  16 * Nibble(t[2 * i + 3]) + Nibble(t[2 * i + 4]) = v[i]
  <2>1. v[i] \in 0 .. 255
    BY ValueType
  <2>2. t[2 * i + 3] = Digit(v[i] \div 16) /\ t[2 * i + 4] = Digit(v[i] % 16)
    BY HexShape
  <2>3. Nibble(t[2 * i + 3]) = v[i] \div 16 /\ Nibble(t[2 * i + 4]) = v[i] % 16
    BY <2>1, <2>2, ByteSplit, DigitRoundTrip
  <2>4. QED
    BY <2>1, <2>3, ByteSplit
<1> HIDE DEF t
<1>5. Parsed(t) = [i \in 1 .. Len(v) |-> 16 * Nibble(t[2 * i + 3]) + Nibble(t[2 * i + 4])]
  BY <1>1, <1>3 DEF Parsed
<1>6. Parsed(t) = [i \in 1 .. Len(v) |-> v[i]]
  BY <1>4, <1>5
<1>7. v = [i \in 1 .. Len(v) |-> v[i]]
  BY ValueType
<1>8. QED
  BY <1>2, <1>6, <1>7 DEF t

(* A tool whose agent died before it wrote changes nothing. *)
LEMMA EmptyText == Parsed(CString(<<>>)) = Factory
BY DEF Parsed, CString, Factory

-----------------------------------------------------------------------------
(* The invariant. *)

(* What the proofs use of the processes' records. *)
LEMMA KidShape ==
    /\ Free \in Kid /\ Free.state = "free" /\ Free.parent = "init"
    /\ ~Free.writer /\ ~Free.ok
    /\ Spawned \in Kid /\ Spawned.state = "running" /\ Spawned.parent = "agent"
    /\ Spawned.writer /\ ~Spawned.ok
BY DEF Free, Spawned, Kid

LEMMA FactoryIsNotNone == Factory # None /\ Factory \in Seq(0 .. 255) /\ Factory \notin Values
<1>1. <<>> \in Seq(0 .. 255)
  BY EmptySeq
<1>2. QED
  BY <1>1, ValuesAssumption DEF Factory

LEMMA InvInit == Init => Inv
<1> SUFFICES ASSUME Init
             PROVE  Inv
    OBVIOUS
<1>1. TypeOK
  BY KidShape, FactoryIsNotNone DEF Init, TypeOK, Steps, Answers
<1>2. ParentInv /\ KidInv
  BY KidShape, ValuesAssumption DEF Init, ParentInv, KidInv
<1>3. QED
  BY <1>1, <1>2 DEF Init, Inv, CallInv, NeverTruncated, AnswersTrue

(* The call's steps that leave the processes alone. *)
LEMMA DetectStep ==
    ASSUME Inv,
           Starts \/ OpensNode \/ NodeNotFound \/ OpenFails \/ ChecksSignals \/ SpawnFails
    PROVE  Inv'
<1> USE DEF Inv
<1>1. /\ UNCHANGED <<node, lockoutAuth, child, kids>>
      /\ pc \in {"idle", "open", "signals", "spawn"}
      /\ pc' \in {"idle", "open", "signals", "spawn"}
      /\ child = None
  BY DEF Starts, OpensNode, NodeNotFound, OpenFails, ChecksSignals, SpawnFails, Answer, TypeOK
<1>2. TypeOK'
  BY <1>1 DEF Starts, OpensNode, NodeNotFound, OpenFails, ChecksSignals, SpawnFails, Answer,
     TypeOK, Steps, Answers
<1>3. ParentInv' /\ KidInv'
  BY <1>1 DEF ParentInv, KidInv
<1>4. CallInv' /\ NeverTruncated' /\ AnswersTrue'
  BY <1>1 DEF Starts, OpensNode, NodeNotFound, OpenFails, ChecksSignals, SpawnFails, Answer,
     CallInv, NeverTruncated, AnswersTrue, TypeOK
<1>5. QED
  BY <1>2, <1>3, <1>4

LEMMA SpawnStep ==
    ASSUME Inv, Spawns
    PROVE  Inv'
<1> USE DEF Inv
<1>1. PICK k \in Children : /\ kids[k].state = "free" /\ child' = k
                            /\ kids' = [kids EXCEPT ![k] = Spawned]
  BY DEF Spawns
<1>2. /\ UNCHANGED <<node, lockoutAuth, answer>> /\ value' \in Values
      /\ pc = "spawn" /\ pc' = "write" /\ child = None
  BY DEF Spawns, TypeOK
<1>3. /\ kids'[k] = Spawned /\ \A x \in Children \ {k} : kids'[x] = kids[x]
      /\ kids' \in [Children -> Kid] /\ k # None
  BY <1>1, KidShape, ValuesAssumption DEF TypeOK
<1>4. TypeOK'
  BY <1>1, <1>2, <1>3 DEF TypeOK, Steps
<1>5. ParentInv'
  <2>1. \A x \in Children : kids[x].parent # "agent" /\ ~kids[x].writer
    BY <1>2, ValuesAssumption DEF ParentInv
  <2>2. QED
    BY <1>1, <1>2, <1>3, <2>1, KidShape DEF ParentInv
<1>6. KidInv'
  BY <1>1, <1>2, <1>3, KidShape DEF KidInv, ParentInv
<1>7. CallInv' /\ NeverTruncated' /\ AnswersTrue'
  BY <1>1, <1>2, ValueType DEF CallInv, NeverTruncated, AnswersTrue
<1>8. QED
  BY <1>4, <1>5, <1>6, <1>7

(* The write, or its failure, on the handle's process. *)
LEMMA WriteStep ==
    ASSUME Inv, Writes \/ WriteFails
    PROVE  Inv'
<1> USE DEF Inv
<1>1. /\ UNCHANGED <<node, lockoutAuth, value, answer, child>> /\ pc = "write"
      /\ pc' \in {"wait", "kill"} /\ child \in Children /\ value \in Values
  BY DEF Writes, WriteFails, TypeOK, CallInv
<1>2. /\ \A x \in Children \ {child} : kids'[x] = kids[x]
      /\ kids' \in [Children -> Kid]
      /\ kids'[child].state = kids[child].state /\ kids'[child].ok = kids[child].ok
      /\ kids'[child].parent = kids[child].parent /\ ~kids'[child].writer
      /\ pc' = "wait" => kids'[child].text = HexAuth(value)
  <2>1. kids[child] \in Kid /\ HexAuth(value) \in {HexAuth(v) : v \in Values}
    BY <1>1 DEF TypeOK
  <2>2. CASE Writes
    <3> DEFINE kid == [kids[child] EXCEPT !.text = HexAuth(value), !.writer = FALSE]
    <3>1. kids' = [kids EXCEPT ![child] = kid]
      BY <2>2 DEF Writes
    <3>2. /\ kid \in Kid /\ ~kid.writer /\ kid.text = HexAuth(value)
          /\ kid.state = kids[child].state /\ kid.ok = kids[child].ok
          /\ kid.parent = kids[child].parent
      BY <2>1 DEF Kid
    <3> HIDE DEF kid
    <3>3. QED
      BY <1>1, <3>1, <3>2 DEF TypeOK
  <2>3. CASE WriteFails
    <3> DEFINE kid == [kids[child] EXCEPT !.writer = FALSE]
    <3>1. kids' = [kids EXCEPT ![child] = kid] /\ pc' = "kill"
      BY <2>3 DEF WriteFails
    <3>2. /\ kid \in Kid /\ ~kid.writer
          /\ kid.state = kids[child].state /\ kid.ok = kids[child].ok
          /\ kid.parent = kids[child].parent
      BY <2>1 DEF Kid
    <3> HIDE DEF kid
    <3>3. QED
      BY <1>1, <3>1, <3>2 DEF TypeOK
  <2>4. QED
    BY <2>2, <2>3
<1>3. kids[child].state \in {"running", "zombie"} /\ ~kids[child].ok
  BY <1>1 DEF ParentInv, KidInv
<1>4. TypeOK'
  BY <1>1, <1>2 DEF TypeOK, Steps
<1>5. ParentInv'
  BY <1>1, <1>2 DEF ParentInv
<1>6. KidInv'
  BY <1>1, <1>2, <1>3 DEF KidInv, ParentInv
<1>7. CallInv' /\ NeverTruncated' /\ AnswersTrue'
  BY <1>1 DEF CallInv, NeverTruncated, AnswersTrue
<1>8. QED
  BY <1>4, <1>5, <1>6, <1>7

LEMMA KillStep ==
    ASSUME Inv, Kills
    PROVE  Inv'
<1> USE DEF Inv
<1>1. /\ UNCHANGED <<node, lockoutAuth, value, answer, child>> /\ pc = "kill"
      /\ pc' = "reap" /\ child \in Children
  BY DEF Kills, TypeOK
<1>2. /\ \A x \in Children \ {child} : kids'[x] = kids[x]
      /\ kids' \in [Children -> Kid]
      /\ kids'[child].state = "zombie"
      /\ kids'[child].parent = kids[child].parent /\ kids'[child].writer = kids[child].writer
  <2>1. kids[child] \in Kid
    BY <1>1 DEF TypeOK
  <2>2. CASE kids[child].state = "zombie"
    BY <1>1, <2>2 DEF Kills, TypeOK
  <2>3. CASE kids[child].state # "zombie"
    <3> DEFINE kid == [kids[child] EXCEPT !.state = "zombie", !.stdin = FALSE, !.ok = FALSE]
    <3>1. kids' = [kids EXCEPT ![child] = kid]
      BY <2>3 DEF Kills
    <3>2. /\ kid \in Kid /\ kid.state = "zombie" /\ kid.writer = kids[child].writer
          /\ kid.parent = kids[child].parent
      BY <2>1 DEF Kid
    <3> HIDE DEF kid
    <3>3. QED
      BY <1>1, <3>1, <3>2 DEF TypeOK
  <2>4. QED
    BY <2>2, <2>3
<1>3. ~kids[child].writer
  BY <1>1 DEF ParentInv
<1>4. TypeOK'
  BY <1>1, <1>2 DEF TypeOK, Steps
<1>5. ParentInv' /\ KidInv'
  BY <1>1, <1>2, <1>3 DEF ParentInv, KidInv
<1>6. CallInv' /\ NeverTruncated' /\ AnswersTrue'
  BY <1>1 DEF CallInv, NeverTruncated, AnswersTrue
<1>7. QED
  BY <1>4, <1>5, <1>6

(* The process is reaped and its exit status becomes the answer. *)
LEMMA WaitStep ==
    ASSUME Inv, Reaps \/ Waits
    PROVE  Inv'
<1> USE DEF Inv
<1>1. /\ UNCHANGED <<node, lockoutAuth, value>> /\ pc \in {"reap", "wait"} /\ pc' = "idle"
      /\ child \in Children /\ child' = None /\ answer' \in {"failed", "discarded"}
      /\ kids' = [kids EXCEPT ![child] = Free]
  BY DEF Reaps, Waits, Answer, TypeOK
<1>2. /\ \A x \in Children \ {child} : kids'[x] = kids[x]
      /\ kids'[child] = Free /\ kids' \in [Children -> Kid] /\ None \notin Children
  BY <1>1, KidShape, ValuesAssumption DEF TypeOK
<1>3. answer' = "discarded" => lockoutAuth = value /\ value # None
  BY <1>1 DEF Reaps, Waits, Answer, KidInv, CallInv, TypeOK
<1>4. TypeOK'
  BY <1>1, <1>2 DEF TypeOK, Steps, Answers
<1>5. ParentInv' /\ KidInv'
  BY <1>1, <1>2, KidShape DEF ParentInv, KidInv
<1>6. CallInv' /\ NeverTruncated' /\ AnswersTrue'
  BY <1>1, <1>3 DEF CallInv, NeverTruncated, AnswersTrue
<1>7. QED
  BY <1>4, <1>5, <1>6

(* A step of a tool that leaves the TPM alone. *)
LEMMA ToolFrame ==
    ASSUME Inv, NEW k \in Children, NEW kid \in Kid,
           kids' = [kids EXCEPT ![k] = kid],
           UNCHANGED <<node, lockoutAuth, pc, value, answer, child>>,
           kid.parent = kids[k].parent, kid.text = kids[k].text \/ child # k,
           kid.writer = kids[k].writer,
           child = k => kid.state # "free",
           kid.ok => kid.state = "zombie",
           kid.writer => kid.state \in {"running", "zombie"} /\ ~kid.ok,
           kid.ok => kids[k].state = "changed" \/ kids[k].ok,
           kid.state # "changed"
    PROVE  Inv'
<1> USE DEF Inv
<1>1. kids'[k] = kid /\ \A x \in Children \ {k} : kids'[x] = kids[x]
  BY DEF TypeOK
<1>2. TypeOK'
  BY DEF TypeOK
<1>3. ParentInv'
  BY <1>1 DEF ParentInv
<1>4. KidInv'
  BY <1>1 DEF KidInv
<1>5. QED
  BY <1>2, <1>3, <1>4 DEF CallInv, NeverTruncated, AnswersTrue

LEMMA ToolStep ==
    ASSUME Inv, NEW k \in Children,
           ToolReads(k) \/ ToolExits(k) \/ ToolFails(k) \/ ToolHangsUp(k)
    PROVE  Inv'
<1>1. /\ kids[k] \in Kid /\ UNCHANGED <<node, lockoutAuth, pc, value, answer, child>>
      /\ kids[k].ok => kids[k].state = "zombie"
      /\ kids[k].writer => kids[k].state \in {"running", "zombie"} /\ ~kids[k].ok
      /\ child = k => kids[k].state # "free" /\ kids[k].parent = "agent"
  BY DEF ToolReads, ToolExits, ToolFails, ToolHangsUp, Inv, TypeOK, KidInv, ParentInv
<1>2. CASE ToolReads(k)
  <2> DEFINE kid == [kids[k] EXCEPT !.state = "loaded"]
  <2>1. kids' = [kids EXCEPT ![k] = kid] /\ ~kids[k].writer /\ kids[k].state = "running"
    BY <1>2 DEF ToolReads
  <2>2. /\ kid \in Kid /\ kid.parent = kids[k].parent /\ kid.text = kids[k].text
        /\ kid.writer = kids[k].writer /\ kid.state = "loaded" /\ kid.ok = kids[k].ok
    BY <1>1 DEF Kid
  <2> HIDE DEF kid
  <2>3. QED
    BY <1>1, <2>1, <2>2, ToolFrame
<1>3. CASE ToolHangsUp(k)
  <2> DEFINE kid == [kids[k] EXCEPT !.stdin = FALSE]
  <2>1. kids' = [kids EXCEPT ![k] = kid] /\ kids[k].state = "running"
    BY <1>3 DEF ToolHangsUp
  <2>2. /\ kid \in Kid /\ kid.parent = kids[k].parent /\ kid.text = kids[k].text
        /\ kid.writer = kids[k].writer /\ kid.state = kids[k].state /\ kid.ok = kids[k].ok
    BY <1>1 DEF Kid
  <2> HIDE DEF kid
  <2>3. QED
    BY <1>1, <2>1, <2>2, ToolFrame
<1>4. ASSUME NEW status \in BOOLEAN, Ends(k, status), status => kids[k].state = "changed",
             kids[k].writer => ~status
      PROVE  Inv'
  <2>1. CASE kids[k].parent = "init"
    <3>1. kids' = [kids EXCEPT ![k] = Free] /\ child # k /\ ~kids[k].writer
      BY <1>1, <1>4, <2>1 DEF Ends, Inv, ParentInv
    <3>2. /\ Free \in Kid /\ Free.parent = kids[k].parent /\ Free.writer = kids[k].writer
          /\ ~Free.ok /\ ~Free.writer /\ Free.state # "changed"
      <4>1. kids[k].writer = FALSE
        BY <1>1, <3>1 DEF Kid
      <4>2. QED
        BY <2>1, <4>1, KidShape DEF Free
    <3>3. QED
      BY <1>1, <3>1, <3>2, ToolFrame
  <2>2. CASE kids[k].parent # "init"
    <3> DEFINE kid == [kids[k] EXCEPT !.state = "zombie", !.stdin = FALSE, !.ok = status]
    <3>1. kids' = [kids EXCEPT ![k] = kid]
      BY <1>4, <2>2 DEF Ends
    <3>2. /\ kid \in Kid /\ kid.parent = kids[k].parent /\ kid.text = kids[k].text
          /\ kid.writer = kids[k].writer /\ kid.state = "zombie" /\ kid.ok = status
      BY <1>1 DEF Kid
    <3> HIDE DEF kid
    <3>3. QED
      BY <1>1, <1>4, <3>1, <3>2, ToolFrame
  <2>3. QED
    BY <2>1, <2>2
<1>5. CASE ToolExits(k)
  <2>1. CASE kids[k].state = "changed" /\ Ends(k, TRUE)
    BY <1>1, <1>4, <2>1
  <2>2. CASE Ends(k, FALSE)
    BY <1>4, <2>2
  <2>3. QED
    BY <1>5, <2>1, <2>2 DEF ToolExits
<1>6. CASE ToolFails(k)
  BY <1>4, <1>6 DEF ToolFails
<1>7. QED
  BY <1>2, <1>3, <1>5, <1>6

(***************************************************************************)
(* The TPM takes what the tool read: nothing, or the whole of a value.     *)
(***************************************************************************)
LEMMA ChangeStep ==
    ASSUME Inv, NEW k \in Children, ToolChanges(k)
    PROVE  /\ Inv'
           /\ lockoutAuth = Factory /\ lockoutAuth' \in {Factory} \cup Values
           /\ UNCHANGED <<value, answer>>
<1> USE DEF Inv
<1>1. /\ UNCHANGED <<node, pc, value, answer, child>> /\ lockoutAuth = Factory
      /\ kids[k].state = "loaded" /\ kids[k] \in Kid
      /\ lockoutAuth' = Parsed(CString(kids[k].text))
  BY DEF ToolChanges, TypeOK
<1> DEFINE kid == [kids[k] EXCEPT !.state = "changed"]
<1>2. kids' = [kids EXCEPT ![k] = kid]
  BY DEF ToolChanges
<1>3. /\ kid \in Kid /\ kid.parent = kids[k].parent /\ kid.text = kids[k].text
      /\ kid.writer = kids[k].writer /\ kid.state = "changed" /\ kid.ok = kids[k].ok
  BY <1>1 DEF Kid
<1> HIDE DEF kid
<1>4. kids'[k] = kid /\ \A x \in Children \ {k} : kids'[x] = kids[x]
  BY <1>2 DEF TypeOK
<1>5. lockoutAuth' \in {Factory} \cup Values
  <2>1. kids[k].text = <<>> \/ \E v \in Values : kids[k].text = HexAuth(v)
    BY <1>1 DEF Kid
  <2>2. QED
    BY <1>1, <2>1, EmptyText, HexRoundTrip
<1>6. child = k /\ pc = "wait" => lockoutAuth' = value
  <2>1. ASSUME child = k, pc = "wait"
        PROVE  lockoutAuth' = value
    <3>1. kids[k].text = HexAuth(value) /\ value \in Values
      BY <2>1, ValuesAssumption DEF KidInv, CallInv, TypeOK
    <3>2. QED
      BY <1>1, <3>1, HexRoundTrip
  <2>2. QED
    BY <2>1
<1>7. ~kids[k].ok /\ ~kids[k].writer
  BY <1>1 DEF KidInv
<1>8. \A x \in Children \ {k} : child = x /\ pc = "wait" => kids[x].state # "changed" /\ ~kids[x].ok
  <2>1. ASSUME NEW x \in Children, child = x, pc = "wait", kids[x].state = "changed" \/ kids[x].ok
        PROVE  FALSE
    <3>1. lockoutAuth = value /\ value \in Values
      BY <2>1, ValuesAssumption DEF KidInv, CallInv, TypeOK
    <3>2. QED
      BY <1>1, <3>1, FactoryIsNotNone
  <2>2. QED
    BY <2>1
<1>9. TypeOK'
  <2>1. lockoutAuth' # None /\ lockoutAuth' \in Seq(0 .. 255)
    BY <1>5, FactoryIsNotNone, ValueType
  <2>2. node # "none"
    BY <1>1, FactoryIsNotNone DEF TypeOK
  <2>3. QED
    BY <1>1, <1>2, <1>3, <2>1, <2>2 DEF TypeOK
<1>10. ParentInv'
  BY <1>1, <1>3, <1>4 DEF ParentInv
<1>11. KidInv'
  BY <1>1, <1>3, <1>4, <1>6, <1>7, <1>8 DEF KidInv
<1>12. AnswersTrue'
  <2>1. answer # "discarded"
    BY <1>1, FactoryIsNotNone DEF AnswersTrue, TypeOK
  <2>2. answer # "absent"
    BY <1>1, FactoryIsNotNone DEF AnswersTrue
  <2>3. QED
    BY <1>1, <2>1, <2>2 DEF AnswersTrue
<1>13. QED
  BY <1>1, <1>5, <1>9, <1>10, <1>11, <1>12 DEF CallInv, NeverTruncated

LEMMA CrashStep ==
    ASSUME Inv, Crash
    PROVE  Inv'
<1> USE DEF Inv
<1>1. /\ UNCHANGED <<node, lockoutAuth>> /\ pc' = "idle" /\ answer' = "none"
      /\ value' = None /\ child' = None /\ None \notin Children
  BY ValuesAssumption DEF Crash
<1>2. ASSUME NEW k \in Children
      PROVE  /\ kids'[k] \in Kid /\ kids'[k].parent = "init" /\ ~kids'[k].writer
             /\ kids'[k].ok => kids'[k].state = "zombie"
  <2>1. kids[k] \in Kid /\ (kids[k].ok => kids[k].state = "zombie")
    BY DEF TypeOK, KidInv
  <2>2. CASE kids[k].parent = "agent" /\ kids[k].state = "zombie"
    BY <2>2, KidShape DEF Crash
  <2>3. CASE ~(kids[k].parent = "agent" /\ kids[k].state = "zombie")
    <3> DEFINE kid == [kids[k] EXCEPT !.parent = "init", !.writer = FALSE]
    <3>1. kids'[k] = kid
      BY <2>3 DEF Crash
    <3>2. /\ kid \in Kid /\ kid.parent = "init" /\ ~kid.writer
          /\ kid.ok = kids[k].ok /\ kid.state = kids[k].state
      BY <2>1 DEF Kid
    <3> HIDE DEF kid
    <3>3. QED
      BY <2>1, <3>1, <3>2
  <2>4. QED
    BY <2>2, <2>3
<1>3. kids' \in [Children -> Kid]
  <2>1. kids' = [k \in Children |-> kids'[k]]
    BY DEF Crash
  <2>2. QED
    BY <1>2, <2>1
<1>4. TypeOK'
  BY <1>1, <1>3 DEF TypeOK, Steps, Answers
<1>5. ParentInv' /\ KidInv'
  BY <1>1, <1>2 DEF ParentInv, KidInv
<1>6. QED
  BY <1>1, <1>4, <1>5 DEF CallInv, NeverTruncated, AnswersTrue

LEMMA InvStep == Inv /\ [Next]_vars => Inv'
<1> SUFFICES ASSUME Inv, [Next]_vars
             PROVE  Inv'
    OBVIOUS
<1>1. CASE NodeAppears
  <2>1. node' # "none" /\ node # "none" /\ node' \in {"none", "raw", "managed"}
    BY <1>1 DEF NodeAppears
  <2>2. QED
    BY <1>1, <2>1 DEF NodeAppears, Inv, TypeOK, ParentInv, KidInv, CallInv, NeverTruncated,
       AnswersTrue
<1>2. CASE UNCHANGED vars
  BY <1>2 DEF vars, Inv, TypeOK, ParentInv, KidInv, CallInv, NeverTruncated, AnswersTrue
<1>3. QED
  BY <1>1, <1>2, DetectStep, SpawnStep, WriteStep, KillStep, WaitStep, ToolStep, ChangeStep,
     CrashStep DEF Next, Call, Tool

(* The inductive invariant of the call, its child process and the TPM. *)
THEOREM TpmInvariance == Spec => []Inv
BY InvInit, InvStep, PTL DEF Spec

-----------------------------------------------------------------------------
(* The properties. *)

(* The handle and the fields have their types (discard_lockout_auth). *)
THEOREM TpmTypes == Spec => []TypeOK
BY TpmInvariance, PTL DEF Inv

(***************************************************************************)
(* "discarded" is answered while the TPM holds all of this call's value,   *)
(* "absent" of a box without a TPM (detect, discard_lockout_auth).         *)
(***************************************************************************)
THEOREM AnswersAreTrue == Spec => []AnswersTrue
BY TpmInvariance, PTL DEF Inv

(***************************************************************************)
(* No value is cut short on its way, the orphan's of a killed agent        *)
(* neither (write_hex_auth_and_wait).                                      *)
(***************************************************************************)
THEOREM NoValueIsCut == Spec => []NeverTruncated
BY TpmInvariance, PTL DEF Inv

(* A call that has answered leaves no process and no pipe behind it. *)
THEOREM NoToolIsLeft == Spec => []NothingLeft
<1>1. ASSUME Inv
      PROVE  NothingLeft
  <2>1. pc = "idle" => child \notin Children
    BY <1>1, ValuesAssumption DEF Inv, TypeOK
  <2>2. \A k \in Children : kids[k].parent \in {"agent", "init"}
    BY <1>1 DEF Inv, TypeOK, Kid
  <2>3. QED
    BY <1>1, <2>1, <2>2 DEF Inv, ParentInv, NothingLeft
<1>2. QED
  BY <1>1, TpmInvariance, PTL

-----------------------------------------------------------------------------
(* The refinement. *)

LEMMA AbstractInit == Init => Abstract!Init
BY DEF Init, Abstract!Init

(* Every step is one of TpmCall's, or none of its variables moves. *)
LEMMA AbstractStep ==
    ASSUME Inv, [Next]_vars
    PROVE  [Abstract!Next]_<<lockoutAuth, value, answer>>
<1> USE DEF Inv
<1>1. CASE Starts
  BY <1>1 DEF Starts, Abstract!Next, Abstract!Ask
<1>2. CASE OpenFails
  BY <1>2 DEF OpenFails, Answer, CallInv, Abstract!Next, Abstract!Answer
<1>3. CASE ChecksSignals
  BY <1>3 DEF ChecksSignals, Answer, CallInv, TypeOK, Abstract!Next, Abstract!Answer
<1>4. CASE Spawns
  BY <1>4 DEF Spawns, CallInv, Abstract!Next, Abstract!Draw
<1>5. CASE SpawnFails
  BY <1>5 DEF SpawnFails, Answer, CallInv, Abstract!Next, Abstract!Answer
<1>6. CASE Reaps
  BY <1>6 DEF Reaps, Answer, CallInv, Abstract!Next, Abstract!Answer
<1>7. CASE Waits
  <2>1. answer = "pending" /\ UNCHANGED <<lockoutAuth, value>>
    BY <1>7 DEF Waits, CallInv
  <2>2. answer' = "discarded" => lockoutAuth = value /\ value # None
    BY <1>7 DEF Waits, Answer, KidInv, CallInv, TypeOK
  <2>3. answer' \in {"discarded", "failed"}
    BY <1>7 DEF Waits, Answer
  <2>4. QED
    BY <2>1, <2>2, <2>3 DEF Abstract!Next, Abstract!Answer
<1>8. CASE \E k \in Children : ToolChanges(k)
  BY <1>8, ChangeStep DEF Abstract!Next, Abstract!Change
<1>9. CASE Crash
  BY <1>9 DEF Crash, Abstract!Next, Abstract!Lose
<1>10. CASE OpensNode \/ NodeNotFound \/ Writes \/ WriteFails \/ Kills \/ NodeAppears
  BY <1>10 DEF OpensNode, NodeNotFound, Writes, WriteFails, Kills, NodeAppears
<1>11. CASE \E k \in Children : ToolReads(k) \/ ToolExits(k) \/ ToolFails(k) \/ ToolHangsUp(k)
  BY <1>11 DEF ToolReads, ToolExits, ToolFails, ToolHangsUp
<1>12. CASE UNCHANGED vars
  BY <1>12 DEF vars
<1>13. QED
  BY <1>1, <1>2, <1>3, <1>4, <1>5, <1>6, <1>7, <1>8, <1>9, <1>10, <1>11, <1>12
     DEF Next, Call, Tool

(***************************************************************************)
(* The nodes, the pipe and the processes implement what the caller of the  *)
(* TPM backend is promised (TpmCall).                                      *)
(***************************************************************************)
THEOREM SystemTpmImplementsTpmCall == Spec => ImplementsTpmCall
<1>1. Inv /\ [Next]_vars => [Abstract!Next]_<<lockoutAuth, value, answer>>
  BY AbstractStep
<1>2. QED
  BY <1>1, AbstractInit, TpmInvariance, PTL DEF Spec, ImplementsTpmCall, Abstract!Spec
=============================================================================
