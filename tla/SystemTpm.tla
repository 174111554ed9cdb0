----------------------------- MODULE SystemTpm ------------------------------
(***************************************************************************)
(* SystemTpm: detect() and discard_lockout_auth(), down to the subprocess  *)
(* protocol of write_hex_auth_and_wait.  The device nodes, the tool        *)
(* tpm2_changeauth, the pipe to it and the TPM are the environment: the    *)
(* kernel may still be creating the nodes, the tool may fail, hang up its  *)
(* stdin or outlive the agent, and the agent may be killed anywhere.  The  *)
(* tpm Mutex admits one call at a time.                                    *)
(***************************************************************************)
EXTENDS Integers, Sequences

CONSTANTS
    Values,   \* what OsRng may draw: byte sequences of one length
    Children, \* slots for tpm2_changeauth processes: a bound
    None,
    Faults    \* the kinds of fault the environment may inject

ASSUME ValuesAssumption ==
    /\ Values \subseteq Seq(0 .. 255) \ {<<>>}
    /\ None \notin Seq(0 .. 255) \cup Children

ASSUME TpmFaultsAssumption == Faults \subseteq {"open", "spawn", "tool", "hangup", "crash"}

VARIABLES
    node,        \* device nodes: "none", "raw" (tpm0, sysfs), "managed" (tpmrm0 too)
    lockoutAuth, \* the TPM's lockoutAuth, <<>> from the factory; None without a TPM
    pc,          \* where the call stands
    value,       \* lockout_auth of the call since its spawn (zeroized in the code), or None
    answer,      \* the last call's answer, "pending" while it runs
    child,       \* the Child handle, or None
    kids         \* the processes spawned so far that have not gone

vars == <<node, lockoutAuth, pc, value, answer, child, kids>>

Factory == <<>>

(* A process: its pipe's text and ends, its parent and its exit status. *)
Free == [state |-> "free", text |-> <<>>, writer |-> FALSE, stdin |-> FALSE,
         parent |-> "init", ok |-> FALSE]

Spawned == [state |-> "running", text |-> <<>>, writer |-> TRUE, stdin |-> TRUE,
            parent |-> "agent", ok |-> FALSE]

Init ==
    /\ node \in {"none", "raw", "managed"}
    /\ lockoutAuth = IF node = "none" THEN None ELSE Factory
    /\ pc = "idle"
    /\ value = None
    /\ answer = "none"
    /\ child = None
    /\ kids = [k \in Children |-> Free]

Steps == {"idle", "open", "signals", "spawn", "write", "kill", "reap", "wait"}

Answers == {"none", "pending", "absent", "unavailable", "failed", "discarded"}

-----------------------------------------------------------------------------
(* The text that crosses the pipe, and what the tool makes of it. *)

HexPrefix == <<104, 101, 120, 58>>

(* An ASCII digit, format_args!("{byte:02x}"), and its value. *)
Digit(n) == IF n < 10 THEN 48 + n ELSE 87 + n

Nibble(c) == IF c < 58 THEN c - 48 ELSE c - 87

(* Mutant: the bytes cross as they are. *)
HexAuth_Raw(v) == v

(* "hex:" and two digits for each byte. *)
HexAuth(v) ==
    HexPrefix \o [i \in 1 .. 2 * Len(v) |->
                     Digit(IF i % 2 = 1 THEN v[(i + 1) \div 2] \div 16 ELSE v[i \div 2] % 16)]

(* The tool reads its input as a C string: up to the first NUL. *)
CString(t) ==
    LET nuls == {i \in DOMAIN t : t[i] = 0}
    IN  IF nuls = {} THEN t
        ELSE SubSeq(t, 1, (CHOOSE i \in nuls : \A j \in nuls : i <= j) - 1)

(* The auth value in a text: in hex after the prefix, else the text itself. *)
Parsed(t) ==
    IF Len(t) >= 4 /\ SubSeq(t, 1, 4) = HexPrefix
    THEN [i \in 1 .. (Len(t) - 4) \div 2 |-> 16 * Nibble(t[2 * i + 3]) + Nibble(t[2 * i + 4])]
    ELSE t

-----------------------------------------------------------------------------
(* The call. *)

Answer(a) == pc' = "idle" /\ answer' = a

(* The commit section calls detect(); there is no other caller meanwhile. *)
Starts ==
    /\ pc = "idle"
    /\ pc' = "open"
    /\ answer' = "pending"
    /\ value' = None
    /\ UNCHANGED <<node, lockoutAuth, child, kids>>

(* detect: /dev/tpmrm0 opens, TpmPresence::Present. *)
OpensNode ==
    /\ pc = "open"
    /\ node = "managed"
    /\ pc' = "spawn"
    /\ UNCHANGED <<node, lockoutAuth, value, answer, child, kids>>

(* NotFound: the other signals are consulted. *)
NodeNotFound ==
    /\ pc = "open"
    /\ node # "managed"
    /\ pc' = "signals"
    /\ UNCHANGED <<node, lockoutAuth, value, answer, child, kids>>

(* Any other error, be there a TPM or not: PresentButUnavailable. *)
OpenFails ==
    /\ pc = "open"
    /\ "open" \in Faults
    /\ Answer("unavailable")
    /\ UNCHANGED <<node, lockoutAuth, value, child, kids>>

(* Mutant: the node that was not found is all that is asked about. *)
ChecksSignals_NodeOnly ==
    /\ pc = "signals"
    /\ Answer(IF node = "managed" THEN "unavailable" ELSE "absent")
    /\ UNCHANGED <<node, lockoutAuth, value, child, kids>>

(* sysfs or /dev/tpm0 exists by now: PresentButUnavailable, else Absent. *)
ChecksSignals ==
    /\ pc = "signals"
    /\ Answer(IF node # "none" THEN "unavailable" ELSE "absent")
    /\ UNCHANGED <<node, lockoutAuth, value, child, kids>>

(* discard_lockout_auth draws the value and spawns the tool. *)
Spawns ==
    /\ pc = "spawn"
    /\ value' \in Values
    /\ \E k \in Children :
          /\ kids[k].state = "free"
          /\ kids' = [kids EXCEPT ![k] = Spawned]
          /\ child' = k
    /\ pc' = "write"
    /\ UNCHANGED <<node, lockoutAuth, answer>>

SpawnFails ==
    /\ pc = "spawn"
    /\ "spawn" \in Faults
    /\ Answer("failed")
    /\ UNCHANGED <<node, lockoutAuth, value, child, kids>>

(* Mutant: the handle's stdin is not dropped before the wait. *)
Writes_KeepsStdin ==
    /\ pc = "write"
    /\ kids[child].stdin
    /\ kids' = [kids EXCEPT ![child].text = HexAuth(value)]
    /\ pc' = "wait"
    /\ UNCHANGED <<node, lockoutAuth, value, answer, child>>

(***************************************************************************)
(* write_all of the text, shorter than a pipe is atomic for, and the drop  *)
(* of stdin, which is the tool's end of file.                              *)
(***************************************************************************)
Writes ==
    /\ pc = "write"
    /\ kids[child].stdin
    /\ kids' = [kids EXCEPT ![child] = [@ EXCEPT !.text = HexAuth(value), !.writer = FALSE]]
    /\ pc' = "wait"
    /\ UNCHANGED <<node, lockoutAuth, value, answer, child>>

(* Mutant: a failed write returns at once. *)
WriteFails_Returns ==
    /\ pc = "write"
    /\ ~kids[child].stdin
    /\ kids' = [kids EXCEPT ![child].writer = FALSE]
    /\ child' = None
    /\ Answer("failed")
    /\ UNCHANGED <<node, lockoutAuth, value>>

(* The tool has closed its stdin, or is gone: the write fails with EPIPE. *)
WriteFails ==
    /\ pc = "write"
    /\ ~kids[child].stdin
    /\ kids' = [kids EXCEPT ![child].writer = FALSE]
    /\ pc' = "kill"
    /\ UNCHANGED <<node, lockoutAuth, value, answer, child>>

(* child.kill() *)
Kills ==
    /\ pc = "kill"
    /\ kids' = IF kids[child].state = "zombie" THEN kids
               ELSE [kids EXCEPT ![child] = [@ EXCEPT !.state = "zombie", !.stdin = FALSE,
                                                      !.ok = FALSE]]
    /\ pc' = "reap"
    /\ UNCHANGED <<node, lockoutAuth, value, answer, child>>

(* child.wait() after the kill *)
Reaps ==
    /\ pc = "reap"
    /\ kids[child].state = "zombie"
    /\ kids' = [kids EXCEPT ![child] = Free]
    /\ child' = None
    /\ Answer("failed")
    /\ UNCHANGED <<node, lockoutAuth, value>>

(* Mutant: the exit status is not looked at. *)
Waits_IgnoresStatus ==
    /\ pc = "wait"
    /\ kids[child].state = "zombie"
    /\ Answer("discarded")
    /\ kids' = [kids EXCEPT ![child] = Free]
    /\ child' = None
    /\ UNCHANGED <<node, lockoutAuth, value>>

(* Mutant: the handle outlives its process. *)
Waits_KeepsHandle ==
    /\ pc = "wait"
    /\ kids[child].state = "zombie"
    /\ Answer(IF kids[child].ok THEN "discarded" ELSE "failed")
    /\ kids' = [kids EXCEPT ![child] = Free]
    /\ UNCHANGED <<node, lockoutAuth, value, child>>

(* child.wait(): there is no timeout. *)
Waits ==
    /\ pc = "wait"
    /\ kids[child].state = "zombie"
    /\ Answer(IF kids[child].ok THEN "discarded" ELSE "failed")
    /\ kids' = [kids EXCEPT ![child] = Free]
    /\ child' = None
    /\ UNCHANGED <<node, lockoutAuth, value>>

-----------------------------------------------------------------------------
(* The environment: the kernel, the tool, the death of the agent. *)

(* The driver registers the TPM: the resource manager's node comes last. *)
NodeAppears ==
    /\ node = "raw"
    /\ node' = "managed"
    /\ UNCHANGED <<lockoutAuth, pc, value, answer, child, kids>>

(* The tool reads its stdin to the end of file. *)
ToolReads(k) ==
    /\ kids[k].state = "running" /\ kids[k].stdin /\ ~kids[k].writer
    /\ kids' = [kids EXCEPT ![k].state = "loaded"]
    /\ UNCHANGED <<node, lockoutAuth, pc, value, answer, child>>

(* The TPM accepts the change, given with the empty old auth. *)
ToolChanges(k) ==
    /\ kids[k].state = "loaded"
    /\ lockoutAuth = Factory
    /\ lockoutAuth' = Parsed(CString(kids[k].text))
    /\ kids' = [kids EXCEPT ![k].state = "changed"]
    /\ UNCHANGED <<node, pc, value, answer, child>>

(* The tool ends; it is a zombie until its parent reaps it, init at once. *)
Ends(k, status) ==
    kids' = [kids EXCEPT ![k] = IF kids[k].parent = "init" THEN Free
                                ELSE [kids[k] EXCEPT !.state = "zombie", !.stdin = FALSE,
                                                     !.ok = status]]

(* Success after the change; failure when the TPM refuses it or stdin is closed. *)
ToolExits(k) ==
    /\ \/ kids[k].state = "changed" /\ Ends(k, TRUE)
       \/ kids[k].state = "loaded" /\ lockoutAuth # Factory /\ Ends(k, FALSE)
       \/ kids[k].state = "running" /\ ~kids[k].stdin /\ Ends(k, FALSE)
    /\ UNCHANGED <<node, lockoutAuth, pc, value, answer, child>>

(* It fails for a reason of its own, be it after the change. *)
ToolFails(k) ==
    /\ "tool" \in Faults
    /\ kids[k].state \in {"running", "loaded", "changed"}
    /\ Ends(k, FALSE)
    /\ UNCHANGED <<node, lockoutAuth, pc, value, answer, child>>

(* The tool closes its stdin unread and goes on. *)
ToolHangsUp(k) ==
    /\ "hangup" \in Faults
    /\ kids[k].state = "running" /\ kids[k].stdin
    /\ kids' = [kids EXCEPT ![k].stdin = FALSE]
    /\ UNCHANGED <<node, lockoutAuth, pc, value, answer, child>>

(* The agent dies: its pipe closes, init adopts the tool, which runs on. *)
Crash ==
    /\ "crash" \in Faults
    /\ pc # "idle"
    /\ pc' = "idle"
    /\ answer' = "none"
    /\ value' = None
    /\ child' = None
    /\ kids' = [k \in Children |->
                   IF kids[k].parent = "agent" /\ kids[k].state = "zombie" THEN Free
                   ELSE [kids[k] EXCEPT !.parent = "init", !.writer = FALSE]]
    /\ UNCHANGED <<node, lockoutAuth>>

-----------------------------------------------------------------------------
Call ==
    \/ OpensNode \/ NodeNotFound \/ OpenFails \/ ChecksSignals \/ Spawns \/ SpawnFails
    \/ Writes \/ WriteFails \/ Kills \/ Reaps \/ Waits

Tool(k) == ToolReads(k) \/ ToolChanges(k) \/ ToolExits(k)

Next ==
    \/ Starts \/ Call \/ NodeAppears \/ Crash
    \/ \E k \in Children : Tool(k) \/ ToolFails(k) \/ ToolHangsUp(k)

Spec == Init /\ [][Next]_vars

(* The agent runs on, and the tool comes to an end: the wait has no timeout. *)
Fairness == WF_vars(Call) /\ \A k \in Children : WF_vars(Tool(k))

FairSpec == Spec /\ Fairness

-----------------------------------------------------------------------------
Kid == [state : {"free", "running", "loaded", "changed", "zombie"},
        text : {<<>>} \cup {HexAuth(v) : v \in Values},
        writer : BOOLEAN, stdin : BOOLEAN, parent : {"agent", "init"}, ok : BOOLEAN]

(* Type invariant: there is a Child handle exactly while its process is waited for. *)
TypeOK ==
    /\ node \in {"none", "raw", "managed"}
    /\ node = "none" <=> lockoutAuth = None
    /\ lockoutAuth \in {None} \cup Seq(0 .. 255)
    /\ pc \in Steps
    /\ value \in Values \cup {None}
    /\ answer \in Answers
    /\ child \in Children \cup {None}
    /\ child # None <=> pc \in {"write", "kill", "reap", "wait"}
    /\ kids \in [Children -> Kid]

(***************************************************************************)
(* The answers are true: "discarded" while the TPM holds this call's whole *)
(* value, "absent" of a box without a TPM (discard_lockout_auth, detect).  *)
(***************************************************************************)
AnswersTrue ==
    /\ answer = "discarded" => value # None /\ lockoutAuth = value
    /\ answer = "absent" => lockoutAuth = None

(***************************************************************************)
(* Whoever changed lockoutAuth, an orphan of a killed agent included, has  *)
(* put a whole 32-byte value there: nothing is cut at a NUL and no half    *)
(* text counts (write_hex_auth_and_wait).                                  *)
(***************************************************************************)
NeverTruncated == lockoutAuth \in {None, Factory} \cup Values

(***************************************************************************)
(* When a call has answered no tool of it is left, running or as a zombie, *)
(* with its pipe open (the kill and wait of the failing write).            *)
(***************************************************************************)
NothingLeft == pc = "idle" => \A k \in Children : kids[k].parent = "init" /\ ~kids[k].writer

(***************************************************************************)
(* A call returns, or dies with the agent: stdin is dropped before the     *)
(* wait, so the tool is not waiting for the agent (write_hex_auth_and_wait).*)
(***************************************************************************)
CallReturns == pc # "idle" ~> pc = "idle"

Abstract == INSTANCE TpmCall WITH lockout <- lockoutAuth

(* The subprocess protocol implements what the caller is promised (TpmCall). *)
ImplementsTpmCall == Abstract!Spec
=============================================================================
