------------------------------- MODULE Inputs -------------------------------
(***************************************************************************)
(* Inputs: what reaches the box, or leaves it, as text.  A person reads    *)
(* the claim code off a screen and types it somewhere else; a hub's QR     *)
(* payload is passed on by a phone; a request comes from an address.  One  *)
(* behaviour follows one input on its way, change by change.               *)
(***************************************************************************)
EXTENDS Integers, Sequences, SequencesExt, ClaimCode, QrPayload, LanSource

CONSTANTS
    Secrets,   \* 16-byte secrets
    Sessions,  \* session ids of a hub, as texts
    Endpoints, \* endpoints of a hub, as texts
    Words16,   \* the first 16 bits of source addresses
    MaxEdits,  \* a bound on the changes to one input
    None

ASSUME InputsAssumption ==
    /\ \A secret \in Secrets : secret \in [1 .. 16 -> 0 .. 255]
    /\ Sessions \subseteq Seq(Unreserved) \ {<<>>}
    /\ Endpoints \subseteq Seq(Unreserved \cup Reserved) \ {<<>>}
    /\ Words16 \subseteq Words

VARIABLES
    code,    \* a secret, the text of its code by now, and what became of it; or None
    payload, \* the url by now and what was last said of each parameter; or None
    source,  \* a source address; or None
    edits    \* how many changes there have been

vars == <<code, payload, source, edits>>

(* What the operator can read, on either device, of the screen of a secret. *)
Shown(secret) ==
    LET displays == UNION {Displays(s) : s \in ClaimScreens(EncodeDisplay(secret))}
        screens == (UNION {{d.tty, d.stdout} : d \in displays}) \ {NoSecret}
    IN  (UNION {{s.qr, s.text} : s \in screens}) \ {NoSecret}

(* The parameters that parse reads. *)
Parameters == {"session", "endpoint"}

Init ==
    /\ edits = 0
    /\ \/ /\ \E secret \in Secrets : \E text \in Shown(secret) :
                code = [secret |-> secret, text |-> text, harm |-> "none"]
          /\ payload = None /\ source = None
       \/ /\ \E s \in Sessions, e \in Endpoints :
                payload = [said |-> [name \in Parameters |-> IF name = "session" THEN {s} ELSE {e}],
                           url |-> Minted(s, e)]
          /\ code = None /\ source = None
       \/ /\ source \in [v : Versions, word : Words16]
          /\ code = None /\ payload = None

-----------------------------------------------------------------------------
(* The person who copies the code. *)

Edited(text, harm) ==
    /\ edits < MaxEdits
    /\ edits' = edits + 1
    /\ code' = [code EXCEPT !.text = text, !.harm = harm]
    /\ UNCHANGED <<payload, source>>

(* One character in lower case. *)
LowersCase ==
    /\ code # None
    /\ \E i \in DOMAIN code.text :
          /\ code.text[i] \in DOMAIN Lower
          /\ Edited(ReplaceAt(code.text, i, Lower[code.text[i]]), code.harm)

(* A zero or a one taken for the letter. *)
MistakesLetter ==
    /\ code # None
    /\ \E i \in DOMAIN code.text :
          \/ code.text[i] = "0"
             /\ \E c \in {"O", "o"} : Edited(ReplaceAt(code.text, i, c), code.harm)
          \/ code.text[i] = "1"
             /\ \E c \in {"I", "i", "L", "l"} : Edited(ReplaceAt(code.text, i, c), code.harm)

(* A separator more, or one less. *)
Respaces ==
    /\ code # None
    /\ \/ \E i \in 1 .. Len(code.text) + 1, c \in Separators :
             Edited(InsertAt(code.text, i, c), code.harm)
       \/ \E i \in DOMAIN code.text :
             code.text[i] \in Separators /\ Edited(RemoveAt(code.text, i), code.harm)

(* A symbol is left out, or typed twice. *)
Slips ==
    /\ code # None /\ code.harm = "none"
    /\ \E i \in DOMAIN code.text :
          /\ code.text[i] \notin Separators
          /\ \/ Edited(RemoveAt(code.text, i), "length")
             \/ Edited(InsertAt(code.text, i, code.text[i]), "length")

(* A character that is no symbol in the place of one. *)
Smudges ==
    /\ code # None /\ code.harm = "none"
    /\ \E i \in DOMAIN code.text, c \in {"U", "u", "$"} :
          code.text[i] \notin Separators /\ Edited(ReplaceAt(code.text, i, c), "alien")

-----------------------------------------------------------------------------
(* The way of a payload. *)

Rewritten(url, said) ==
    /\ edits < MaxEdits
    /\ edits' = edits + 1
    /\ payload' = [payload EXCEPT !.url = url, !.said = said]
    /\ UNCHANGED <<code, source>>

WithQuery(query) == [payload.url EXCEPT !.query = query]

(* A later hub sends a field more, before its two or after them. *)
HubAddsField ==
    /\ payload # None
    /\ \E field \in {<<"hint", "=", "1">>, <<"hint">>, <<>>} :
          \/ Rewritten(WithQuery(field \o <<"&">> \o payload.url.query), payload.said)
          \/ Rewritten(WithQuery(payload.url.query \o <<"&">> \o field), payload.said)

(* The ways to write a parameter: a blank one needs no "=". *)
Written(name, value) == {<<name, "=">> \o value} \cup (IF value = <<>> THEN {<<name>>} ELSE {})

(* Somebody else says a parameter, after all the rest, before it, or instead of it. *)
SaysParameter ==
    /\ payload # None
    /\ \E name \in Parameters, value \in {<<>>, <<"x">>} : \E field \in Written(name, value) :
          \/ Rewritten(WithQuery(payload.url.query \o <<"&">> \o field),
                       [payload.said EXCEPT ![name] = {value}])
          \/ Rewritten(WithQuery(field \o <<"&">> \o payload.url.query),
                       [payload.said EXCEPT ![name] = IF @ = {} THEN {value} ELSE @])
          \/ Rewritten(WithQuery(field),
                       [other \in Parameters |-> IF other = name THEN {value} ELSE {}])

(* Somebody else sends it to another target. *)
Redirects ==
    /\ payload # None
    /\ \/ Rewritten([payload.url EXCEPT !.scheme = "https"], payload.said)
       \/ \E host \in {"claim", ""} : Rewritten([payload.url EXCEPT !.host = host], payload.said)

-----------------------------------------------------------------------------
Next == LowersCase \/ MistakesLetter \/ Respaces \/ Slips \/ Smudges \/ HubAddsField
        \/ SaysParameter \/ Redirects

Spec == Init /\ [][Next]_vars

(***************************************************************************)
(* Whatever harmless changes a person makes to the code, in whatever       *)
(* number, and whether it was typed or scanned, it still means the secret  *)
(* of the box (encode_display, claim_uri, decode).                         *)
(***************************************************************************)
HarmlessEdits == code # None /\ code.harm = "none" => Decode(code.text) = code.secret

(***************************************************************************)
(* A code with a symbol missing, doubled or unreadable is refused and      *)
(* never taken for another secret, separators and case notwithstanding     *)
(* (decode).                                                               *)
(***************************************************************************)
DamageRefused == code # None /\ code.harm # "none" => Decode(code.text) = NoSecret

(***************************************************************************)
(* What is accepted is what was last said of each of the two parameters,   *)
(* by the hub or by whoever came after it, through any encoding and among  *)
(* any further fields; it is accepted exactly when both were said, the     *)
(* last word on neither is blank and the target is the pairing authority.  *)
(* So a later blank takes an earlier good value with it, and a later good  *)
(* value makes up for an earlier blank (parse: the assignment in its loop  *)
(* and the filters after the loop).                                        *)
(***************************************************************************)
LastWordCounts ==
    payload # None =>
        /\ \A p \in Parse(payload.url) : /\ payload.said["session"] = {p.pair_session_id}
                                        /\ payload.said["endpoint"] = {p.endpoint}
        /\ Parse(payload.url) # {} <=>
              /\ \A name \in Parameters : payload.said[name] \notin {{}, {<<>>}}
              /\ payload.url.scheme = "quickring" /\ payload.url.host = "pair"

(* The gate passes the addresses of the LAN blocks and no other. *)
GateMatchesBlocks == source # None => GateIsExact(source.v, source.word)
=============================================================================
