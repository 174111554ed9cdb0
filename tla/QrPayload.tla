----------------------------- MODULE QrPayload ------------------------------
(***************************************************************************)
(* QrPayload: the hub's quickring://pair?session=..&endpoint=.. and its    *)
(* parser.  A text is a sequence of tokens: the names of parameters are    *)
(* one token each, every other token is a character.  A parsed Url is its  *)
(* scheme, its host and the text of its query.                             *)
(***************************************************************************)
EXTENDS Integers, Sequences, FiniteSets, SequencesExt

(* The characters that percent_encode lets pass, and those that there are besides. *)
Unreserved ==
    {"A", "B", "C", "D", "E", "F", "G", "H", "I", "J", "K", "L", "M", "N", "O",
     "P", "Q", "R", "S", "T", "U", "V", "W", "X", "Y", "Z", "a", "b", "c", "d",
     "e", "f", "g", "h", "i", "j", "k", "l", "m", "n", "o", "p", "q", "r", "s",
     "t", "u", "v", "w", "x", "y", "z", "0", "1", "2", "3", "4", "5", "6", "7",
     "8", "9", "-", "_", ".", "~"}

Reserved == {":", "/", "&", "=", "%", "+", "?"}

(* The escape of each of them; the others stand for themselves. *)
Escape(c) == CASE c = ":" -> <<"%", "3", "A">> [] c = "/" -> <<"%", "2", "F">>
               [] c = "&" -> <<"%", "2", "6">> [] c = "=" -> <<"%", "3", "D">>
               [] c = "%" -> <<"%", "2", "5">> [] c = "+" -> <<"%", "2", "B">>
               [] c = "?" -> <<"%", "3", "F">> [] OTHER -> <<c>>

(* The hub's percent_encode. *)
PercentEncoded(text) == FlattenSeq([i \in DOMAIN text |-> Escape(text[i])])

(* The characters whose escape is at a place of a text: one, or none. *)
EscapedAt(text, i) ==
    {c \in Reserved : i \in 1 .. Len(text) - 2 /\ SubSeq(text, i, i + 2) = Escape(c)}

(***************************************************************************)
(* The url crate's decoding of a name or a value: the three characters of  *)
(* an escape are one, a lone '%' stays as it is.                           *)
(***************************************************************************)
DecodedAt(text, i) ==
    IF EscapedAt(text, i) # {} THEN <<CHOOSE c \in EscapedAt(text, i) : TRUE>>
    ELSE IF EscapedAt(text, i - 1) # {} \/ EscapedAt(text, i - 2) # {} THEN <<>>
    ELSE <<IF text[i] = "+" THEN " " ELSE text[i]>>

Decoded(text) == FlattenSeq([i \in DOMAIN text |-> DecodedAt(text, i)])

(* The pieces of a text between the separators, each by its first and last place. *)
Pieces(text, sep) ==
    {p \in (1 .. Len(text) + 1) \X (0 .. Len(text)) :
        /\ p[1] <= p[2] + 1
        /\ p[1] = 1 \/ text[p[1] - 1] = sep
        /\ p[2] = Len(text) \/ text[p[2] + 1] = sep
        /\ \A i \in p[1] .. p[2] : text[i] # sep}

(* Where a piece is cut: at its first '=', or at its end. *)
Cut(piece) == Min({i \in DOMAIN piece : piece[i] = "="} \cup {Len(piece) + 1})

(* Url::query_pairs, each pair with the place it comes from. *)
Pair(piece, at) ==
    [at |-> at, key |-> Decoded(SubSeq(piece, 1, Cut(piece) - 1)),
     value |-> Decoded(SubSeq(piece, Cut(piece) + 1, Len(piece)))]

QueryPairs(query) == {Pair(SubSeq(query, p[1], p[2]), p[1]) : p \in Pieces(query, "&")}

(* What the hub mints: the session as it is, the endpoint encoded. *)
Minted(session, endpoint) ==
    [scheme |-> "quickring", host |-> "pair",
     query |-> <<"session", "=">> \o session \o <<"&", "endpoint", "=">>
                  \o PercentEncoded(endpoint)]

-----------------------------------------------------------------------------
(* parse *)

(* Mutant: what was said first is kept. *)
Param_First(pairs, name) ==
    LET named == {p \in pairs : p.key = <<name>>}
    IN  {p.value : p \in {q \in named : \A r \in named : q.at <= r.at}}

(* The value of the last pair of that name, as a singleton; other names are ignored. *)
Param(pairs, name) ==
    LET named == {p \in pairs : p.key = <<name>>}
    IN  {p.value : p \in {q \in named : \A r \in named : r.at <= q.at}}

(* A required parameter is there and not empty, or there is none. *)
Required(values) == values \ {<<>>}

(* The parsed payload as a singleton; none for each QrPayloadError. *)
Parse(url) ==
    LET pairs == QueryPairs(url.query)
    IN  IF url.scheme # "quickring" \/ url.host # "pair" THEN {}
        ELSE {[pair_session_id |-> s, endpoint |-> e] :
                 s \in Required(Param(pairs, "session")), e \in Required(Param(pairs, "endpoint"))}
=============================================================================
