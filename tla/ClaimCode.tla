----------------------------- MODULE ClaimCode ------------------------------
(***************************************************************************)
(* ClaimCode: how the 128-bit secret is shown to a person, and how what    *)
(* that person types or scans is read back.  Texts are sequences of        *)
(* one-character strings, secrets sequences of bytes.                      *)
(***************************************************************************)
EXTENDS Integers, Sequences

EncodedLen == 26

CrockfordAlphabet ==
    <<"0", "1", "2", "3", "4", "5", "6", "7", "8", "9", "A", "B", "C", "D", "E", "F",
      "G", "H", "J", "K", "M", "N", "P", "Q", "R", "S", "T", "V", "W", "X", "Y", "Z">>

(* The lower-case forms, O, I and L included; a digit has none. *)
Lower == [A |-> "a", B |-> "b", C |-> "c", D |-> "d", E |-> "e", F |-> "f", G |-> "g",
          H |-> "h", J |-> "j", K |-> "k", M |-> "m", N |-> "n", P |-> "p", Q |-> "q",
          R |-> "r", S |-> "s", T |-> "t", V |-> "v", W |-> "w", X |-> "x", Y |-> "y",
          Z |-> "z", O |-> "o", I |-> "i", L |-> "l"]

ToUpper(c) ==
    IF \E u \in DOMAIN Lower : Lower[u] = c THEN CHOOSE u \in DOMAIN Lower : Lower[u] = c ELSE c

Separators == {" ", "-"}

(* What no secret has: the answer None. *)
NoSecret == <<>>

(***************************************************************************)
(* The buffer of a bit stream.  The u32 of the code keeps bits it has read *)
(* already above the unread ones, which are masked or shifted out; here    *)
(* the buffer is the unread bits alone.                                    *)
(***************************************************************************)
EmptyBuffer == [out |-> <<>>, buffer |-> 0, bits |-> 0]

Pushed(s, width, n) ==
    [out |-> s.out, buffer |-> s.buffer * 2 ^ width + n, bits |-> s.bits + width]

(* The oldest bits leave as one unit of that width, if there are as many. *)
Drained(s, width) ==
    IF s.bits < width THEN s
    ELSE LET rest == s.bits - width
         IN  [out |-> Append(s.out, s.buffer \div 2 ^ rest),
              buffer |-> s.buffer % 2 ^ rest, bits |-> rest]

Symbol(n) == CrockfordAlphabet[n + 1]

Symbols(values) == [i \in DOMAIN values |-> Symbol(values[i])]

(* A byte completes one symbol or two. *)
ByteTaken(s, b) == Drained(Drained(Pushed(s, 8, b), 5), 5)

Chunked(bytes) ==
    LET before[i \in 1 .. Len(bytes) + 1] ==
            IF i = 1 THEN EmptyBuffer ELSE ByteTaken(before[i - 1], bytes[i - 1])
    IN  before[Len(bytes) + 1]

(* Mutant: the last, partial symbol is not padded. *)
EncodeCrockford_Unpadded(bytes) ==
    LET end == Chunked(bytes)
    IN  Symbols(IF end.bits = 0 THEN end.out ELSE Append(end.out, end.buffer))

(* Zeros pad the last symbol. *)
EncodeCrockford(bytes) ==
    LET end == Chunked(bytes)
    IN  Symbols(IF end.bits = 0 THEN end.out
                ELSE Append(end.out, end.buffer * 2 ^ (5 - end.bits)))

(* XXXXX-XXXXX-XXXXX-XXXXX-XXXXXX *)
EncodeDisplay(secret) ==
    LET raw == EncodeCrockford(secret)
        dash == <<"-">>
    IN  SubSeq(raw, 1, 5) \o dash \o SubSeq(raw, 6, 10) \o dash \o SubSeq(raw, 11, 15) \o dash
           \o SubSeq(raw, 16, 20) \o dash \o SubSeq(raw, 21, 26)

(* crockford_value: the value as a singleton, or none. *)
CrockfordValues(c) ==
    LET upper == ToUpper(c)
    IN  IF upper = "O" THEN {0}
        ELSE IF upper \in {"I", "L"} THEN {1}
        ELSE {i - 1 : i \in {j \in 1 .. 32 : Symbol(j - 1) = upper}}

(* A text without the characters that are dropped. *)
Without(text, dropped) ==
    LET before[i \in 1 .. Len(text) + 1] ==
            IF i = 1 THEN <<>>
            ELSE IF text[i - 1] \in dropped THEN before[i - 1]
            ELSE Append(before[i - 1], text[i - 1])
    IN  before[Len(text) + 1]

Cleaned(input) == Without(input, Separators)

(* A symbol may complete a byte. *)
SymbolTaken(s, c) == Drained(Pushed(s, 5, CHOOSE n \in CrockfordValues(c) : TRUE), 8)

(* The bytes of a row of symbols: the two padding bits stay in the buffer. *)
Bytes(symbols) ==
    LET before[i \in 1 .. Len(symbols) + 1] ==
            IF i = 1 THEN EmptyBuffer ELSE SymbolTaken(before[i - 1], symbols[i - 1])
    IN  before[Len(symbols) + 1].out

(* Mutant: only the number of bytes is checked. *)
Decode_AnyLength(input) ==
    LET cleaned == Cleaned(input)
    IN  IF \E i \in DOMAIN cleaned : CrockfordValues(cleaned[i]) = {} THEN NoSecret
        ELSE LET out == Bytes(cleaned) IN IF Len(out) = 16 THEN out ELSE NoSecret

(* decode: NoSecret for a wrong length or a character that is no symbol. *)
Decode(input) ==
    LET cleaned == Cleaned(input)
    IN  IF Len(cleaned) # EncodedLen \/ \E i \in DOMAIN cleaned : CrockfordValues(cleaned[i]) = {}
        THEN NoSecret
        ELSE Bytes(cleaned)

-----------------------------------------------------------------------------
(* The claim screen. *)

(* The URI in the QR code: the code without its dashes. *)
ClaimUri(code) == [prefix |-> "benix-claim://v1?s=", s |-> Without(code, {"-"})]

(* build_claim_screen: the QR block is left out where it cannot be rendered. *)
ClaimScreens(code) == {[qr |-> ClaimUri(code).s, text |-> code], [qr |-> NoSecret, text |-> code]}

(***************************************************************************)
(* display_claim_code: where the operator can read a screen.  The tty may  *)
(* not open, or fail once the screen is on it; then stdout has it too.     *)
(***************************************************************************)
Displays(screen) ==
    {[tty |-> screen, stdout |-> NoSecret], [tty |-> NoSecret, stdout |-> screen],
     [tty |-> screen, stdout |-> screen]}
=============================================================================
