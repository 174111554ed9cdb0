----------------------------- MODULE LanSource ------------------------------
(***************************************************************************)
(* LanSource: which source addresses pass the LAN gate.  Every test of the *)
(* code looks at the first 16 bits of an address only: of an IPv4 address  *)
(* they are two octets, of an IPv6 address one segment.                    *)
(***************************************************************************)
EXTENDS Integers

Versions == {4, 6}

Words == 0 .. 65535

Octet0(w) == w \div 256

Octet1(w) == w % 256

(* Mutant: 172.16.0.0/12 is taken for all of 172.16.0.0 and up. *)
IsLanV4_Open(w) ==
    \/ Octet0(w) = 10
    \/ Octet0(w) = 172 /\ Octet1(w) >= 16
    \/ Octet0(w) = 192 /\ Octet1(w) = 168
    \/ Octet0(w) = 169 /\ Octet1(w) = 254

IsLanV4(w) ==
    \/ Octet0(w) = 10
    \/ Octet0(w) = 172 /\ Octet1(w) \in 16 .. 31
    \/ Octet0(w) = 192 /\ Octet1(w) = 168
    \/ Octet0(w) = 169 /\ Octet1(w) = 254

(* seg & 0xfe00 clears the low 9 bits, seg & 0xffc0 the low 6. *)
IsLanV6(w) ==
    \/ w - (w % 512) = 64512
    \/ w - (w % 64) = 65152

(* is_lan_source *)
IsLanSource(v, w) == IF v = 4 THEN IsLanV4(w) ELSE IsLanV6(w)

(***************************************************************************)
(* The blocks the doc comment names, by their first 16 bits: 10/8,         *)
(* 172.16/12, 192.168/16 and 169.254/16; fc00::/7 and fe80::/10.           *)
(***************************************************************************)
Between(w, low, high) == low <= w /\ w <= high

InLanBlock(v, w) ==
    \/ v = 4 /\ Between(w, 2560, 2815)
    \/ v = 4 /\ Between(w, 44048, 44063)
    \/ v = 4 /\ (w = 49320 \/ w = 43518)
    \/ v = 6 /\ Between(w, 64512, 65023)
    \/ v = 6 /\ Between(w, 65152, 65215)

(* Every address of the blocks passes and no other (require_lan_source). *)
GateIsExact(v, w) == IsLanSource(v, w) <=> InLanBlock(v, w)
=============================================================================
