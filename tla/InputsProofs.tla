---------------------------- MODULE InputsProofs ----------------------------
(***************************************************************************)
(* InputsProofs: what is proved of Inputs, for every secret, every number  *)
(* of edits and every order of them.  The largest part is the round trip   *)
(* of the claim code: whatever row of symbols has the values that          *)
(* encode_crockford wrote is decoded to the secret.  It is shown by        *)
(* running encoder and decoder side by side, byte by byte.  The second is  *)
(* what a query says of a parameter: the last word on it, by the hub or by *)
(* others, is what comes out of percent_encode and the query.              *)
(*                                                                         *)
(* Functions that stand for loops have domains 1 .. n + 1: the sequence    *)
(* axioms of the SMT encoding take Len of anything for the end of its      *)
(* domain, and a domain from 0 next to Len would contradict them.          *)
(***************************************************************************)
EXTENDS Inputs, SequenceTheorems, WellFoundedInduction, TLAPS

-----------------------------------------------------------------------------
(***************************************************************************)
(* Induction over data.  The provers cannot instantiate an induction rule  *)
(* that takes an operator; the property is a set here, and the rule comes  *)
(* from the order of the numbers being well-founded.                       *)
(***************************************************************************)

(* A nonempty set of naturals has a least element. *)
LEMMA LeastNumber ==
    ASSUME NEW T, T \subseteq Nat, T # {}
    PROVE  \E m \in T : \A n \in T : m <= n
<1> DEFINE R == {ss \in Nat \X Nat : ss[1] < ss[2]}
<1>1. R = OpToRel(<, Nat)
  BY Zenon DEF OpToRel
<1>2. IsWellFoundedOn(R, Nat)
  BY <1>1, NatLessThanWellFounded, Zenon
<1>3. PICK m \in T : \A n \in T : ~ (<<n, m>> \in R)
  BY <1>2, WFMin
<1>4. \A n \in T : m <= n
  <2> TAKE n \in T
  <2>1. n \in Nat /\ m \in Nat
    OBVIOUS
  <2>2. ~ (n < m)
    <3>1. <<n, m>> \in Nat \X Nat /\ <<n, m>>[1] = n /\ <<n, m>>[2] = m
      BY <2>1
    <3>2. QED
      BY <1>3, <3>1, Zenon
  <2>3. QED
    BY <2>1, <2>2
<1>5. QED
  BY <1>4

(* Induction up to n, the property being the set of the numbers that have it. *)
LEMMA InductionUpTo ==
    ASSUME NEW n \in Nat, NEW S, 0 \in S, \A i \in 1 .. n : i - 1 \in S => i \in S
    PROVE  \A i \in 0 .. n : i \in S
<1> DEFINE T == (0 .. n) \ S
<1> SUFFICES ASSUME T # {}
             PROVE  FALSE
    OBVIOUS
<1>1. PICK m \in T : \A k \in T : m <= k
  <2>1. T \subseteq Nat
    OBVIOUS
  <2> HIDE DEF T
  <2>2. QED
    BY <2>1, LeastNumber
<1>2. m \in 1 .. n /\ m \notin S
  BY <1>1
<1>3. m - 1 \in 0 .. n /\ ~ (m <= m - 1)
  BY <1>2
<1>4. m - 1 \in S
  BY <1>1, <1>3
<1>5. QED
  BY <1>2, <1>4

(* What each step makes of the state before it, n times in a row. *)
Total(n, S, Step) == \A i \in 1 .. n : \A s \in S : \E t \in S : <<i, s, t>> \in Step

Iterates(g, n, b, Step) == g[1] = b /\ \A i \in 1 .. n : <<i, g[i], g[i + 1]>> \in Step

(* A step that is always possible can be taken n times in a row. *)
LEMMA IteratesExist ==
    ASSUME NEW n \in Nat, NEW S, NEW b \in S, NEW Step, Total(n, S, Step)
    PROVE  \E g \in [1 .. n + 1 -> S] : Iterates(g, n, b, Step)
<1> DEFINE Reaches(k, g) == Iterates(g, k, b, Step)
           T == {k \in 0 .. n : \E g \in [1 .. k + 1 -> S] : Reaches(k, g)}
<1>1. 0 \in T
  <2> DEFINE g == [i \in 1 .. 1 |-> b]
  <2>1. g \in [1 .. 0 + 1 -> S]
    OBVIOUS
  <2>2. Reaches(0, g)
    <3>1. g[1] = b
      OBVIOUS
    <3>2. \A i \in 1 .. 0 : FALSE
      OBVIOUS
    <3>3. QED
      BY <3>1, <3>2 DEF Iterates
  <2>3. 0 \in 0 .. n
    OBVIOUS
  <2> HIDE DEF g, Reaches
  <2>4. QED
    BY <2>1, <2>2, <2>3
<1>2. ASSUME NEW k \in 1 .. n, k - 1 \in T
      PROVE  k \in T
  <2>1. PICK g \in [1 .. k -> S] : Reaches(k - 1, g)
    BY <1>2
  <2>2. PICK t \in S : <<k, g[k], t>> \in Step
    <3>1. g[k] \in S
      OBVIOUS
    <3>2. QED
      BY <3>1 DEF Total
  <2> DEFINE h == [i \in 1 .. k + 1 |-> IF i = k + 1 THEN t ELSE g[i]]
  <2>3. h \in [1 .. k + 1 -> S]
    OBVIOUS
  <2>4. h[1] = b
    BY <2>1 DEF Iterates
  <2>5. ASSUME NEW i \in 1 .. k
        PROVE  <<i, h[i], h[i + 1]>> \in Step
    <3>1. h[i] = g[i]
      OBVIOUS
    <3>2. CASE i = k
      <4>1. h[i + 1] = t
        BY <3>2
      <4>2. QED
        BY <2>2, <3>1, <3>2, <4>1
    <3>3. CASE i # k
      <4>1. i \in 1 .. k - 1 /\ h[i + 1] = g[i + 1]
        BY <3>3
      <4>2. QED
        BY <2>1, <3>1, <4>1 DEF Iterates
    <3>4. QED
      BY <3>2, <3>3
  <2>6. Reaches(k, h)
    BY <2>4, <2>5 DEF Iterates
  <2> HIDE DEF h, Reaches
  <2>7. k \in 0 .. n
    OBVIOUS
  <2>8. QED
    BY <2>3, <2>6, <2>7
<1>3. \A i \in 1 .. n : i - 1 \in T => i \in T
  BY <1>2
<1>4. n \in T
  <2> HIDE DEF T
  <2>1. \A i \in 0 .. n : i \in T
    BY <1>1, <1>3, InductionUpTo
  <2>2. QED
    BY <2>1
<1>5. QED
  BY <1>4

-----------------------------------------------------------------------------
(***************************************************************************)
(* The bit streams of secret.rs, one step at a time.                       *)
(***************************************************************************)

(* The powers of two that a buffer of at most 12 bits meets. *)
LEMMA Powers == /\ 2 ^ 0 = 1 /\ 2 ^ 1 = 2 /\ 2 ^ 2 = 4 /\ 2 ^ 3 = 8 /\ 2 ^ 4 = 16
                /\ 2 ^ 5 = 32 /\ 2 ^ 6 = 64 /\ 2 ^ 7 = 128 /\ 2 ^ 8 = 256
  OBVIOUS

(* A number of bits by its oldest ones and the rest of them. *)
Splits(x, p, q, r) == q \in Nat /\ r \in Nat /\ r < p /\ x = p * q + r

(* Division with remainder by the powers of two that the buffers need. *)
LEMMA Divided ==
    ASSUME NEW x \in Nat, NEW p \in {1, 2, 4, 8, 16, 32, 64, 128}
    PROVE  \E q, r : q = x \div p /\ r = x % p /\ Splits(x, p, q, r)
<1>1. ASSUME NEW q, NEW r, q = x \div p, r = x % p
      PROVE  q \in Nat /\ r \in Nat /\ r < p /\ x = p * q + r
  BY <1>1
<1>2. QED
  BY <1>1, Zenon DEF Splits

Unread(out, buffer, bits) == [out |-> out, buffer |-> buffer, bits |-> bits]

(* What a push of eight bits, or of five, makes of the unread ones. *)
LEMMA PushedIs ==
    ASSUME NEW out, NEW buffer \in Nat, NEW bits \in Nat, NEW n \in Nat
    PROVE  /\ Pushed(Unread(out, buffer, bits), 8, n) = Unread(out, buffer * 256 + n, bits + 8)
           /\ Pushed(Unread(out, buffer, bits), 5, n) = Unread(out, buffer * 32 + n, bits + 5)
<1>1. /\ Pushed(Unread(out, buffer, bits), 8, n) = Unread(out, buffer * 2 ^ 8 + n, bits + 8)
      /\ Pushed(Unread(out, buffer, bits), 5, n) = Unread(out, buffer * 2 ^ 5 + n, bits + 5)
  BY DEF Pushed, Unread
<1>2. QED
  BY <1>1, Powers

(* One unit leaves, and k bits stay. *)
DrainsTo(out, x, bits, width, p, k) ==
    \E q, r : /\ Splits(x, p, q, r)
              /\ Drained(Unread(out, x, bits), width) = Unread(Append(out, q), r, k)

(* A drained unit is a quotient, and what stays is the remainder. *)
LEMMA DrainedQuotient ==
    ASSUME NEW out, NEW x \in Nat, NEW bits, NEW width, NEW k, NEW p \in {1, 2, 4, 8, 16, 32, 64, 128},
           Drained(Unread(out, x, bits), width) = Unread(Append(out, x \div p), x % p, k)
    PROVE  DrainsTo(out, x, bits, width, p, k)
<1>1. PICK q, r : q = x \div p /\ r = x % p /\ Splits(x, p, q, r)
  BY Divided
<1>2. QED
  BY <1>1, Zenon DEF DrainsTo

(* What Drained takes of 3 to 12 bits when a symbol is five of them. *)
LEMMA DrainedFive ==
    ASSUME NEW out, NEW x \in Nat
    PROVE  /\ Drained(Unread(out, x, 3), 5) = Unread(out, x, 3)
           /\ Drained(Unread(out, x, 4), 5) = Unread(out, x, 4)
           /\ DrainsTo(out, x, 5, 5, 1, 0) /\ DrainsTo(out, x, 6, 5, 2, 1)
           /\ DrainsTo(out, x, 7, 5, 4, 2) /\ DrainsTo(out, x, 8, 5, 8, 3)
           /\ DrainsTo(out, x, 9, 5, 16, 4) /\ DrainsTo(out, x, 10, 5, 32, 5)
           /\ DrainsTo(out, x, 11, 5, 64, 6) /\ DrainsTo(out, x, 12, 5, 128, 7)
<1>1. /\ Drained(Unread(out, x, 3), 5) = Unread(out, x, 3)
      /\ Drained(Unread(out, x, 4), 5) = Unread(out, x, 4)
      /\ Drained(Unread(out, x, 5), 5) = Unread(Append(out, x \div 2 ^ 0), x % 2 ^ 0, 0)
      /\ Drained(Unread(out, x, 6), 5) = Unread(Append(out, x \div 2 ^ 1), x % 2 ^ 1, 1)
      /\ Drained(Unread(out, x, 7), 5) = Unread(Append(out, x \div 2 ^ 2), x % 2 ^ 2, 2)
      /\ Drained(Unread(out, x, 8), 5) = Unread(Append(out, x \div 2 ^ 3), x % 2 ^ 3, 3)
      /\ Drained(Unread(out, x, 9), 5) = Unread(Append(out, x \div 2 ^ 4), x % 2 ^ 4, 4)
      /\ Drained(Unread(out, x, 10), 5) = Unread(Append(out, x \div 2 ^ 5), x % 2 ^ 5, 5)
      /\ Drained(Unread(out, x, 11), 5) = Unread(Append(out, x \div 2 ^ 6), x % 2 ^ 6, 6)
      /\ Drained(Unread(out, x, 12), 5) = Unread(Append(out, x \div 2 ^ 7), x % 2 ^ 7, 7)
  BY DEF Drained, Unread
<1>2. QED
  BY <1>1, Powers, DrainedQuotient

(* What Drained takes of 5 to 12 bits when a byte is eight of them. *)
LEMMA DrainedEight ==
    ASSUME NEW out, NEW x \in Nat
    PROVE  /\ Drained(Unread(out, x, 5), 8) = Unread(out, x, 5)
           /\ Drained(Unread(out, x, 6), 8) = Unread(out, x, 6)
           /\ Drained(Unread(out, x, 7), 8) = Unread(out, x, 7)
           /\ DrainsTo(out, x, 8, 8, 1, 0) /\ DrainsTo(out, x, 9, 8, 2, 1)
           /\ DrainsTo(out, x, 10, 8, 4, 2) /\ DrainsTo(out, x, 11, 8, 8, 3)
           /\ DrainsTo(out, x, 12, 8, 16, 4)
<1>1. /\ Drained(Unread(out, x, 5), 8) = Unread(out, x, 5)
      /\ Drained(Unread(out, x, 6), 8) = Unread(out, x, 6)
      /\ Drained(Unread(out, x, 7), 8) = Unread(out, x, 7)
      /\ Drained(Unread(out, x, 8), 8) = Unread(Append(out, x \div 2 ^ 0), x % 2 ^ 0, 0)
      /\ Drained(Unread(out, x, 9), 8) = Unread(Append(out, x \div 2 ^ 1), x % 2 ^ 1, 1)
      /\ Drained(Unread(out, x, 10), 8) = Unread(Append(out, x \div 2 ^ 2), x % 2 ^ 2, 2)
      /\ Drained(Unread(out, x, 11), 8) = Unread(Append(out, x \div 2 ^ 3), x % 2 ^ 3, 3)
      /\ Drained(Unread(out, x, 12), 8) = Unread(Append(out, x \div 2 ^ 4), x % 2 ^ 4, 4)
  BY DEF Drained, Unread
<1>2. QED
  BY <1>1, Powers, DrainedQuotient

(* A byte completes one symbol, or two of them. *)
OneSymbol(s, b, out, x, p, k) ==
    \E q, r : Splits(x, p, q, r) /\ ByteTaken(s, b) = Unread(Append(out, q), r, k)

TwoSymbols(s, b, out, x, p, pp, k) ==
    \E q, r, qq, rr : /\ Splits(x, p, q, r) /\ Splits(r, pp, qq, rr)
                      /\ ByteTaken(s, b) = Unread(Append(Append(out, q), qq), rr, k)

(* A byte after e, the unread bits of the one before it: 0 to 4 of them. *)
EncodesByte(out, e, b) ==
    LET x == e * 256 + b
    IN  /\ OneSymbol(Unread(out, e, 0), b, out, x, 8, 3)
        /\ OneSymbol(Unread(out, e, 1), b, out, x, 16, 4)
        /\ TwoSymbols(Unread(out, e, 2), b, out, x, 32, 1, 0)
        /\ TwoSymbols(Unread(out, e, 3), b, out, x, 64, 2, 1)
        /\ TwoSymbols(Unread(out, e, 4), b, out, x, 128, 4, 2)

(* The step of the encoder, for each number of bits left over. *)
LEMMA ByteTakenIs ==
    ASSUME NEW out, NEW e \in Nat, NEW b \in 0 .. 255
    PROVE  EncodesByte(out, e, b)
<1> DEFINE x == e * 256 + b
<1>1. x \in Nat
  OBVIOUS
<1>2. \A k \in 0 .. 4 : Pushed(Unread(out, e, k), 8, b) = Unread(out, x, k + 8)
  BY PushedIs
<1> HIDE DEF x
<1>3. \A k \in 0 .. 4 : ByteTaken(Unread(out, e, k), b) = Drained(Drained(Unread(out, x, k + 8), 5), 5)
  BY <1>2 DEF ByteTaken
<1>4. /\ ByteTaken(Unread(out, e, 0), b) = Drained(Drained(Unread(out, x, 8), 5), 5)
      /\ ByteTaken(Unread(out, e, 1), b) = Drained(Drained(Unread(out, x, 9), 5), 5)
      /\ ByteTaken(Unread(out, e, 2), b) = Drained(Drained(Unread(out, x, 10), 5), 5)
      /\ ByteTaken(Unread(out, e, 3), b) = Drained(Drained(Unread(out, x, 11), 5), 5)
      /\ ByteTaken(Unread(out, e, 4), b) = Drained(Drained(Unread(out, x, 12), 5), 5)
  BY <1>3
<1>5. ASSUME NEW s, NEW bits, NEW p, NEW k,
             ByteTaken(s, b) = Drained(Drained(Unread(out, x, bits), 5), 5),
             DrainsTo(out, x, bits, 5, p, k)
      PROVE  \E q, r : /\ Splits(x, p, q, r)
                       /\ ByteTaken(s, b) = Drained(Unread(Append(out, q), r, k), 5)
  BY <1>5, Zenon DEF DrainsTo
<1>6. ASSUME NEW s, NEW p, NEW k, NEW q, NEW r, Splits(x, p, q, r), k \in {3, 4},
             ByteTaken(s, b) = Drained(Unread(Append(out, q), r, k), 5)
      PROVE  OneSymbol(s, b, out, x, p, k)
  <2>1. Drained(Unread(Append(out, q), r, k), 5) = Unread(Append(out, q), r, k)
    BY <1>6, DrainedFive DEF Splits
  <2>2. QED
    BY <1>6, <2>1, Zenon DEF OneSymbol
<1> DEFINE Drains(k, pp, kk) == \A o : \A y \in Nat : DrainsTo(o, y, k, 5, pp, kk)
<1>7. ASSUME NEW s, NEW bits, NEW p, NEW k, NEW pp, NEW kk, Drains(k, pp, kk),
             ByteTaken(s, b) = Drained(Drained(Unread(out, x, bits), 5), 5),
             DrainsTo(out, x, bits, 5, p, k)
      PROVE  TwoSymbols(s, b, out, x, p, pp, kk)
  <2>1. PICK q, r : /\ Splits(x, p, q, r)
                    /\ ByteTaken(s, b) = Drained(Unread(Append(out, q), r, k), 5)
    BY <1>5, <1>7
  <2>2. r \in Nat
    BY <2>1 DEF Splits
  <2>3. PICK qq, rr : /\ Splits(r, pp, qq, rr)
                      /\ Drained(Unread(Append(out, q), r, k), 5) = Unread(Append(Append(out, q), qq), rr, kk)
    BY <1>7, <2>2, Zenon DEF DrainsTo
  <2>4. QED
    BY <2>1, <2>3, Zenon DEF TwoSymbols
<1>8. Drains(5, 1, 0) /\ Drains(6, 2, 1) /\ Drains(7, 4, 2)
  BY DrainedFive
<1> HIDE DEF Drains
<1>9. /\ DrainsTo(out, x, 8, 5, 8, 3) /\ DrainsTo(out, x, 9, 5, 16, 4) /\ DrainsTo(out, x, 10, 5, 32, 5)
      /\ DrainsTo(out, x, 11, 5, 64, 6) /\ DrainsTo(out, x, 12, 5, 128, 7)
  BY <1>1, DrainedFive
<1>10. OneSymbol(Unread(out, e, 0), b, out, x, 8, 3)
  BY <1>4, <1>5, <1>6, <1>9
<1>11. OneSymbol(Unread(out, e, 1), b, out, x, 16, 4)
  BY <1>4, <1>5, <1>6, <1>9
<1>12. TwoSymbols(Unread(out, e, 2), b, out, x, 32, 1, 0)
  BY <1>4, <1>7, <1>8, <1>9
<1>13. TwoSymbols(Unread(out, e, 3), b, out, x, 64, 2, 1)
  BY <1>4, <1>7, <1>8, <1>9
<1>14. TwoSymbols(Unread(out, e, 4), b, out, x, 128, 4, 2)
  BY <1>4, <1>7, <1>8, <1>9
<1>15. QED
  BY <1>10, <1>11, <1>12, <1>13, <1>14, Zenon DEF EncodesByte, x

(* What the decoder does with the value of a symbol: a byte may be complete. *)
ValueTaken(s, n) == Drained(Pushed(s, 5, n), 8)

OneByte(s, n, out, y, p, k) ==
    \E q, r : Splits(y, p, q, r) /\ ValueTaken(s, n) = Unread(Append(out, q), r, k)

(* A value after d, the first bits of a byte: 0 to 7 of them. *)
DecodesValue(out, d, n) ==
    LET y == d * 32 + n
    IN  /\ ValueTaken(Unread(out, d, 0), n) = Unread(out, y, 5)
        /\ ValueTaken(Unread(out, d, 1), n) = Unread(out, y, 6)
        /\ ValueTaken(Unread(out, d, 2), n) = Unread(out, y, 7)
        /\ OneByte(Unread(out, d, 3), n, out, y, 1, 0)
        /\ OneByte(Unread(out, d, 4), n, out, y, 2, 1)
        /\ OneByte(Unread(out, d, 5), n, out, y, 4, 2)
        /\ OneByte(Unread(out, d, 6), n, out, y, 8, 3)
        /\ OneByte(Unread(out, d, 7), n, out, y, 16, 4)

(* The step of the decoder, for each number of bits left over. *)
LEMMA ValueTakenIs ==
    ASSUME NEW out, NEW d \in Nat, NEW n \in 0 .. 31
    PROVE  DecodesValue(out, d, n)
<1> DEFINE y == d * 32 + n
<1>1. y \in Nat
  OBVIOUS
<1>2. \A k \in 0 .. 7 : Pushed(Unread(out, d, k), 5, n) = Unread(out, y, k + 5)
  BY PushedIs
<1> HIDE DEF y
<1>3. \A k \in 0 .. 7 : ValueTaken(Unread(out, d, k), n) = Drained(Unread(out, y, k + 5), 8)
  BY <1>2 DEF ValueTaken
<1>4. /\ ValueTaken(Unread(out, d, 0), n) = Drained(Unread(out, y, 5), 8)
      /\ ValueTaken(Unread(out, d, 1), n) = Drained(Unread(out, y, 6), 8)
      /\ ValueTaken(Unread(out, d, 2), n) = Drained(Unread(out, y, 7), 8)
      /\ ValueTaken(Unread(out, d, 3), n) = Drained(Unread(out, y, 8), 8)
      /\ ValueTaken(Unread(out, d, 4), n) = Drained(Unread(out, y, 9), 8)
      /\ ValueTaken(Unread(out, d, 5), n) = Drained(Unread(out, y, 10), 8)
      /\ ValueTaken(Unread(out, d, 6), n) = Drained(Unread(out, y, 11), 8)
      /\ ValueTaken(Unread(out, d, 7), n) = Drained(Unread(out, y, 12), 8)
  BY <1>3
<1>5. ASSUME NEW s, NEW bits, NEW p, NEW k, DrainsTo(out, y, bits, 8, p, k),
             ValueTaken(s, n) = Drained(Unread(out, y, bits), 8)
      PROVE  OneByte(s, n, out, y, p, k)
  BY <1>5, Zenon DEF DrainsTo, OneByte
<1>6. /\ ValueTaken(Unread(out, d, 0), n) = Unread(out, y, 5)
      /\ ValueTaken(Unread(out, d, 1), n) = Unread(out, y, 6)
      /\ ValueTaken(Unread(out, d, 2), n) = Unread(out, y, 7)
  BY <1>1, <1>4, DrainedEight
<1>7. /\ OneByte(Unread(out, d, 3), n, out, y, 1, 0)
      /\ OneByte(Unread(out, d, 4), n, out, y, 2, 1)
      /\ OneByte(Unread(out, d, 5), n, out, y, 4, 2)
      /\ OneByte(Unread(out, d, 6), n, out, y, 8, 3)
      /\ OneByte(Unread(out, d, 7), n, out, y, 16, 4)
  BY <1>1, <1>4, <1>5, DrainedEight
<1>8. QED
  BY <1>6, <1>7, Zenon DEF DecodesValue, y

(* The states between two bytes, or between two symbols. *)
Buffers(most) == [out : Seq(Nat), buffer : Nat, bits : 0 .. most]

(* A buffer is its output, its unread bits and their number. *)
LEMMA BufferIsUnread ==
    ASSUME NEW most, NEW s \in Buffers(most)
    PROVE  \E out \in Seq(Nat), buffer \in Nat, bits \in 0 .. most : s = Unread(out, buffer, bits)
<1>1. s = Unread(s.out, s.buffer, s.bits) /\ s.out \in Seq(Nat) /\ s.buffer \in Nat /\ s.bits \in 0 .. most
  BY DEF Buffers, Unread
<1>2. QED
  BY <1>1, Zenon

(* And the other way round. *)
LEMMA UnreadIsBuffer ==
    ASSUME NEW most \in Nat, NEW out \in Seq(Nat), NEW buffer \in Nat, NEW bits \in 0 .. most
    PROVE  Unread(out, buffer, bits) \in Buffers(most)
  BY DEF Buffers, Unread

(* The encoder never keeps more than four bits. *)
LEMMA ByteTakenType ==
    ASSUME NEW s \in Buffers(4), NEW b \in 0 .. 255
    PROVE  ByteTaken(s, b) \in Buffers(4)
<1>1. PICK out \in Seq(Nat), e \in Nat, bits \in 0 .. 4 : s = Unread(out, e, bits)
  BY BufferIsUnread
<1>2. EncodesByte(out, e, b)
  BY ByteTakenIs
<1>3. \A q, r, k : q \in Nat /\ r \in Nat /\ k \in 0 .. 4 => Unread(Append(out, q), r, k) \in Buffers(4)
  <2>1. \A q \in Nat : Append(out, q) \in Seq(Nat)
    OBVIOUS
  <2>2. QED
    BY <2>1, UnreadIsBuffer
<1>4. \A q, r, qq, k : q \in Nat /\ r \in Nat /\ qq \in Nat /\ k \in 0 .. 4 =>
         Unread(Append(Append(out, q), qq), r, k) \in Buffers(4)
  <2>1. \A q \in Nat, qq \in Nat : Append(Append(out, q), qq) \in Seq(Nat)
    OBVIOUS
  <2>2. QED
    BY <2>1, UnreadIsBuffer
<1>5. \A x, p, k : k \in 0 .. 4 /\ OneSymbol(s, b, out, x, p, k) => ByteTaken(s, b) \in Buffers(4)
  BY <1>3, Zenon DEF OneSymbol, Splits
<1>6. \A x, p, pp, k : k \in 0 .. 4 /\ TwoSymbols(s, b, out, x, p, pp, k) => ByteTaken(s, b) \in Buffers(4)
  BY <1>4, Zenon DEF TwoSymbols, Splits
<1>7. bits = 0 \/ bits = 1 \/ bits = 2 \/ bits = 3 \/ bits = 4
  OBVIOUS
<1>8. QED
  BY <1>1, <1>2, <1>5, <1>6, <1>7 DEF EncodesByte

(* The decoder never keeps more than seven bits. *)
LEMMA ValueTakenType ==
    ASSUME NEW s \in Buffers(7), NEW n \in 0 .. 31
    PROVE  ValueTaken(s, n) \in Buffers(7)
<1>1. PICK out \in Seq(Nat), d \in Nat, bits \in 0 .. 7 : s = Unread(out, d, bits)
  BY BufferIsUnread
<1>2. DecodesValue(out, d, n)
  BY ValueTakenIs
<1>3. \A q, r, k : q \in Nat /\ r \in Nat /\ k \in 0 .. 7 => Unread(Append(out, q), r, k) \in Buffers(7)
  <2>1. \A q \in Nat : Append(out, q) \in Seq(Nat)
    OBVIOUS
  <2>2. QED
    BY <2>1, UnreadIsBuffer
<1>4. \A k \in 5 .. 7 : Unread(out, d * 32 + n, k) \in Buffers(7)
  BY UnreadIsBuffer
<1>5. \A y, p, k : k \in 0 .. 7 /\ OneByte(s, n, out, y, p, k) => ValueTaken(s, n) \in Buffers(7)
  BY <1>3, Zenon DEF OneByte, Splits
<1>6. bits = 0 \/ bits = 1 \/ bits = 2 \/ bits = 3 \/ bits = 4 \/ bits = 5 \/ bits = 6 \/ bits = 7
  OBVIOUS
<1>7. QED
  BY <1>1, <1>2, <1>4, <1>5, <1>6 DEF DecodesValue

-----------------------------------------------------------------------------
(***************************************************************************)
(* Encoder and decoder side by side: the loop invariant.                   *)
(***************************************************************************)

(* The encoder has read i bytes and the decoder all that it wrote: each of *)
(* them has its part of the last byte, or none of it.                      *)
Even(bytes, i, enc, dec) ==
    \E o \in Seq(0 .. 31) : /\ enc = Unread(o, 0, 0)
                            /\ dec = Unread(SubSeq(bytes, 1, i), 0, 0)
                            /\ 5 * Len(o) = 8 * i

Amid(bytes, i, enc, dec, p, k, m) ==
    \E o \in Seq(0 .. 31), d \in Nat, e \in Nat : /\ enc = Unread(o, e, k)
                                  /\ dec = Unread(SubSeq(bytes, 1, i - 1), d, m)
                                  /\ Splits(bytes[i], p, d, e)
                                  /\ 5 * Len(o) + k = 8 * i

InStep(bytes, i, enc, dec) ==
    \/ Even(bytes, i, enc, dec)
    \/ Amid(bytes, i, enc, dec, 2, 1, 7)
    \/ Amid(bytes, i, enc, dec, 4, 2, 6)
    \/ Amid(bytes, i, enc, dec, 8, 3, 5)
    \/ Amid(bytes, i, enc, dec, 16, 4, 4)

(* One byte more: the encoder writes a symbol or two, and the decoder follows. *)
Follows(bytes, i, enc, dec) ==
    LET new == ByteTaken(enc, bytes[i])
    IN  \/ \E v \in 0 .. 31 : /\ new.out = Append(enc.out, v)
                              /\ InStep(bytes, i, new, ValueTaken(dec, v))
        \/ \E v \in 0 .. 31, w \in 0 .. 31 :
              /\ new.out = Append(Append(enc.out, v), w)
              /\ InStep(bytes, i, new, ValueTaken(ValueTaken(dec, v), w))

(* One or two symbols more, with the byte divided between the two sides. *)
OneMore(enc, dec, b, out, sofar, p, k, m) ==
    \E v \in 0 .. 31, d \in Nat, e \in Nat :
        /\ ByteTaken(enc, b) = Unread(Append(out, v), e, k)
        /\ ValueTaken(dec, v) = Unread(sofar, d, m)
        /\ Splits(b, p, d, e)

TwoMore(enc, dec, b, out, sofar, p, k, m) ==
    \E v \in 0 .. 31, w \in 0 .. 31, d \in Nat, e \in Nat :
        /\ ByteTaken(enc, b) = Unread(Append(Append(out, v), w), e, k)
        /\ ValueTaken(ValueTaken(dec, v), w) = Unread(sofar, d, m)
        /\ Splits(b, p, d, e)

(* Two symbols more, and nothing is left on either side. *)
TwoDone(enc, dec, b, out, sofar) ==
    \E v \in 0 .. 31, w \in 0 .. 31 :
        /\ ByteTaken(enc, b) = Unread(Append(Append(out, v), w), 0, 0)
        /\ ValueTaken(ValueTaken(dec, v), w) = Unread(Append(sofar, b), 0, 0)

(* A prefix grows by the next element. *)
LEMMA NextPrefix ==
    ASSUME NEW S, NEW s \in Seq(S), NEW i \in 1 .. Len(s)
    PROVE  Append(SubSeq(s, 1, i - 1), s[i]) = SubSeq(s, 1, i) /\ s[i] \in S
  OBVIOUS

(* One symbol more, and two. *)
LEMMA SymbolWritten ==
    ASSUME NEW o \in Seq(0 .. 31), NEW v \in 0 .. 31, NEW w \in 0 .. 31
    PROVE  /\ Append(o, v) \in Seq(0 .. 31) /\ Len(Append(o, v)) = Len(o) + 1
           /\ Append(Append(o, v), w) \in Seq(0 .. 31) /\ Len(Append(Append(o, v), w)) = Len(o) + 2
           /\ Len(o) \in Nat
  OBVIOUS

(* A byte after nothing: one symbol, and three bits stay. *)
LEMMA ByteFrom0 ==
    ASSUME NEW out, NEW sofar, NEW b \in 0 .. 255
    PROVE  OneMore(Unread(out, 0, 0), Unread(sofar, 0, 0), b, out, sofar, 8, 3, 5)
<1>1. EncodesByte(out, 0, b)
  BY ByteTakenIs
<1>2. PICK q, r : Splits(0 * 256 + b, 8, q, r) /\ ByteTaken(Unread(out, 0, 0), b) = Unread(Append(out, q), r, 3)
  BY <1>1, Zenon DEF EncodesByte, OneSymbol
<1>3. q \in 0 .. 31 /\ Splits(b, 8, 0 * 32 + q, r)
  BY <1>2 DEF Splits
<1>4. DecodesValue(sofar, 0, q)
  BY <1>3, ValueTakenIs
<1>5. QED
  BY <1>2, <1>3, <1>4, Zenon DEF DecodesValue, OneMore, Splits

(* A byte after one bit: one symbol, which completes the last byte. *)
LEMMA ByteFrom1 ==
    ASSUME NEW out, NEW sofar, NEW b \in 0 .. 255, NEW last \in 0 .. 255, NEW d, NEW e, Splits(last, 2, d, e)
    PROVE  OneMore(Unread(out, e, 1), Unread(sofar, d, 7), b, out, Append(sofar, last), 16, 4, 4)
<1>1. d \in Nat /\ e \in Nat /\ e < 2
  BY DEF Splits
<1>2. EncodesByte(out, e, b)
  BY <1>1, ByteTakenIs
<1>3. PICK q, r : Splits(e * 256 + b, 16, q, r) /\ ByteTaken(Unread(out, e, 1), b) = Unread(Append(out, q), r, 4)
  BY <1>2, Zenon DEF EncodesByte, OneSymbol
<1>4. q \in 0 .. 31
  BY <1>1, <1>3 DEF Splits
<1>5. DecodesValue(sofar, d, q)
  BY <1>1, <1>4, ValueTakenIs
<1>6. PICK qd, rd : /\ Splits(d * 32 + q, 16, qd, rd)
                    /\ ValueTaken(Unread(sofar, d, 7), q) = Unread(Append(sofar, qd), rd, 4)
  BY <1>5, Zenon DEF DecodesValue, OneByte
<1>7. qd = last /\ Splits(b, 16, rd, r)
  <2>1. /\ Splits(e * 256 + b, 16, q, r)
        /\ Splits(d * 32 + q, 16, qd, rd)
    BY <1>3, <1>6
  <2>2. QED
    BY <2>1 DEF Splits
<1>8. QED
  BY <1>3, <1>4, <1>6, <1>7, Zenon DEF OneMore, Splits

(* A byte after two bits: two symbols, and nothing stays. *)
LEMMA ByteFrom2 ==
    ASSUME NEW out, NEW sofar, NEW b \in 0 .. 255, NEW last \in 0 .. 255, NEW d, NEW e, Splits(last, 4, d, e)
    PROVE  TwoDone(Unread(out, e, 2), Unread(sofar, d, 6), b, out, Append(sofar, last))
<1>1. d \in Nat /\ e \in Nat /\ e < 4
  BY DEF Splits
<1>2. EncodesByte(out, e, b)
  BY <1>1, ByteTakenIs
<1>3. PICK q, r, qq, rr : /\ Splits(e * 256 + b, 32, q, r) /\ Splits(r, 1, qq, rr)
                          /\ ByteTaken(Unread(out, e, 2), b) = Unread(Append(Append(out, q), qq), rr, 0)
  BY <1>2, Zenon DEF EncodesByte, TwoSymbols
<1>4. q \in 0 .. 31 /\ qq \in 0 .. 31 /\ rr = 0
  BY <1>1, <1>3 DEF Splits
<1>5. DecodesValue(sofar, d, q)
  BY <1>1, <1>4, ValueTakenIs
<1>6. PICK qd, rd : /\ Splits(d * 32 + q, 8, qd, rd)
                    /\ ValueTaken(Unread(sofar, d, 6), q) = Unread(Append(sofar, qd), rd, 3)
  BY <1>5, Zenon DEF DecodesValue, OneByte
<1>7. DecodesValue(Append(sofar, qd), rd, qq)
  BY <1>4, <1>6, ValueTakenIs DEF Splits
<1>8. PICK qqd, rrd : /\ Splits(rd * 32 + qq, 1, qqd, rrd)
                      /\ ValueTaken(Unread(Append(sofar, qd), rd, 3), qq) =
                            Unread(Append(Append(sofar, qd), qqd), rrd, 0)
  BY <1>7, Zenon DEF DecodesValue, OneByte
<1>9. qd = last /\ qqd = b /\ rrd = 0
  <2>1. /\ Splits(e * 256 + b, 32, q, r) /\ Splits(r, 1, qq, rr)
        /\ Splits(d * 32 + q, 8, qd, rd) /\ Splits(rd * 32 + qq, 1, qqd, rrd)
    BY <1>3, <1>6, <1>8
  <2>2. QED
    BY <2>1 DEF Splits
<1>10. QED
  BY <1>3, <1>4, <1>6, <1>8, <1>9, Zenon DEF TwoMore, TwoDone, Splits

(* A byte after three bits: two symbols, and one bit stays. *)
LEMMA ByteFrom3 ==
    ASSUME NEW out, NEW sofar, NEW b \in 0 .. 255, NEW last \in 0 .. 255, NEW d, NEW e, Splits(last, 8, d, e)
    PROVE  TwoMore(Unread(out, e, 3), Unread(sofar, d, 5), b, out, Append(sofar, last), 2, 1, 7)
<1>1. d \in Nat /\ e \in Nat /\ e < 8
  BY DEF Splits
<1>2. EncodesByte(out, e, b)
  BY <1>1, ByteTakenIs
<1>3. PICK q, r, qq, rr : /\ Splits(e * 256 + b, 64, q, r) /\ Splits(r, 2, qq, rr)
                          /\ ByteTaken(Unread(out, e, 3), b) = Unread(Append(Append(out, q), qq), rr, 1)
  BY <1>2, Zenon DEF EncodesByte, TwoSymbols
<1>4. q \in 0 .. 31 /\ qq \in 0 .. 31
  BY <1>1, <1>3 DEF Splits
<1>5. DecodesValue(sofar, d, q)
  BY <1>1, <1>4, ValueTakenIs
<1>6. PICK qd, rd : /\ Splits(d * 32 + q, 4, qd, rd)
                    /\ ValueTaken(Unread(sofar, d, 5), q) = Unread(Append(sofar, qd), rd, 2)
  BY <1>5, Zenon DEF DecodesValue, OneByte
<1>7. DecodesValue(Append(sofar, qd), rd, qq)
  BY <1>4, <1>6, ValueTakenIs DEF Splits
<1>8. ValueTaken(Unread(Append(sofar, qd), rd, 2), qq) = Unread(Append(sofar, qd), rd * 32 + qq, 7)
  BY <1>7, Zenon DEF DecodesValue
<1>9. qd = last /\ Splits(b, 2, rd * 32 + qq, rr)
  <2>1. /\ Splits(e * 256 + b, 64, q, r) /\ Splits(r, 2, qq, rr)
        /\ Splits(d * 32 + q, 4, qd, rd)
    BY <1>3, <1>6
  <2>2. QED
    BY <2>1 DEF Splits
<1>10. QED
  BY <1>3, <1>4, <1>6, <1>8, <1>9, Zenon DEF TwoMore, TwoDone, Splits

(* A byte after four bits: two symbols, and two bits stay. *)
LEMMA ByteFrom4 ==
    ASSUME NEW out, NEW sofar, NEW b \in 0 .. 255, NEW last \in 0 .. 255, NEW d, NEW e, Splits(last, 16, d, e)
    PROVE  TwoMore(Unread(out, e, 4), Unread(sofar, d, 4), b, out, Append(sofar, last), 4, 2, 6)
<1>1. d \in Nat /\ e \in Nat /\ e < 16
  BY DEF Splits
<1>2. EncodesByte(out, e, b)
  BY <1>1, ByteTakenIs
<1>3. PICK q, r, qq, rr : /\ Splits(e * 256 + b, 128, q, r) /\ Splits(r, 4, qq, rr)
                          /\ ByteTaken(Unread(out, e, 4), b) = Unread(Append(Append(out, q), qq), rr, 2)
  BY <1>2, Zenon DEF EncodesByte, TwoSymbols
<1>4. q \in 0 .. 31 /\ qq \in 0 .. 31
  BY <1>1, <1>3 DEF Splits
<1>5. DecodesValue(sofar, d, q)
  BY <1>1, <1>4, ValueTakenIs
<1>6. PICK qd, rd : /\ Splits(d * 32 + q, 2, qd, rd)
                    /\ ValueTaken(Unread(sofar, d, 4), q) = Unread(Append(sofar, qd), rd, 1)
  BY <1>5, Zenon DEF DecodesValue, OneByte
<1>7. DecodesValue(Append(sofar, qd), rd, qq)
  BY <1>4, <1>6, ValueTakenIs DEF Splits
<1>8. ValueTaken(Unread(Append(sofar, qd), rd, 1), qq) = Unread(Append(sofar, qd), rd * 32 + qq, 6)
  BY <1>7, Zenon DEF DecodesValue
<1>9. qd = last /\ Splits(b, 4, rd * 32 + qq, rr)
  <2>1. /\ Splits(e * 256 + b, 128, q, r) /\ Splits(r, 4, qq, rr)
        /\ Splits(d * 32 + q, 2, qd, rd)
    BY <1>3, <1>6
  <2>2. QED
    BY <2>1 DEF Splits
<1>10. QED
  BY <1>3, <1>4, <1>6, <1>8, <1>9, Zenon DEF TwoMore, TwoDone, Splits

(* The symbols so far, and what the next byte adds to them. *)
AddsOne(bytes, i, enc, dec, o, p, k, m) ==
    /\ o \in Seq(0 .. 31) /\ enc.out = o /\ 5 * Len(o) + 5 + k = 8 * i
    /\ OneMore(enc, dec, bytes[i], o, SubSeq(bytes, 1, i - 1), p, k, m)

AddsTwo(bytes, i, enc, dec, o, p, k, m) ==
    /\ o \in Seq(0 .. 31) /\ enc.out = o /\ 5 * Len(o) + 10 + k = 8 * i
    /\ TwoMore(enc, dec, bytes[i], o, SubSeq(bytes, 1, i - 1), p, k, m)

Completes(bytes, i, enc, dec, o) ==
    /\ o \in Seq(0 .. 31) /\ enc.out = o /\ 5 * Len(o) + 10 = 8 * i
    /\ TwoDone(enc, dec, bytes[i], o, SubSeq(bytes, 1, i - 1))

(* After one symbol more the two sides are in step again. *)
LEMMA FollowsOne ==
    ASSUME NEW bytes \in Seq(0 .. 255), NEW i \in 1 .. Len(bytes), NEW enc, NEW dec, NEW o,
           NEW p, NEW k \in Nat, NEW m,
           <<p, k, m>> \in {<<8, 3, 5>>, <<16, 4, 4>>}, AddsOne(bytes, i, enc, dec, o, p, k, m)
    PROVE  Follows(bytes, i, enc, dec)
<1>0. /\ o \in Seq(0 .. 31) /\ enc.out = o /\ 5 * Len(o) + 5 + k = 8 * i
      /\ OneMore(enc, dec, bytes[i], o, SubSeq(bytes, 1, i - 1), p, k, m)
  BY Zenon DEF AddsOne
<1> DEFINE new == ByteTaken(enc, bytes[i])
<1>1. PICK v \in 0 .. 31, d \in Nat, e \in Nat :
         /\ new = Unread(Append(o, v), e, k)
         /\ ValueTaken(dec, v) = Unread(SubSeq(bytes, 1, i - 1), d, m)
         /\ Splits(bytes[i], p, d, e)
  BY <1>0, Zenon DEF OneMore
<1>2. Append(o, v) \in Seq(0 .. 31) /\ 5 * Len(Append(o, v)) + k = 8 * i
  BY <1>0, SymbolWritten
<1> HIDE DEF new
<1>3. Amid(bytes, i, new, ValueTaken(dec, v), p, k, m)
  BY <1>1, <1>2, Zenon DEF Amid
<1>4. InStep(bytes, i, new, ValueTaken(dec, v))
  <2>1. (p = 8 /\ k = 3 /\ m = 5) \/ (p = 16 /\ k = 4 /\ m = 4)
    OBVIOUS
  <2>2. QED
    BY <1>3, <2>1, Zenon DEF InStep
<1>5. new.out = Append(enc.out, v)
  <2>1. new.out = Append(o, v)
    BY <1>1 DEF Unread
  <2>2. QED
    BY <1>0, <2>1
<1>6. QED
  BY <1>4, <1>5, Zenon DEF Follows, new

(* After two symbols more the two sides are in step again. *)
LEMMA FollowsTwo ==
    ASSUME NEW bytes \in Seq(0 .. 255), NEW i \in 1 .. Len(bytes), NEW enc, NEW dec, NEW o,
           NEW p, NEW k \in Nat, NEW m,
           <<p, k, m>> \in {<<2, 1, 7>>, <<4, 2, 6>>}, AddsTwo(bytes, i, enc, dec, o, p, k, m)
    PROVE  Follows(bytes, i, enc, dec)
<1>0. /\ o \in Seq(0 .. 31) /\ enc.out = o /\ 5 * Len(o) + 10 + k = 8 * i
      /\ TwoMore(enc, dec, bytes[i], o, SubSeq(bytes, 1, i - 1), p, k, m)
  BY Zenon DEF AddsTwo
<1> DEFINE new == ByteTaken(enc, bytes[i])
<1>1. PICK v \in 0 .. 31, w \in 0 .. 31, d \in Nat, e \in Nat :
         /\ new = Unread(Append(Append(o, v), w), e, k)
         /\ ValueTaken(ValueTaken(dec, v), w) = Unread(SubSeq(bytes, 1, i - 1), d, m)
         /\ Splits(bytes[i], p, d, e)
  BY <1>0, Zenon DEF TwoMore
<1>2. /\ Append(Append(o, v), w) \in Seq(0 .. 31)
      /\ 5 * Len(Append(Append(o, v), w)) + k = 8 * i
  BY <1>0, SymbolWritten
<1> HIDE DEF new
<1>3. Amid(bytes, i, new, ValueTaken(ValueTaken(dec, v), w), p, k, m)
  BY <1>1, <1>2, Zenon DEF Amid
<1>4. InStep(bytes, i, new, ValueTaken(ValueTaken(dec, v), w))
  <2>1. (p = 2 /\ k = 1 /\ m = 7) \/ (p = 4 /\ k = 2 /\ m = 6)
    OBVIOUS
  <2>2. QED
    BY <1>3, <2>1, Zenon DEF InStep
<1>5. new.out = Append(Append(enc.out, v), w)
  <2>1. new.out = Append(Append(o, v), w)
    BY <1>1 DEF Unread
  <2>2. QED
    BY <1>0, <2>1
<1>6. QED
  BY <1>4, <1>5, Zenon DEF Follows, new

(* After two symbols that leave nothing they are in step, too. *)
LEMMA FollowsDone ==
    ASSUME NEW bytes \in Seq(0 .. 255), NEW i \in 1 .. Len(bytes), NEW enc, NEW dec, NEW o,
           Completes(bytes, i, enc, dec, o)
    PROVE  Follows(bytes, i, enc, dec)
<1>0. /\ o \in Seq(0 .. 31) /\ enc.out = o /\ 5 * Len(o) + 10 = 8 * i
      /\ TwoDone(enc, dec, bytes[i], o, SubSeq(bytes, 1, i - 1))
  BY Zenon DEF Completes
<1> DEFINE new == ByteTaken(enc, bytes[i])
<1>1. PICK v \in 0 .. 31, w \in 0 .. 31 :
         /\ new = Unread(Append(Append(o, v), w), 0, 0)
         /\ ValueTaken(ValueTaken(dec, v), w) = Unread(Append(SubSeq(bytes, 1, i - 1), bytes[i]), 0, 0)
  BY <1>0, Zenon DEF TwoDone
<1>2. /\ Append(Append(o, v), w) \in Seq(0 .. 31)
      /\ 5 * Len(Append(Append(o, v), w)) = 8 * i
  BY <1>0, SymbolWritten
<1>3. Append(SubSeq(bytes, 1, i - 1), bytes[i]) = SubSeq(bytes, 1, i)
  BY NextPrefix
<1> HIDE DEF new
<1>4. InStep(bytes, i, new, ValueTaken(ValueTaken(dec, v), w))
  BY <1>1, <1>2, <1>3, Zenon DEF InStep, Even
<1>5. new.out = Append(Append(enc.out, v), w)
  <2>1. new.out = Append(Append(o, v), w)
    BY <1>1 DEF Unread
  <2>2. QED
    BY <1>0, <2>1
<1>6. QED
  BY <1>4, <1>5, Zenon DEF Follows, new

-----------------------------------------------------------------------------
(***************************************************************************)
(* The two loops as sequences of steps.                                    *)
(***************************************************************************)

(* The elements of a sequence. *)
LEMMA Elements ==
    ASSUME NEW S, NEW s \in Seq(S)
    PROVE  Len(s) \in Nat /\ \A i \in 1 .. Len(s) : s[i] \in S
  OBVIOUS

Encodes(enc, bytes) ==
    /\ enc[1] = EmptyBuffer
    /\ \A i \in 1 .. Len(bytes) : enc[i + 1] = ByteTaken(enc[i], bytes[i])
    /\ Chunked(bytes) = enc[Len(bytes) + 1]

(* Chunked, by the recursion on the number of bytes that defines it. *)
LEMMA ChunkedSteps ==
    ASSUME NEW bytes \in Seq(0 .. 255)
    PROVE  \E enc \in [1 .. Len(bytes) + 1 -> Buffers(4)] : Encodes(enc, bytes)
<1> DEFINE n == Len(bytes)
           S == Buffers(4)
           Step == {u \in (1 .. n) \X S \X S : u[3] = ByteTaken(u[2], bytes[u[1]])}
           Runs(f) == f = [i \in 1 .. n + 1 |->
                              IF i = 1 THEN EmptyBuffer ELSE ByteTaken(f[i - 1], bytes[i - 1])]
<1>1. n \in Nat /\ EmptyBuffer \in S
  <2>1. EmptyBuffer = Unread(<<>>, 0, 0)
    BY Zenon DEF EmptyBuffer, Unread
  <2>2. <<>> \in Seq(Nat) /\ n \in Nat /\ 0 \in Nat /\ 0 \in 0 .. 4 /\ 4 \in Nat
    OBVIOUS
  <2>3. Unread(<<>>, 0, 0) \in Buffers(4)
    BY <2>2, UnreadIsBuffer
  <2>4. QED
    BY <2>1, <2>2, <2>3, Zenon
<1>2. \A i \in 1 .. n, s \in S : ByteTaken(s, bytes[i]) \in S
  <2>1. \A i \in 1 .. n : bytes[i] \in 0 .. 255
    BY Elements, Zenon
  <2> HIDE DEF n, S
  <2>2. \A s \in Buffers(4), b \in 0 .. 255 : ByteTaken(s, b) \in Buffers(4)
    BY ByteTakenType
  <2>3. QED
    BY <2>1, <2>2, Zenon DEF S
<1>3. \A i \in 1 .. n, s \in S, t \in S : <<i, s, t>> \in Step <=> t = ByteTaken(s, bytes[i])
  <2> HIDE DEF n, S
  <2>1. QED
    OBVIOUS
<1> HIDE DEF S
<1>4. PICK g \in [1 .. n + 1 -> S] : Iterates(g, n, EmptyBuffer, Step)
  <2>1. Total(n, S, Step)
    <3> HIDE DEF n, Step
    <3>1. QED
      BY <1>2, <1>3 DEF Total
  <2> HIDE DEF n, Step
  <2>2. QED
    BY <1>1, <2>1, IteratesExist
<1>5. /\ g[1] = EmptyBuffer
      /\ \A i \in 1 .. n : g[i + 1] = ByteTaken(g[i], bytes[i])
  <2> HIDE DEF n, Step
  <2>1. g[1] = EmptyBuffer /\ \A i \in 1 .. n : <<i, g[i], g[i + 1]>> \in Step
    BY <1>4 DEF Iterates
  <2>2. \A i \in 1 .. n : i \in 1 .. n + 1 /\ i + 1 \in 1 .. n + 1
    BY <1>1
  <2>3. \A i \in 1 .. n : g[i] \in S /\ g[i + 1] \in S
    BY <2>2, Zenon
  <2>4. QED
    BY <1>3, <2>1, <2>3, Zenon
<1>6. Runs(g)
  <2> DEFINE Value(i) == IF i = 1 THEN EmptyBuffer ELSE ByteTaken(g[i - 1], bytes[i - 1])
  <2>1. \A i \in 1 .. n + 1 : g[i] = Value(i)
    <3> TAKE i \in 1 .. n + 1
    <3>1. CASE i = 1
      BY <1>5, <3>1
    <3>2. CASE i # 1
      <4>1. i - 1 \in 1 .. n /\ (i - 1) + 1 = i
        BY <1>1, <3>2
      <4> HIDE DEF n
      <4>2. g[(i - 1) + 1] = ByteTaken(g[i - 1], bytes[i - 1])
        BY <1>5, <4>1, Zenon
      <4>3. QED
        BY <3>2, <4>1, <4>2
    <3>3. QED
      BY <3>1, <3>2
  <2>2. g = [i \in 1 .. n + 1 |-> Value(i)]
    <3> HIDE DEF n, Value
    <3>1. QED
      BY <2>1
  <2>3. QED
    BY <2>2, Zenon
<1> DEFINE enc == CHOOSE f : Runs(f)
<1>7. Chunked(bytes) = enc[n + 1]
  BY Zenon DEF Chunked
<1>8. Runs(enc)
  <2> HIDE DEF Runs
  <2>1. QED
    BY <1>6, Zenon
<1> HIDE DEF enc
<1>9. enc[1] = EmptyBuffer
  <2>1. 1 \in 1 .. n + 1
    BY <1>1
  <2>2. QED
    BY <1>8, <2>1, Zenon
<1>10. ASSUME NEW i \in 1 .. n
       PROVE  enc[i + 1] = ByteTaken(enc[i], bytes[i])
  <2>1. i + 1 \in 1 .. n + 1 /\ i + 1 # 1 /\ (i + 1) - 1 = i
    BY <1>1
  <2>2. enc[i + 1] = ByteTaken(enc[(i + 1) - 1], bytes[(i + 1) - 1])
    <3> HIDE DEF n
    <3>1. QED
      BY <1>8, <2>1, Zenon
  <2>3. QED
    BY <2>1, <2>2
<1>11. \A i \in 1 .. n + 1 : enc[i] \in S
  <2> DEFINE T == {i \in 0 .. n : enc[i + 1] \in S}
  <2>1. 0 \in T
    <3>1. enc[0 + 1] = EmptyBuffer /\ 0 \in 0 .. n
      BY <1>1, <1>9
    <3>2. QED
      BY <1>1, <3>1
  <2>2. ASSUME NEW i \in 1 .. n, i - 1 \in T PROVE i \in T
    <3>1. enc[i] \in S
      BY <2>2
    <3>2. enc[i + 1] \in S
      BY <1>2, <1>10, <3>1
    <3>3. QED
      BY <1>1, <3>2
  <2>3. \A i \in 0 .. n : i \in T
    <3> HIDE DEF T, n
    <3>1. QED
      BY <1>1, <2>1, <2>2, InductionUpTo
  <2>4. \A i \in 1 .. n + 1 : i - 1 \in 0 .. n /\ (i - 1) + 1 = i
    BY <1>1
  <2>5. QED
    BY <2>3, <2>4
<1>12. enc = [i \in 1 .. n + 1 |-> enc[i]]
  BY <1>8
<1>13. enc \in [1 .. n + 1 -> S]
  <2> HIDE DEF n
  <2>1. QED
    BY <1>11, <1>12
<1>14. QED
  BY <1>7, <1>9, <1>10, <1>13 DEF Encodes, S

(* The decoder before each value, and after the last one. *)
Takes(dec, values) ==
    /\ dec[1] = EmptyBuffer
    /\ \A i \in 1 .. Len(values) : dec[i + 1] = ValueTaken(dec[i], values[i])

Decodes(dec, values, symbols) ==
    Takes(dec, values) /\ Bytes(symbols) = dec[Len(values) + 1].out

(* A row of symbols, whichever they are, that have these values. *)
Means(symbols, values) ==
    /\ Len(symbols) = Len(values)
    /\ \A i \in 1 .. Len(values) : CrockfordValues(symbols[i]) = {values[i]}

(* Bytes, by its recursion, for symbols of which only the values are     *)
(* known.                                                                *)
LEMMA BytesSteps ==
    ASSUME NEW values \in Seq(0 .. 31), NEW symbols, Means(symbols, values)
    PROVE  \E dec \in [1 .. Len(values) + 1 -> Buffers(7)] : Decodes(dec, values, symbols)
<1> DEFINE n == Len(values)
           S == Buffers(7)
           Step == {u \in (1 .. n) \X S \X S : u[3] = ValueTaken(u[2], values[u[1]])}
           Runs(f) == f = [i \in 1 .. n + 1 |->
                              IF i = 1 THEN EmptyBuffer ELSE SymbolTaken(f[i - 1], symbols[i - 1])]
<1>0. \A i \in 1 .. n : \A s : SymbolTaken(s, symbols[i]) = ValueTaken(s, values[i])
  <2> TAKE i \in 1 .. n
  <2>1. CrockfordValues(symbols[i]) = {values[i]}
    BY DEF Means
  <2>2. (CHOOSE v \in CrockfordValues(symbols[i]) : TRUE) = values[i]
    <3>1. (CHOOSE v \in {values[i]} : TRUE) = values[i]
      OBVIOUS
    <3>2. QED
      BY <2>1, <3>1
  <2>3. QED
    BY <2>2 DEF SymbolTaken, ValueTaken
<1>1. n \in Nat /\ EmptyBuffer \in S
  <2>1. EmptyBuffer = Unread(<<>>, 0, 0)
    BY Zenon DEF EmptyBuffer, Unread
  <2>2. <<>> \in Seq(Nat) /\ n \in Nat /\ 0 \in Nat /\ 0 \in 0 .. 7 /\ 7 \in Nat
    OBVIOUS
  <2>3. Unread(<<>>, 0, 0) \in Buffers(7)
    BY <2>2, UnreadIsBuffer
  <2>4. QED
    BY <2>1, <2>2, <2>3, Zenon
<1>2. \A i \in 1 .. n, s \in S : ValueTaken(s, values[i]) \in S
  <2>1. \A i \in 1 .. n : values[i] \in 0 .. 31
    BY Elements, Zenon
  <2> HIDE DEF n, S
  <2>2. \A s \in Buffers(7), b \in 0 .. 31 : ValueTaken(s, b) \in Buffers(7)
    BY ValueTakenType
  <2>3. QED
    BY <2>1, <2>2, Zenon DEF S
<1>3. \A i \in 1 .. n, s \in S, t \in S : <<i, s, t>> \in Step <=> t = ValueTaken(s, values[i])
  <2> HIDE DEF n, S
  <2>1. QED
    OBVIOUS
<1> HIDE DEF S
<1>4. PICK g \in [1 .. n + 1 -> S] : Iterates(g, n, EmptyBuffer, Step)
  <2>1. Total(n, S, Step)
    <3> HIDE DEF n, Step
    <3>1. QED
      BY <1>2, <1>3 DEF Total
  <2> HIDE DEF n, Step
  <2>2. QED
    BY <1>1, <2>1, IteratesExist
<1>5. /\ g[1] = EmptyBuffer
      /\ \A i \in 1 .. n : g[i + 1] = ValueTaken(g[i], values[i])
  <2> HIDE DEF n, Step
  <2>1. g[1] = EmptyBuffer /\ \A i \in 1 .. n : <<i, g[i], g[i + 1]>> \in Step
    BY <1>4 DEF Iterates
  <2>2. \A i \in 1 .. n : i \in 1 .. n + 1 /\ i + 1 \in 1 .. n + 1
    BY <1>1
  <2>3. \A i \in 1 .. n : g[i] \in S /\ g[i + 1] \in S
    BY <2>2, Zenon
  <2>4. QED
    BY <1>3, <2>1, <2>3, Zenon
<1>6. Runs(g)
  <2> DEFINE Value(i) == IF i = 1 THEN EmptyBuffer ELSE SymbolTaken(g[i - 1], symbols[i - 1])
  <2>1. \A i \in 1 .. n + 1 : g[i] = Value(i)
    <3> TAKE i \in 1 .. n + 1
    <3>1. CASE i = 1
      BY <1>5, <3>1
    <3>2. CASE i # 1
      <4>1. i - 1 \in 1 .. n /\ (i - 1) + 1 = i
        BY <1>1, <3>2
      <4> HIDE DEF n
      <4>2. g[(i - 1) + 1] = SymbolTaken(g[i - 1], symbols[i - 1])
        BY <1>0, <1>5, <4>1, Zenon
      <4>3. QED
        BY <3>2, <4>1, <4>2
    <3>3. QED
      BY <3>1, <3>2
  <2>2. g = [i \in 1 .. n + 1 |-> Value(i)]
    <3> HIDE DEF n, Value
    <3>1. QED
      BY <2>1
  <2>3. QED
    BY <2>2, Zenon
<1> DEFINE dec == CHOOSE f : Runs(f)
<1>7. Bytes(symbols) = dec[n + 1].out
  BY Zenon DEF Bytes, Means
<1>8. Runs(dec)
  <2> HIDE DEF Runs
  <2>1. QED
    BY <1>6, Zenon
<1> HIDE DEF dec
<1>9. dec[1] = EmptyBuffer
  <2>1. 1 \in 1 .. n + 1
    BY <1>1
  <2>2. QED
    BY <1>8, <2>1, Zenon
<1>10. ASSUME NEW i \in 1 .. n
       PROVE  dec[i + 1] = ValueTaken(dec[i], values[i])
  <2>1. i + 1 \in 1 .. n + 1 /\ i + 1 # 1 /\ (i + 1) - 1 = i
    BY <1>1
  <2>2. dec[i + 1] = SymbolTaken(dec[(i + 1) - 1], symbols[(i + 1) - 1])
    <3> HIDE DEF n
    <3>1. QED
      BY <1>8, <2>1, Zenon
  <2> HIDE DEF n
  <2>3. dec[i + 1] = SymbolTaken(dec[i], symbols[i])
    BY <2>1, <2>2
  <2>4. QED
    BY <1>0, <2>3, Zenon
<1>11. \A i \in 1 .. n + 1 : dec[i] \in S
  <2> DEFINE T == {i \in 0 .. n : dec[i + 1] \in S}
  <2>1. 0 \in T
    <3>1. dec[0 + 1] = EmptyBuffer /\ 0 \in 0 .. n
      BY <1>1, <1>9
    <3>2. QED
      BY <1>1, <3>1
  <2>2. ASSUME NEW i \in 1 .. n, i - 1 \in T PROVE i \in T
    <3>1. dec[i] \in S
      BY <2>2
    <3>2. dec[i + 1] \in S
      BY <1>2, <1>10, <3>1
    <3>3. QED
      BY <1>1, <3>2
  <2>3. \A i \in 0 .. n : i \in T
    <3> HIDE DEF T, n
    <3>1. QED
      BY <1>1, <2>1, <2>2, InductionUpTo
  <2>4. \A i \in 1 .. n + 1 : i - 1 \in 0 .. n /\ (i - 1) + 1 = i
    BY <1>1
  <2>5. QED
    BY <2>3, <2>4
<1>12. dec = [i \in 1 .. n + 1 |-> dec[i]]
  BY <1>8
<1>13. dec \in [1 .. n + 1 -> S]
  <2> HIDE DEF n
  <2>1. QED
    BY <1>11, <1>12
<1>14. QED
  BY <1>7, <1>9, <1>10, <1>13 DEF Decodes, Takes, S

(* A prefix is a sequence over the same set. *)
LEMMA PrefixType ==
    ASSUME NEW S, NEW s \in Seq(S), NEW i \in 0 .. Len(s)
    PROVE  SubSeq(s, 1, i) \in Seq(S)
  OBVIOUS

(* Every byte in is eight bits, every symbol out is five. *)
LEMMA BitsCounted ==
    ASSUME NEW l \in Nat, NEW i \in Int
    PROVE  /\ 5 * l = 8 * (i - 1) => 5 * l + 5 + 3 = 8 * i
           /\ 5 * l + 1 = 8 * (i - 1) => 5 * l + 5 + 4 = 8 * i
           /\ 5 * l + 2 = 8 * (i - 1) => 5 * l + 10 = 8 * i
           /\ 5 * l + 3 = 8 * (i - 1) => 5 * l + 10 + 1 = 8 * i
           /\ 5 * l + 4 = 8 * (i - 1) => 5 * l + 10 + 2 = 8 * i
  OBVIOUS

(* What a state amid a byte says, with the last byte named. *)
AmidLast(bytes, i, enc, dec, p, k, m) ==
    \E o \in Seq(0 .. 31), d \in Nat, e \in Nat, before \in Seq(0 .. 255), last \in 0 .. 255 :
        /\ enc = Unread(o, e, k) /\ dec = Unread(before, d, m)
        /\ Splits(last, p, d, e) /\ 5 * Len(o) + k = 8 * (i - 1)
        /\ Append(before, last) = SubSeq(bytes, 1, i - 1)

(* A state amid a byte, for the next byte: there is a last one. *)
LEMMA AmidByte ==
    ASSUME NEW bytes \in Seq(0 .. 255), NEW i \in 1 .. Len(bytes), NEW enc, NEW dec,
           NEW p, NEW k \in 1 .. 4, NEW m, Amid(bytes, i - 1, enc, dec, p, k, m)
    PROVE  AmidLast(bytes, i, enc, dec, p, k, m)
<1>1. PICK o \in Seq(0 .. 31), d \in Nat, e \in Nat :
         /\ enc = Unread(o, e, k) /\ dec = Unread(SubSeq(bytes, 1, (i - 1) - 1), d, m)
         /\ Splits(bytes[i - 1], p, d, e) /\ 5 * Len(o) + k = 8 * (i - 1)
  BY Zenon DEF Amid
<1>2. i - 1 \in 1 .. Len(bytes)
  <2>1. Len(o) \in Nat /\ Len(bytes) \in Nat
    BY Elements
  <2>2. QED
    BY <1>1, <2>1
<1>3. /\ Append(SubSeq(bytes, 1, (i - 1) - 1), bytes[i - 1]) = SubSeq(bytes, 1, i - 1)
      /\ bytes[i - 1] \in 0 .. 255
  BY <1>2, NextPrefix
<1>4. QED
  <2>1. (i - 1) - 1 \in 0 .. Len(bytes)
    BY <1>2
  <2>2. SubSeq(bytes, 1, (i - 1) - 1) \in Seq(0 .. 255)
    BY <2>1, PrefixType, Zenon
  <2>3. QED
    BY <1>1, <1>3, <2>2, Zenon DEF AmidLast

(* Encoder and decoder in step stay in step over one byte more. *)
LEMMA NextInStep ==
    ASSUME NEW bytes \in Seq(0 .. 255), NEW i \in 1 .. Len(bytes), NEW enc, NEW dec,
           InStep(bytes, i - 1, enc, dec)
    PROVE  Follows(bytes, i, enc, dec)
<1> DEFINE b == bytes[i]
           sofar == SubSeq(bytes, 1, i - 1)
<1>1. b \in 0 .. 255
  BY NextPrefix
<1>2. CASE Even(bytes, i - 1, enc, dec)
  <2>1. PICK o \in Seq(0 .. 31) : /\ enc = Unread(o, 0, 0) /\ dec = Unread(sofar, 0, 0)
                                  /\ 5 * Len(o) = 8 * (i - 1)
    BY <1>2, Zenon DEF Even
  <2> HIDE DEF b, sofar
  <2>2. OneMore(enc, dec, b, o, sofar, 8, 3, 5)
    BY <1>1, <2>1, ByteFrom0
  <2>3. 5 * Len(o) + 5 + 3 = 8 * i
    <3>1. Len(o) \in Nat /\ i \in Int
      BY Elements
    <3>2. QED
      BY <2>1, <3>1, BitsCounted, Zenon
  <2>4. enc.out = o /\ <<8, 3, 5>> \in {<<8, 3, 5>>, <<16, 4, 4>>} /\ 3 \in Nat
    BY <2>1 DEF Unread
  <2>5. AddsOne(bytes, i, enc, dec, o, 8, 3, 5)
    BY <2>1, <2>2, <2>3, <2>4, Zenon DEF AddsOne, b, sofar
  <2>6. QED
    BY <2>4, <2>5, FollowsOne
<1>3. CASE Amid(bytes, i - 1, enc, dec, 2, 1, 7)
  <2>1. PICK o \in Seq(0 .. 31), d \in Nat, e \in Nat, before \in Seq(0 .. 255), last \in 0 .. 255 :
           /\ enc = Unread(o, e, 1) /\ dec = Unread(before, d, 7)
           /\ Splits(last, 2, d, e) /\ 5 * Len(o) + 1 = 8 * (i - 1)
           /\ Append(before, last) = sofar
    <3>1. AmidLast(bytes, i, enc, dec, 2, 1, 7)
      BY <1>3, AmidByte
    <3>2. QED
      BY <3>1, Zenon DEF AmidLast
  <2> HIDE DEF b, sofar
  <2>2. OneMore(enc, dec, b, o, sofar, 16, 4, 4)
    BY <1>1, <2>1, ByteFrom1
  <2>3. 5 * Len(o) + 5 + 4 = 8 * i
    <3>1. Len(o) \in Nat /\ i \in Int
      BY Elements
    <3>2. QED
      BY <2>1, <3>1, BitsCounted, Zenon
  <2>4. enc.out = o /\ <<16, 4, 4>> \in {<<8, 3, 5>>, <<16, 4, 4>>} /\ 4 \in Nat
    BY <2>1 DEF Unread
  <2>5. AddsOne(bytes, i, enc, dec, o, 16, 4, 4)
    BY <2>1, <2>2, <2>3, <2>4, Zenon DEF AddsOne, b, sofar
  <2>6. QED
    BY <2>4, <2>5, FollowsOne
<1>4. CASE Amid(bytes, i - 1, enc, dec, 4, 2, 6)
  <2>1. PICK o \in Seq(0 .. 31), d \in Nat, e \in Nat, before \in Seq(0 .. 255), last \in 0 .. 255 :
           /\ enc = Unread(o, e, 2) /\ dec = Unread(before, d, 6)
           /\ Splits(last, 4, d, e) /\ 5 * Len(o) + 2 = 8 * (i - 1)
           /\ Append(before, last) = sofar
    <3>1. AmidLast(bytes, i, enc, dec, 4, 2, 6)
      BY <1>4, AmidByte
    <3>2. QED
      BY <3>1, Zenon DEF AmidLast
  <2> HIDE DEF b, sofar
  <2>2. TwoDone(enc, dec, b, o, sofar)
    BY <1>1, <2>1, ByteFrom2
  <2>3. 5 * Len(o) + 10 = 8 * i
    <3>1. Len(o) \in Nat /\ i \in Int
      BY Elements
    <3>2. QED
      BY <2>1, <3>1, BitsCounted, Zenon
  <2>4. enc.out = o
    BY <2>1 DEF Unread
  <2>5. Completes(bytes, i, enc, dec, o)
    BY <2>1, <2>2, <2>3, <2>4, Zenon DEF Completes, b, sofar
  <2>6. QED
    BY <2>4, <2>5, FollowsDone
<1>5. CASE Amid(bytes, i - 1, enc, dec, 8, 3, 5)
  <2>1. PICK o \in Seq(0 .. 31), d \in Nat, e \in Nat, before \in Seq(0 .. 255), last \in 0 .. 255 :
           /\ enc = Unread(o, e, 3) /\ dec = Unread(before, d, 5)
           /\ Splits(last, 8, d, e) /\ 5 * Len(o) + 3 = 8 * (i - 1)
           /\ Append(before, last) = sofar
    <3>1. AmidLast(bytes, i, enc, dec, 8, 3, 5)
      BY <1>5, AmidByte
    <3>2. QED
      BY <3>1, Zenon DEF AmidLast
  <2> HIDE DEF b, sofar
  <2>2. TwoMore(enc, dec, b, o, sofar, 2, 1, 7)
    BY <1>1, <2>1, ByteFrom3
  <2>3. 5 * Len(o) + 10 + 1 = 8 * i
    <3>1. Len(o) \in Nat /\ i \in Int
      BY Elements
    <3>2. QED
      BY <2>1, <3>1, BitsCounted, Zenon
  <2>4. enc.out = o /\ <<2, 1, 7>> \in {<<2, 1, 7>>, <<4, 2, 6>>} /\ 1 \in Nat
    BY <2>1 DEF Unread
  <2>5. AddsTwo(bytes, i, enc, dec, o, 2, 1, 7)
    BY <2>1, <2>2, <2>3, <2>4, Zenon DEF AddsTwo, b, sofar
  <2>6. QED
    BY <2>4, <2>5, FollowsTwo
<1>6. CASE Amid(bytes, i - 1, enc, dec, 16, 4, 4)
  <2>1. PICK o \in Seq(0 .. 31), d \in Nat, e \in Nat, before \in Seq(0 .. 255), last \in 0 .. 255 :
           /\ enc = Unread(o, e, 4) /\ dec = Unread(before, d, 4)
           /\ Splits(last, 16, d, e) /\ 5 * Len(o) + 4 = 8 * (i - 1)
           /\ Append(before, last) = sofar
    <3>1. AmidLast(bytes, i, enc, dec, 16, 4, 4)
      BY <1>6, AmidByte
    <3>2. QED
      BY <3>1, Zenon DEF AmidLast
  <2> HIDE DEF b, sofar
  <2>2. TwoMore(enc, dec, b, o, sofar, 4, 2, 6)
    BY <1>1, <2>1, ByteFrom4
  <2>3. 5 * Len(o) + 10 + 2 = 8 * i
    <3>1. Len(o) \in Nat /\ i \in Int
      BY Elements
    <3>2. QED
      BY <2>1, <3>1, BitsCounted, Zenon
  <2>4. enc.out = o /\ <<4, 2, 6>> \in {<<2, 1, 7>>, <<4, 2, 6>>} /\ 2 \in Nat
    BY <2>1 DEF Unread
  <2>5. AddsTwo(bytes, i, enc, dec, o, 4, 2, 6)
    BY <2>1, <2>2, <2>3, <2>4, Zenon DEF AddsTwo, b, sofar
  <2>6. QED
    BY <2>4, <2>5, FollowsTwo
<1>7. QED
  BY <1>2, <1>3, <1>4, <1>5, <1>6, Zenon DEF InStep

-----------------------------------------------------------------------------
(***************************************************************************)
(* The decoder behind the encoder, up to the last byte.                    *)
(***************************************************************************)

(* These values bring the decoder to this state. *)
LeadsTo(values, s) ==
    \E dec \in [1 .. Len(values) + 1 -> Buffers(7)] :
        Takes(dec, values) /\ s = dec[Len(values) + 1]

(* No values leave the decoder where it was. *)
LEMMA LeadsNowhere == LeadsTo(<<>>, EmptyBuffer)
<1> DEFINE dec == [i \in 1 .. 1 |-> EmptyBuffer]
<1>1. EmptyBuffer \in Buffers(7)
  <2>1. EmptyBuffer = Unread(<<>>, 0, 0)
    BY Zenon DEF EmptyBuffer, Unread
  <2>2. <<>> \in Seq(Nat) /\ 0 \in Nat /\ 0 \in 0 .. 7 /\ 7 \in Nat
    OBVIOUS
  <2>3. Unread(<<>>, 0, 0) \in Buffers(7)
    BY <2>2, UnreadIsBuffer
  <2>4. QED
    BY <2>1, <2>2, <2>3, Zenon
<1>2. Len(<<>>) = 0 /\ 0 + 1 = 1 /\ 1 \in 1 .. 1 /\ \A i \in 1 .. 0 : FALSE
  OBVIOUS
<1>3. dec \in [1 .. Len(<<>>) + 1 -> Buffers(7)] /\ dec[1] = EmptyBuffer
  BY <1>1, <1>2
<1> HIDE DEF dec
<1>4. Takes(dec, <<>>) /\ EmptyBuffer = dec[Len(<<>>) + 1]
  BY <1>2, <1>3 DEF Takes
<1>5. QED
  BY <1>3, <1>4, Zenon DEF LeadsTo

(* One value more takes the decoder one step on. *)
LEMMA LeadsOn ==
    ASSUME NEW values \in Seq(0 .. 31), NEW s, LeadsTo(values, s), NEW v \in 0 .. 31
    PROVE  LeadsTo(Append(values, v), ValueTaken(s, v))
<1> DEFINE n == Len(values)
           more == Append(values, v)
<1>1. PICK dec \in [1 .. n + 1 -> Buffers(7)] : Takes(dec, values) /\ s = dec[n + 1]
  BY Zenon DEF LeadsTo
<1>2. /\ n \in Nat /\ Len(more) = n + 1 /\ more[n + 1] = v
      /\ \A i \in 1 .. n : more[i] = values[i]
  OBVIOUS
<1>3. n + 1 \in 1 .. n + 1
  BY <1>2
<1> HIDE DEF n, more
<1>4. s \in Buffers(7)
  BY <1>1, <1>3, Zenon
<1> DEFINE new == [i \in 1 .. n + 1 + 1 |-> IF i = n + 1 + 1 THEN ValueTaken(s, v) ELSE dec[i]]
<1>5. new \in [1 .. n + 1 + 1 -> Buffers(7)]
  <2>1. ValueTaken(s, v) \in Buffers(7)
    BY <1>4, ValueTakenType
  <2>2. \A i \in 1 .. n + 1 + 1 : i # n + 1 + 1 => i \in 1 .. n + 1
    BY <1>2
  <2>3. QED
    BY <2>1, <2>2
<1>6. /\ n + 1 + 1 \in 1 .. n + 1 + 1
      /\ \A i \in 1 .. n + 1 : i \in 1 .. n + 1 + 1 /\ i # n + 1 + 1
      /\ 1 \in 1 .. n + 1
  BY <1>2
<1>7. new[n + 1 + 1] = ValueTaken(s, v) /\ \A i \in 1 .. n + 1 : new[i] = dec[i]
  BY <1>6, Zenon
<1> HIDE DEF new
<1>8. new[1] = EmptyBuffer
  BY <1>1, <1>6, <1>7, Zenon DEF Takes
<1>9. ASSUME NEW i \in 1 .. n + 1
      PROVE  new[i + 1] = ValueTaken(new[i], more[i])
  <2>1. CASE i = n + 1
    <3>1. new[i] = s /\ more[i] = v
      BY <1>1, <1>2, <1>3, <1>7, <2>1, Zenon
    <3>2. QED
      BY <1>7, <2>1, <3>1, Zenon
  <2>2. CASE i # n + 1
    <3>1. i \in 1 .. n /\ i + 1 \in 1 .. n + 1
      BY <1>2, <2>2
    <3>2. dec[i + 1] = ValueTaken(dec[i], values[i])
      BY <1>1, <3>1, Zenon DEF Takes, n
    <3>3. QED
      BY <1>2, <1>7, <3>1, <3>2, Zenon
  <2>3. QED
    BY <2>1, <2>2
<1>10. Takes(new, more)
  BY <1>2, <1>8, <1>9, Zenon DEF Takes
<1>11. LeadsTo(more, ValueTaken(s, v))
  <2>1. Len(more) + 1 = n + 1 + 1
    BY <1>2, Zenon
  <2>2. new \in [1 .. Len(more) + 1 -> Buffers(7)] /\ ValueTaken(s, v) = new[Len(more) + 1]
    BY <1>5, <1>7, <2>1, Zenon
  <2>3. QED
    BY <1>10, <2>2, Zenon DEF LeadsTo
<1>12. QED
  BY <1>11 DEF more

(* Symbols that mean the values are read as what the decoder then has. *)
LEMMA LeadsToBytes ==
    ASSUME NEW values \in Seq(0 .. 31), NEW s, LeadsTo(values, s), NEW symbols, Means(symbols, values)
    PROVE  Bytes(symbols) = s.out
<1> DEFINE n == Len(values)
<1>1. PICK d \in [1 .. n + 1 -> Buffers(7)] : Takes(d, values) /\ s = d[n + 1]
  BY Zenon DEF LeadsTo
<1>2. PICK e \in [1 .. n + 1 -> Buffers(7)] : Decodes(e, values, symbols)
  BY BytesSteps
<1>3. n \in Nat
  OBVIOUS
<1>4. d[1] = e[1] /\ \A i \in 1 .. n : d[i] = e[i] => d[i + 1] = e[i + 1]
  BY <1>1, <1>2, Zenon DEF Decodes, Takes
<1>5. Bytes(symbols) = e[n + 1].out
  BY <1>2, Zenon DEF Decodes
<1> HIDE DEF n
<1> DEFINE T == {i \in 0 .. n : d[i + 1] = e[i + 1]}
<1>6. 0 \in T
  <2>1. 0 + 1 = 1 /\ 0 \in 0 .. n
    BY <1>3
  <2>2. QED
    BY <1>4, <2>1
<1>7. ASSUME NEW i \in 1 .. n, i - 1 \in T PROVE i \in T
  <2>1. (i - 1) + 1 = i /\ i \in 0 .. n
    BY <1>3
  <2>2. d[i] = e[i]
    BY <1>7, <2>1
  <2>3. QED
    BY <1>4, <2>1, <2>2
<1>8. n \in T
  <2> HIDE DEF T
  <2>1. \A i \in 0 .. n : i \in T
    BY <1>3, <1>6, <1>7, InductionUpTo
  <2>2. n \in 0 .. n
    BY <1>3
  <2>3. QED
    BY <2>1, <2>2
<1>9. QED
  BY <1>1, <1>5, <1>8

(* After i bytes the decoder, fed with the symbols written so far, is in step. *)
Kept(bytes, enc, i) ==
    \E o, s : /\ o \in Seq(0 .. 31) /\ enc[i + 1].out = o
              /\ LeadsTo(o, s) /\ InStep(bytes, i, enc[i + 1], s)

(* What the encoder has written are values of symbols. *)
LEMMA OutOfStep ==
    ASSUME NEW bytes, NEW i, NEW enc, NEW dec, InStep(bytes, i, enc, dec)
    PROVE  enc.out \in Seq(0 .. 31)
<1>1. \A o, e, k : enc = Unread(o, e, k) => enc.out = o
  BY DEF Unread
<1>2. QED
  BY <1>1, Zenon DEF InStep, Even, Amid

(* Both sides start empty. *)
LEMMA KeptAtStart ==
    ASSUME NEW bytes \in Seq(0 .. 255), NEW enc, Encodes(enc, bytes)
    PROVE  Kept(bytes, enc, 0)
<1>1. EmptyBuffer = Unread(<<>>, 0, 0) /\ EmptyBuffer.out = <<>>
  BY DEF EmptyBuffer, Unread
<1>2. <<>> \in Seq(0 .. 31) /\ 5 * Len(<<>>) = 8 * 0 /\ SubSeq(bytes, 1, 0) = <<>>
  OBVIOUS
<1>3. Even(bytes, 0, EmptyBuffer, EmptyBuffer)
  BY <1>1, <1>2, Zenon DEF Even
<1>4. enc[0 + 1] = EmptyBuffer
  BY DEF Encodes
<1>5. QED
  BY <1>1, <1>2, <1>3, <1>4, LeadsNowhere, Zenon DEF Kept, InStep

(* One byte more. *)
LEMMA KeptInStep ==
    ASSUME NEW bytes \in Seq(0 .. 255), NEW enc, Encodes(enc, bytes),
           NEW i \in 1 .. Len(bytes), Kept(bytes, enc, i - 1)
    PROVE  Kept(bytes, enc, i)
<1>1. (i - 1) + 1 = i
  OBVIOUS
<1>2. PICK o, s : /\ o \in Seq(0 .. 31) /\ enc[i].out = o
                  /\ LeadsTo(o, s) /\ InStep(bytes, i - 1, enc[i], s)
  BY <1>1, Zenon DEF Kept
<1> DEFINE new == ByteTaken(enc[i], bytes[i])
<1>3. enc[i + 1] = new
  BY Zenon DEF Encodes
<1>4. Follows(bytes, i, enc[i], s)
  BY <1>2, NextInStep
<1> HIDE DEF new
<1>5. CASE \E v \in 0 .. 31 : new.out = Append(o, v) /\ InStep(bytes, i, new, ValueTaken(s, v))
  <2>1. PICK v \in 0 .. 31 : new.out = Append(o, v) /\ InStep(bytes, i, new, ValueTaken(s, v))
    BY <1>5
  <2>2. Append(o, v) \in Seq(0 .. 31)
    BY <1>2, SymbolWritten
  <2>3. LeadsTo(Append(o, v), ValueTaken(s, v))
    BY <1>2, LeadsOn
  <2>4. QED
    BY <1>3, <2>1, <2>2, <2>3, Zenon DEF Kept
<1>6. CASE \E v \in 0 .. 31, w \in 0 .. 31 :
              /\ new.out = Append(Append(o, v), w)
              /\ InStep(bytes, i, new, ValueTaken(ValueTaken(s, v), w))
  <2>1. PICK v \in 0 .. 31, w \in 0 .. 31 :
              /\ new.out = Append(Append(o, v), w)
              /\ InStep(bytes, i, new, ValueTaken(ValueTaken(s, v), w))
    BY <1>6
  <2>2. Append(o, v) \in Seq(0 .. 31) /\ Append(Append(o, v), w) \in Seq(0 .. 31)
    BY <1>2, SymbolWritten
  <2>3. LeadsTo(Append(o, v), ValueTaken(s, v))
    BY <1>2, LeadsOn
  <2>4. LeadsTo(Append(Append(o, v), w), ValueTaken(ValueTaken(s, v), w))
    BY <2>2, <2>3, LeadsOn
  <2>5. QED
    BY <1>3, <2>1, <2>2, <2>4, Zenon DEF Kept
<1>7. QED
  BY <1>2, <1>4, <1>5, <1>6, Zenon DEF Follows, new

(* And so to the last byte: the induction over the bytes. *)
LEMMA KeptToTheEnd ==
    ASSUME NEW bytes \in Seq(0 .. 255), NEW enc, Encodes(enc, bytes)
    PROVE  Kept(bytes, enc, Len(bytes))
<1> DEFINE T == {i \in 0 .. Len(bytes) : Kept(bytes, enc, i)}
<1>1. Len(bytes) \in Nat /\ 0 \in 0 .. Len(bytes) /\ Len(bytes) \in 0 .. Len(bytes)
      /\ \A i \in 1 .. Len(bytes) : i \in 0 .. Len(bytes)
  OBVIOUS
<1>2. 0 \in T
  BY <1>1, KeptAtStart
<1>3. ASSUME NEW i \in 1 .. Len(bytes), i - 1 \in T PROVE i \in T
  BY <1>1, <1>3, KeptInStep
<1>4. \A i \in 0 .. Len(bytes) : i \in T
  <2> HIDE DEF T
  <2>1. QED
    BY <1>1, <1>2, <1>3, InductionUpTo
<1>5. QED
  BY <1>1, <1>4

(* The values of the symbols of a code, padding included. *)
Values(bytes) ==
    LET end == Chunked(bytes)
    IN  IF end.bits = 0 THEN end.out ELSE Append(end.out, end.buffer * 2 ^ (5 - end.bits))

(* Whatever row of symbols has the values of the code is read as the bytes. *)
ReadsBack(bytes) ==
    /\ EncodeCrockford(bytes) = Symbols(Values(bytes))
    /\ Values(bytes) \in Seq(0 .. 31)
    /\ Len(Values(bytes)) = 26
    /\ \A symbols : Means(symbols, Values(bytes)) => Bytes(symbols) = bytes

(* 16 bytes are 25 symbols and three bits, and two zeros pad these. *)
LEMMA LastSymbol ==
    ASSUME NEW bytes \in Seq(0 .. 255), Len(bytes) = 16, NEW end, NEW s, InStep(bytes, 16, end, s)
    PROVE  Amid(bytes, 16, end, s, 8, 3, 5)
<1>1. \A l \in Nat : ~ (5 * l = 8 * 16) /\ ~ (5 * l + 1 = 8 * 16) /\ ~ (5 * l + 2 = 8 * 16) /\ ~ (5 * l + 4 = 8 * 16)
  OBVIOUS
<1>2. \A o \in Seq(0 .. 31) : Len(o) \in Nat
  BY Elements
<1>3. QED
  BY <1>1, <1>2, Zenon DEF InStep, Even, Amid

(* The last symbol, two zeros appended, completes the last byte. *)
LEMMA LastByte ==
    ASSUME NEW b \in 0 .. 255, NEW d, NEW e, NEW q, NEW r,
           Splits(b, 8, d, e), Splits(d * 32 + e * 4, 4, q, r)
    PROVE  q = b /\ r = 0
  BY DEF Splits

(* Fifteen bytes and the sixteenth. *)
LEMMA LastOf16 ==
    ASSUME NEW bytes \in Seq(0 .. 255), Len(bytes) = 16
    PROVE  Append(SubSeq(bytes, 1, 16 - 1), bytes[16]) = bytes /\ bytes[16] \in 0 .. 255
<1>1. 16 \in 1 .. Len(bytes) /\ SubSeq(bytes, 1, 16) = bytes
  OBVIOUS
<1>2. PICK i \in 1 .. Len(bytes) : i = 16
  BY <1>1
<1>3. Append(SubSeq(bytes, 1, i - 1), bytes[i]) = SubSeq(bytes, 1, i) /\ bytes[i] \in 0 .. 255
  BY NextPrefix
<1>4. QED
  BY <1>1, <1>2, <1>3

(* The 26 symbols of 16 bytes mean these bytes, for every 16 bytes. *)
LEMMA CodeReadsBack ==
    ASSUME NEW bytes \in Seq(0 .. 255), Len(bytes) = 16
    PROVE  ReadsBack(bytes)
<1>1. PICK enc \in [1 .. Len(bytes) + 1 -> Buffers(4)] : Encodes(enc, bytes)
  BY ChunkedSteps
<1>2. Kept(bytes, enc, 16)
  BY <1>1, KeptToTheEnd
<1>3. Chunked(bytes) = enc[16 + 1]
  BY <1>1 DEF Encodes
<1> DEFINE end == Chunked(bytes)
<1>4. PICK t, s : /\ t \in Seq(0 .. 31) /\ end.out = t
                  /\ LeadsTo(t, s) /\ InStep(bytes, 16, end, s)
  BY <1>2, <1>3, Zenon DEF Kept
<1> HIDE DEF end
<1>5. Amid(bytes, 16, end, s, 8, 3, 5)
  BY <1>4, LastSymbol
<1>6. PICK o \in Seq(0 .. 31), d \in Nat, e \in Nat :
         /\ end = Unread(o, e, 3) /\ s = Unread(SubSeq(bytes, 1, 16 - 1), d, 5)
         /\ Splits(bytes[16], 8, d, e) /\ 5 * Len(o) + 3 = 8 * 16
  BY <1>5, Zenon DEF Amid
<1>7. end.bits = 3 /\ end.out = o /\ end.buffer = e
  BY <1>6 DEF Unread
<1>8. Len(o) = 25
  <2>1. \A l \in Nat : 5 * l + 3 = 8 * 16 => l = 25
    OBVIOUS
  <2>2. Len(o) \in Nat
    BY Elements
  <2>3. QED
    BY <1>6, <2>1, <2>2, Zenon
<1> DEFINE v == e * 4
<1>9. v \in 0 .. 31
  BY <1>6 DEF Splits
<1>10. Values(bytes) = Append(o, v)
  <2>1. 5 - 3 = 2 /\ 2 ^ 2 = 4 /\ 3 # 0
    BY Powers
  <2>2. QED
    BY <1>7, <2>1 DEF Values, end
<1> HIDE DEF v
<1>11. Append(o, v) \in Seq(0 .. 31) /\ Len(Append(o, v)) = 26
  <2>1. Append(o, v) \in Seq(0 .. 31) /\ Len(Append(o, v)) = Len(o) + 1
    BY <1>9, SymbolWritten, Zenon
  <2>2. Len(o) + 1 = 26
    BY <1>8
  <2>3. QED
    BY <2>1, <2>2, Zenon
<1>12. ValueTaken(s, v) = Unread(bytes, 0, 2)
  <2> DEFINE first == SubSeq(bytes, 1, 16 - 1)
  <2>1. Append(first, bytes[16]) = bytes /\ bytes[16] \in 0 .. 255
    BY LastOf16, Zenon
  <2> HIDE DEF first
  <2>2. DecodesValue(first, d, v)
    BY <1>9, ValueTakenIs
  <2>3. PICK q, r : /\ Splits(d * 32 + v, 4, q, r)
                    /\ ValueTaken(Unread(first, d, 5), v) = Unread(Append(first, q), r, 2)
    BY <2>2, Zenon DEF DecodesValue, OneByte
  <2>4. q = bytes[16] /\ r = 0
    <3>1. Splits(bytes[16], 8, d, e)
      BY <1>6
    <3>2. QED
      BY <2>1, <2>3, <3>1, LastByte, Zenon DEF v
  <2>5. QED
    BY <1>6, <2>1, <2>3, <2>4, Zenon DEF first
<1>13. LeadsTo(Append(o, v), Unread(bytes, 0, 2))
  <2>1. LeadsTo(o, s)
    BY <1>4, <1>7
  <2>2. LeadsTo(Append(o, v), ValueTaken(s, v))
    BY <1>9, <2>1, LeadsOn
  <2>3. QED
    BY <1>12, <2>2, Zenon
<1>14. ASSUME NEW symbols, Means(symbols, Values(bytes))
       PROVE  Bytes(symbols) = bytes
  <2>1. Unread(bytes, 0, 2).out = bytes
    BY DEF Unread
  <2>2. Bytes(symbols) = Unread(bytes, 0, 2).out
    BY <1>10, <1>11, <1>13, <1>14, LeadsToBytes
  <2>3. QED
    BY <2>1, <2>2, Zenon
<1>15. EncodeCrockford(bytes) = Symbols(Values(bytes))
  BY Zenon DEF EncodeCrockford, Values
<1>16. Values(bytes) \in Seq(0 .. 31) /\ Len(Values(bytes)) = 26
  BY <1>10, <1>11
<1>17. QED
  <2>1. \A symbols : Means(symbols, Values(bytes)) => Bytes(symbols) = bytes
    BY <1>14
  <2>2. QED
    BY <1>15, <1>16, <2>1, Zenon DEF ReadsBack

-----------------------------------------------------------------------------
(***************************************************************************)
(* The symbols and what they mean (crockford_value).                       *)
(***************************************************************************)

(* The alphabet, value by value. *)
LEMMA SymbolsAre ==
    /\ Symbol(0) = "0" /\ Symbol(1) = "1" /\ Symbol(2) = "2" /\ Symbol(3) = "3"
    /\ Symbol(4) = "4" /\ Symbol(5) = "5" /\ Symbol(6) = "6" /\ Symbol(7) = "7"
    /\ Symbol(8) = "8" /\ Symbol(9) = "9" /\ Symbol(10) = "A" /\ Symbol(11) = "B"
    /\ Symbol(12) = "C" /\ Symbol(13) = "D" /\ Symbol(14) = "E" /\ Symbol(15) = "F"
    /\ Symbol(16) = "G" /\ Symbol(17) = "H" /\ Symbol(18) = "J" /\ Symbol(19) = "K"
    /\ Symbol(20) = "M" /\ Symbol(21) = "N" /\ Symbol(22) = "P" /\ Symbol(23) = "Q"
    /\ Symbol(24) = "R" /\ Symbol(25) = "S" /\ Symbol(26) = "T" /\ Symbol(27) = "V"
    /\ Symbol(28) = "W" /\ Symbol(29) = "X" /\ Symbol(30) = "Y" /\ Symbol(31) = "Z"
  BY DEF Symbol, CrockfordAlphabet

Digits == {"0", "1", "2", "3", "4", "5", "6", "7", "8", "9"}

Letters == {"A", "B", "C", "D", "E", "F", "G", "H", "J", "K", "M", "N", "P", "Q", "R", "S", "T",
            "V", "W", "X", "Y", "Z", "O", "I", "L"}

LowerLetters == {"a", "b", "c", "d", "e", "f", "g", "h", "j", "k", "m", "n", "p", "q", "r", "s", "t",
            "v", "w", "x", "y", "z", "o", "i", "l"}

(* The lower-case forms, letter by letter. *)
LEMMA LowerAre ==
    /\ DOMAIN Lower = Letters
    /\ Lower["A"] = "a" /\ Lower["B"] = "b" /\ Lower["C"] = "c" /\ Lower["D"] = "d"
    /\ Lower["E"] = "e" /\ Lower["F"] = "f" /\ Lower["G"] = "g" /\ Lower["H"] = "h"
    /\ Lower["J"] = "j" /\ Lower["K"] = "k" /\ Lower["M"] = "m" /\ Lower["N"] = "n"
    /\ Lower["P"] = "p" /\ Lower["Q"] = "q" /\ Lower["R"] = "r" /\ Lower["S"] = "s"
    /\ Lower["T"] = "t" /\ Lower["V"] = "v" /\ Lower["W"] = "w" /\ Lower["X"] = "x"
    /\ Lower["Y"] = "y" /\ Lower["Z"] = "z" /\ Lower["O"] = "o" /\ Lower["I"] = "i"
    /\ Lower["L"] = "l"
  BY DEF Lower, Letters

(* No two letters have the same lower-case form. *)
LEMMA LowersApart ==
    \A u \in Letters, w \in Letters : Lower[u] = Lower[w] => u = w
  BY LowerAre DEF Letters

(* The lower-case forms are lower-case letters. *)
LEMMA LowersAre ==
    \A u \in Letters : Lower[u] \in LowerLetters
  BY LowerAre DEF Letters, LowerLetters

(* No other character is one. *)
LEMMA Cases == (Letters \cup Digits \cup {"U", "u", "$", " ", "-"}) \cap LowerLetters = {}
  BY DEF Letters, Digits, LowerLetters

Aliens == {"U", "u", "$"}

(* to_ascii_uppercase undoes the lower case. *)
LEMMA UpperOfLower ==
    ASSUME NEW u \in Letters
    PROVE  ToUpper(Lower[u]) = u
<1>1. u \in DOMAIN Lower /\ \A w \in DOMAIN Lower : Lower[w] = Lower[u] => w = u
  BY LowerAre, LowersApart, Zenon
<1>2. (CHOOSE w \in DOMAIN Lower : Lower[w] = Lower[u]) = u
  BY <1>1
<1>3. QED
  BY <1>1, <1>2 DEF ToUpper

(* to_ascii_uppercase leaves every other character alone. *)
LEMMA UpperOfOther ==
    ASSUME NEW c \in Letters \cup Digits \cup Aliens \cup Separators
    PROVE  ToUpper(c) = c
<1>1. c \notin LowerLetters
  BY Cases, Zenon DEF Aliens, Separators
<1>2. ~ \E u \in DOMAIN Lower : Lower[u] = c
  BY <1>1, LowerAre, LowersAre, Zenon
<1>3. QED
  BY <1>2 DEF ToUpper

(* The letters that are no symbols, and what they stand for. *)
LEMMA ReadAs ==
    /\ CrockfordValues("O") = {0} /\ CrockfordValues("o") = {0}
    /\ CrockfordValues("I") = {1} /\ CrockfordValues("i") = {1}
    /\ CrockfordValues("L") = {1} /\ CrockfordValues("l") = {1}
<1>1. {"O", "I", "L"} \subseteq Letters /\ Lower["O"] = "o" /\ Lower["I"] = "i" /\ Lower["L"] = "l"
  BY LowerAre DEF Letters
<1>2. /\ ToUpper("O") = "O" /\ ToUpper("I") = "I" /\ ToUpper("L") = "L"
      /\ ToUpper("o") = "O" /\ ToUpper("i") = "I" /\ ToUpper("l") = "L"
  <2>1. \A u \in Letters : ToUpper(u) = u /\ ToUpper(Lower[u]) = u
    BY UpperOfLower, UpperOfOther
  <2>2. QED
    BY <1>1, <2>1
<1>3. QED
  BY <1>2 DEF CrockfordValues

(* A letter means the same in lower case. *)
LEMMA LowerMeans ==
    ASSUME NEW u \in Letters
    PROVE  CrockfordValues(Lower[u]) = CrockfordValues(u)
  BY UpperOfLower, UpperOfOther DEF CrockfordValues

(* A character that is no symbol has no value. *)
LEMMA AlienMeansNothing ==
    ASSUME NEW c \in Aliens
    PROVE  CrockfordValues(c) = {}
<1>1. ToUpper(c) = c
  BY UpperOfOther
<1>2. \A n \in 0 .. 31 : Symbol(n) # c
  BY SymbolsAre DEF Aliens
<1>3. \A j \in 1 .. 32 : Symbol(j - 1) # c
  <2>1. \A j \in 1 .. 32 : j - 1 \in 0 .. 31
    OBVIOUS
  <2>2. QED
    BY <1>2, <2>1
<1>4. c \notin {"O", "I", "L"}
  BY DEF Aliens
<1>5. QED
  BY <1>1, <1>3, <1>4 DEF CrockfordValues

(* A symbol is a letter or a digit, and none of O, I and L. *)
LEMMA SymbolIn ==
    ASSUME NEW n \in 0 .. 31
    PROVE  Symbol(n) \in Letters \cup Digits /\ Symbol(n) \notin {"O", "I", "L"}
  BY SymbolsAre DEF Letters, Digits

(* No value has the symbol of another. *)
LEMMA SymbolsApart ==
    ASSUME NEW m \in 0 .. 31, NEW n \in 0 .. 31, Symbol(m) = Symbol(n)
    PROVE  m = n
  BY SymbolsAre

(* crockford_value undoes the alphabet. *)
LEMMA SymbolMeans ==
    ASSUME NEW n \in 0 .. 31
    PROVE  CrockfordValues(Symbol(n)) = {n}
<1>1. ToUpper(Symbol(n)) = Symbol(n) /\ Symbol(n) \notin {"O", "I", "L"}
  BY SymbolIn, UpperOfOther
<1>2. \A j \in 1 .. 32 : Symbol(j - 1) = Symbol(n) <=> j = n + 1
  <2>1. \A j \in 1 .. 32 : j - 1 \in 0 .. 31
    OBVIOUS
  <2>2. \A j \in 1 .. 32 : Symbol(j - 1) = Symbol(n) => j - 1 = n
    BY <2>1, SymbolsApart
  <2>3. QED
    BY <2>2
<1>3. {i - 1 : i \in {j \in 1 .. 32 : Symbol(j - 1) = Symbol(n)}} = {n}
  <2>1. {j \in 1 .. 32 : Symbol(j - 1) = Symbol(n)} = {n + 1}
    BY <1>2
  <2>2. {i - 1 : i \in {n + 1}} = {n}
    OBVIOUS
  <2>3. QED
    BY <2>1, <2>2
<1>4. QED
  BY <1>1, <1>3 DEF CrockfordValues

-----------------------------------------------------------------------------
(***************************************************************************)
(* Texts without some of their characters.                                 *)
(***************************************************************************)

(* What a character adds, and what is kept of a text before each place of it. *)
Filtered(t, c, dropped) == IF c \in dropped THEN t ELSE Append(t, c)

Filters(kept, text, dropped) ==
    /\ kept[1] = <<>>
    /\ \A i \in 1 .. Len(text) : kept[i + 1] = Filtered(kept[i], text[i], dropped)
    /\ Without(text, dropped) = kept[Len(text) + 1]

(* Without, by the recursion on the length of the text that defines it. *)
LEMMA WithoutSteps ==
    ASSUME NEW C, NEW text \in Seq(C), NEW dropped
    PROVE  \E kept \in [1 .. Len(text) + 1 -> Seq(C)] : Filters(kept, text, dropped)
<1> DEFINE n == Len(text)
           After(t, c) == IF c \in dropped THEN t ELSE Append(t, c)
           Step == {u \in (1 .. n) \X Seq(C) \X Seq(C) : u[3] = After(u[2], text[u[1]])}
           KeptBy(f) == f = [i \in 1 .. n + 1 |->
                              IF i = 1 THEN <<>>
                              ELSE IF text[i - 1] \in dropped THEN f[i - 1]
                              ELSE Append(f[i - 1], text[i - 1])]
<1>1. n \in Nat /\ <<>> \in Seq(C)
  OBVIOUS
<1>2. \A i \in 1 .. n, s \in Seq(C) : After(s, text[i]) \in Seq(C)
  OBVIOUS
<1>3. \A i \in 1 .. n, s \in Seq(C), t \in Seq(C) : <<i, s, t>> \in Step <=> t = After(s, text[i])
  <2> HIDE DEF n, After
  <2>1. QED
    OBVIOUS
<1>4. PICK g \in [1 .. n + 1 -> Seq(C)] : Iterates(g, n, <<>>, Step)
  <2>1. Total(n, Seq(C), Step)
    <3> HIDE DEF n, After, Step
    <3>1. QED
      BY <1>2, <1>3 DEF Total
  <2> HIDE DEF n, Step
  <2>2. QED
    BY <1>1, <2>1, IteratesExist
<1>5. /\ g[1] = <<>>
      /\ \A i \in 1 .. n : g[i + 1] = After(g[i], text[i])
  <2> HIDE DEF n, After, Step
  <2>1. g[1] = <<>> /\ \A i \in 1 .. n : <<i, g[i], g[i + 1]>> \in Step
    BY <1>4 DEF Iterates
  <2>2. \A i \in 1 .. n : i \in 1 .. n + 1 /\ i + 1 \in 1 .. n + 1
    BY <1>1
  <2>3. \A i \in 1 .. n : g[i] \in Seq(C) /\ g[i + 1] \in Seq(C)
    BY <2>2, Zenon
  <2>4. QED
    BY <1>3, <2>1, <2>3, Zenon
<1>6. KeptBy(g)
  <2> DEFINE Value(i) == IF i = 1 THEN <<>> ELSE After(g[i - 1], text[i - 1])
  <2>1. \A i \in 1 .. n + 1 : g[i] = Value(i)
    <3> TAKE i \in 1 .. n + 1
    <3>1. CASE i = 1
      BY <1>5, <3>1
    <3>2. CASE i # 1
      <4>1. i - 1 \in 1 .. n /\ (i - 1) + 1 = i
        BY <1>1, <3>2
      <4> HIDE DEF n, After
      <4>2. g[(i - 1) + 1] = After(g[i - 1], text[i - 1])
        BY <1>5, <4>1, Zenon
      <4>3. QED
        BY <3>2, <4>1, <4>2
    <3>3. QED
      BY <3>1, <3>2
  <2>2. g = [i \in 1 .. n + 1 |-> Value(i)]
    <3> HIDE DEF n, Value
    <3>1. QED
      BY <2>1
  <2>3. QED
    BY <2>2, Zenon
<1> DEFINE kept == CHOOSE f : KeptBy(f)
<1>7. Without(text, dropped) = kept[n + 1]
  BY Zenon DEF Without
<1>8. KeptBy(kept)
  <2> HIDE DEF KeptBy
  <2>1. QED
    BY <1>6, Zenon
<1> HIDE DEF kept
<1>9. kept[1] = <<>>
  <2>1. 1 \in 1 .. n + 1
    BY <1>1
  <2>2. QED
    BY <1>8, <2>1, Zenon
<1>10. ASSUME NEW i \in 1 .. n
       PROVE  kept[i + 1] = After(kept[i], text[i])
  <2>1. i + 1 \in 1 .. n + 1 /\ i + 1 # 1 /\ (i + 1) - 1 = i
    BY <1>1
  <2>2. kept[i + 1] = After(kept[(i + 1) - 1], text[(i + 1) - 1])
    <3> HIDE DEF n
    <3>1. QED
      BY <1>8, <2>1, Zenon
  <2>3. QED
    BY <2>1, <2>2
<1>11. \A i \in 1 .. n + 1 : kept[i] \in Seq(C)
  <2> DEFINE S == {i \in 0 .. n : kept[i + 1] \in Seq(C)}
  <2>1. 0 \in S
    <3>1. kept[0 + 1] = <<>> /\ 0 \in 0 .. n
      BY <1>1, <1>9
    <3>2. QED
      BY <1>1, <3>1
  <2>2. ASSUME NEW i \in 1 .. n, i - 1 \in S PROVE i \in S
    <3>1. kept[i] \in Seq(C)
      BY <2>2
    <3>2. kept[i + 1] \in Seq(C)
      BY <1>2, <1>10, <3>1
    <3>3. QED
      BY <1>1, <3>2
  <2>3. \A i \in 0 .. n : i \in S
    <3> HIDE DEF S, n
    <3>1. QED
      BY <1>1, <2>1, <2>2, InductionUpTo
  <2>4. \A i \in 1 .. n + 1 : i - 1 \in 0 .. n /\ (i - 1) + 1 = i
    BY <1>1
  <2>5. QED
    BY <2>3, <2>4
<1>12. kept = [i \in 1 .. n + 1 |-> kept[i]]
  BY <1>8
<1>13. kept \in [1 .. n + 1 -> Seq(C)]
  <2> HIDE DEF n
  <2>1. QED
    BY <1>11, <1>12
<1>14. QED
  BY <1>7, <1>9, <1>10, <1>13 DEF Filters, Filtered

(* What is kept of a text is a text. *)
LEMMA WithoutType ==
    ASSUME NEW C, NEW text \in Seq(C), NEW dropped
    PROVE  Without(text, dropped) \in Seq(C)
<1>1. Len(text) + 1 \in 1 .. Len(text) + 1
  OBVIOUS
<1>2. PICK kept \in [1 .. Len(text) + 1 -> Seq(C)] : Filters(kept, text, dropped)
  BY WithoutSteps
<1>3. QED
  BY <1>1, <1>2 DEF Filters

(* A text of one character. *)
LEMMA WithoutOne ==
    ASSUME NEW C, NEW c \in C, NEW dropped
    PROVE  Without(<<c>>, dropped) = IF c \in dropped THEN <<>> ELSE <<c>>
<1> DEFINE text == <<c>>
<1>1. text \in Seq(C) /\ Len(text) = 1 /\ text[1] = c /\ Append(<<>>, c) = text
  OBVIOUS
<1> HIDE DEF text
<1>2. PICK kept \in [1 .. Len(text) + 1 -> Seq(C)] : Filters(kept, text, dropped)
  BY <1>1, WithoutSteps
<1>3. Without(text, dropped) = Filtered(<<>>, c, dropped)
  BY <1>1, <1>2 DEF Filters
<1>4. QED
  BY <1>1, <1>3 DEF Filtered, text

(* A character is kept or dropped whatever comes before. *)
LEMMA FilteredConcat ==
    ASSUME NEW C, NEW s \in Seq(C), NEW t \in Seq(C), NEW c \in C, NEW dropped
    PROVE  Filtered(s \o t, c, dropped) = s \o Filtered(t, c, dropped)
<1>1. Append(s \o t, c) = s \o Append(t, c)
  OBVIOUS
<1>2. QED
  BY <1>1 DEF Filtered

(* Dropping characters of two texts one after the other, part by part. *)
LEMMA WithoutConcat ==
    ASSUME NEW C, NEW s \in Seq(C), NEW t \in Seq(C), NEW dropped
    PROVE  Without(s \o t, dropped) = Without(s, dropped) \o Without(t, dropped)
<1> DEFINE st == s \o t
           m == Len(s)
           n == Len(t)
<1>1. /\ m \in Nat /\ n \in Nat /\ st \in Seq(C) /\ Len(st) = m + n
      /\ \A i \in 1 .. m : st[i] = s[i]
      /\ \A i \in 1 .. n : st[m + i] = t[i] /\ t[i] \in C
  OBVIOUS
<1> HIDE DEF st
<1>2. PICK ks \in [1 .. m + 1 -> Seq(C)] : Filters(ks, s, dropped)
  BY WithoutSteps
<1>3. PICK kt \in [1 .. n + 1 -> Seq(C)] : Filters(kt, t, dropped)
  BY WithoutSteps
<1>4. PICK k \in [1 .. m + n + 1 -> Seq(C)] : Filters(k, st, dropped)
  BY <1>1, WithoutSteps
<1>5. \A i \in 0 .. m : k[i + 1] = ks[i + 1]
  <2> DEFINE S == {i \in 0 .. m : k[i + 1] = ks[i + 1]}
  <2>1. 0 \in S
    <3>1. 0 \in 0 .. m /\ k[0 + 1] = ks[0 + 1]
      BY <1>1, <1>2, <1>4 DEF Filters
    <3>2. QED
      BY <3>1
  <2>2. ASSUME NEW i \in 1 .. m, i - 1 \in S PROVE i \in S
    <3>1. k[i] = ks[i] /\ i \in 1 .. m + n /\ i \in 0 .. m
      BY <1>1, <2>2
    <3>2. k[i + 1] = ks[i + 1]
      BY <1>1, <1>2, <1>4, <3>1 DEF Filters
    <3>3. QED
      BY <3>1, <3>2
  <2>3. \A i \in 0 .. m : i \in S
    <3> HIDE DEF S
    <3>1. QED
      BY <1>1, <2>1, <2>2, InductionUpTo
  <2>4. QED
    BY <2>3
<1>6. \A i \in 0 .. n : k[m + i + 1] = ks[m + 1] \o kt[i + 1]
  <2> DEFINE S == {i \in 0 .. n : k[m + i + 1] = ks[m + 1] \o kt[i + 1]}
  <2>1. 0 \in S
    <3>1. m \in 0 .. m /\ 0 \in 0 .. n /\ m + 0 + 1 = m + 1 /\ m + 1 \in 1 .. m + 1
      BY <1>1
    <3>2. k[m + 0 + 1] = ks[m + 1] /\ ks[m + 1] \in Seq(C)
      BY <1>5, <3>1
    <3>3. ks[m + 1] \o <<>> = ks[m + 1]
      BY <3>2
    <3>4. kt[0 + 1] = <<>>
      BY <1>3 DEF Filters
    <3>5. QED
      BY <3>1, <3>2, <3>3, <3>4
  <2>2. ASSUME NEW i \in 1 .. n, i - 1 \in S PROVE i \in S
    <3>1. /\ m + i \in 1 .. m + n /\ i \in 0 .. n /\ i \in 1 .. n + 1
          /\ m + 1 \in 1 .. m + 1 /\ m + (i - 1) + 1 = m + i /\ (i - 1) + 1 = i
      BY <1>1
    <3>2. k[m + i] = ks[m + 1] \o kt[i]
      BY <2>2, <3>1
    <3>3. k[m + i + 1] = Filtered(k[m + i], t[i], dropped) /\ kt[i + 1] = Filtered(kt[i], t[i], dropped)
      BY <1>1, <1>3, <1>4, <3>1 DEF Filters
    <3>4. ks[m + 1] \in Seq(C) /\ kt[i] \in Seq(C) /\ t[i] \in C
      BY <1>1, <3>1
    <3>5. Filtered(ks[m + 1] \o kt[i], t[i], dropped) = ks[m + 1] \o Filtered(kt[i], t[i], dropped)
      <4>1. \A a \in Seq(C), b \in Seq(C), c \in C :
               Filtered(a \o b, c, dropped) = a \o Filtered(b, c, dropped)
        BY FilteredConcat
      <4>2. QED
        BY <3>4, <4>1, Zenon
    <3>6. QED
      BY <3>1, <3>2, <3>3, <3>5
  <2>3. \A i \in 0 .. n : i \in S
    <3> HIDE DEF S
    <3>1. QED
      BY <1>1, <2>1, <2>2, InductionUpTo
  <2>4. QED
    BY <2>3
<1>7. QED
  <2>1. n \in 0 .. n
    BY <1>1
  <2>2. k[m + n + 1] = ks[m + 1] \o kt[n + 1]
    BY <1>6, <2>1
  <2>3. QED
    BY <1>1, <1>2, <1>3, <1>4, <2>2 DEF Filters, st

-----------------------------------------------------------------------------
(***************************************************************************)
(* Edits of a text, and what they do to the word that is left when it is   *)
(* cleaned.                                                                *)
(***************************************************************************)

Characters == Letters \cup LowerLetters \cup Digits \cup Aliens \cup Separators

(* A text that has nothing to drop. *)
LEMMA WithoutNothing ==
    ASSUME NEW C, NEW text \in Seq(C), NEW dropped, \A i \in 1 .. Len(text) : text[i] \notin dropped
    PROVE  Without(text, dropped) = text
<1> DEFINE n == Len(text)
<1>1. PICK kept \in [1 .. n + 1 -> Seq(C)] : Filters(kept, text, dropped)
  BY WithoutSteps
<1>2. n \in Nat /\ SubSeq(text, 1, 0) = <<>> /\ SubSeq(text, 1, n) = text
  OBVIOUS
<1>3. \A i \in 1 .. n : Append(SubSeq(text, 1, i - 1), text[i]) = SubSeq(text, 1, i)
  BY NextPrefix
<1>4. /\ kept[1] = <<>> /\ Without(text, dropped) = kept[n + 1]
      /\ \A i \in 1 .. n : kept[i + 1] = Append(kept[i], text[i])
  BY <1>1, Zenon DEF Filters, Filtered
<1> HIDE DEF n
<1> DEFINE T == {i \in 0 .. n : kept[i + 1] = SubSeq(text, 1, i)}
<1>5. 0 \in T
  <2>1. 0 + 1 = 1 /\ 0 \in 0 .. n
    BY <1>2
  <2>2. QED
    BY <1>2, <1>4, <2>1
<1>6. ASSUME NEW i \in 1 .. n, i - 1 \in T PROVE i \in T
  <2>1. (i - 1) + 1 = i /\ i \in 0 .. n
    BY <1>2
  <2>2. kept[i] = SubSeq(text, 1, i - 1)
    BY <1>6, <2>1
  <2>3. QED
    BY <1>3, <1>4, <2>1, <2>2
<1>7. n \in T
  <2> HIDE DEF T
  <2>1. \A i \in 0 .. n : i \in T
    BY <1>2, <1>5, <1>6, InductionUpTo
  <2>2. n \in 0 .. n
    BY <1>2
  <2>3. QED
    BY <2>1, <2>2
<1>8. QED
  BY <1>2, <1>4, <1>7

(* What cleaning leaves of the parts of a text. *)
Bare(c) == IF c \in Separators THEN <<>> ELSE <<c>>

CleanParts(C, p, c, q) ==
    /\ Cleaned(p \o <<c>> \o q) = Cleaned(p) \o Bare(c) \o Cleaned(q)
    /\ Cleaned(p \o q) = Cleaned(p) \o Cleaned(q)
    /\ Cleaned(p) \in Seq(C) /\ Cleaned(q) \in Seq(C)

(* Cleaning goes part by part. *)
LEMMA CleanedParts ==
    ASSUME NEW C, NEW p \in Seq(C), NEW c \in C, NEW q \in Seq(C)
    PROVE  CleanParts(C, p, c, q)
<1>0. \A s \in Seq(C), t \in Seq(C) :
         Without(s \o t, Separators) = Without(s, Separators) \o Without(t, Separators)
  BY WithoutConcat
<1>1. <<c>> \in Seq(C) /\ p \o <<c>> \in Seq(C)
  OBVIOUS
<1>2. Without(<<c>>, Separators) = Bare(c)
  BY WithoutOne, Zenon DEF Bare
<1>3. Without(p \o <<c>>, Separators) = Without(p, Separators) \o Without(<<c>>, Separators)
  BY <1>0, <1>1, Zenon
<1>4. Without((p \o <<c>>) \o q, Separators) = Without(p \o <<c>>, Separators) \o Without(q, Separators)
  BY <1>0, <1>1, Zenon
<1>5. Without(p \o q, Separators) = Without(p, Separators) \o Without(q, Separators)
  BY WithoutConcat
<1>6. Without(p, Separators) \in Seq(C) /\ Without(q, Separators) \in Seq(C)
  BY WithoutType
<1>7. QED
  BY <1>2, <1>3, <1>4, <1>5, <1>6, Zenon DEF Cleaned, CleanParts

(* Concatenation is associative. *)
LEMMA Regrouped ==
    ASSUME NEW C, NEW s \in Seq(C), NEW t \in Seq(C), NEW u \in Seq(C)
    PROVE  s \o (t \o u) = (s \o t) \o u
  BY ConcatAssociative

(* A text by its parts before a place and from there on. *)
LEMMA CutAt ==
    ASSUME NEW C, NEW text \in Seq(C), NEW i \in 1 .. Len(text) + 1
    PROVE  /\ SubSeq(text, 1, i - 1) \in Seq(C) /\ SubSeq(text, i, Len(text)) \in Seq(C)
           /\ text = SubSeq(text, 1, i - 1) \o SubSeq(text, i, Len(text))
<1>1. /\ 1 \in 1 .. Len(text) + 1 /\ i - 1 \in 1 - 1 .. Len(text) /\ Len(text) \in i - 1 .. Len(text)
      /\ (i - 1) + 1 = i
  BY LenProperties
<1>2. SubSeq(text, 1, i - 1) \o SubSeq(text, (i - 1) + 1, Len(text)) = SubSeq(text, 1, Len(text))
  BY <1>1, ConcatAdjacentSubSeq, Zenon
<1>3. SubSeq(text, 1, Len(text)) = text
  BY SubSeqFull
<1>4. SubSeq(text, 1, i - 1) \in Seq(C) /\ SubSeq(text, i, Len(text)) \in Seq(C)
  OBVIOUS
<1>5. QED
  BY <1>1, <1>2, <1>3, <1>4

(* A text by its parts before a place, at it and after it. *)
LEMMA CutAround ==
    ASSUME NEW C, NEW text \in Seq(C), NEW i \in 1 .. Len(text)
    PROVE  /\ SubSeq(text, 1, i - 1) \in Seq(C) /\ SubSeq(text, i + 1, Len(text)) \in Seq(C)
           /\ SubSeq(text, i, Len(text)) = <<text[i]>> \o SubSeq(text, i + 1, Len(text))
           /\ text = SubSeq(text, 1, i - 1) \o <<text[i]>> \o SubSeq(text, i + 1, Len(text))
<1> DEFINE p == SubSeq(text, 1, i - 1)
           q == SubSeq(text, i + 1, Len(text))
<1>1. i \in 1 .. Len(text) + 1 /\ i + 1 \in 1 .. Len(text) + 1 /\ Len(text) \in i .. Len(text)
  BY LenProperties
<1>2. p \in Seq(C) /\ text = p \o SubSeq(text, i, Len(text))
  BY <1>1, CutAt, Zenon
<1>3. q \in Seq(C)
  BY <1>1, CutAt, Zenon
<1>4. SubSeq(text, i, Len(text)) = <<text[i]>> \o q
  BY <1>1, SubSeqRecursiveFirst, Zenon
<1>5. <<text[i]>> \in Seq(C)
  OBVIOUS
<1> HIDE DEF p, q
<1>6. p \o (<<text[i]>> \o q) = p \o <<text[i]>> \o q
  BY <1>2, <1>3, <1>5, Regrouped
<1>7. text = p \o <<text[i]>> \o q
  BY <1>2, <1>4, <1>6
<1>8. QED
  BY <1>2, <1>3, <1>4, <1>7 DEF p, q

(* An edit at a place, by the parts of the text before it and after it. *)
EditParts(text, i, e, p, q) ==
    /\ text = p \o <<text[i]>> \o q
    /\ ReplaceAt(text, i, e) = p \o <<e>> \o q
    /\ RemoveAt(text, i) = p \o q
    /\ InsertAt(text, i, e) = p \o <<e>> \o (<<text[i]>> \o q)

(* Every edit at a place is one of these parts. *)
LEMMA EditedParts ==
    ASSUME NEW C, NEW text \in Seq(C), NEW i \in 1 .. Len(text), NEW e \in C
    PROVE  \E p \in Seq(C), q \in Seq(C) : EditParts(text, i, e, p, q)
<1> DEFINE n == Len(text)
           p == SubSeq(text, 1, i - 1)
           q == SubSeq(text, i + 1, n)
           new == [text EXCEPT ![i] = e]
<1>1. /\ p \in Seq(C) /\ q \in Seq(C) /\ text = p \o <<text[i]>> \o q
      /\ SubSeq(text, i, n) = <<text[i]>> \o q
  BY CutAround
<1>2. new \in Seq(C) /\ Len(new) = n /\ new[i] = e /\ \A j \in 1 .. n : j # i => new[j] = text[j]
  BY ExceptSeq
<1>3. new = SubSeq(new, 1, i - 1) \o <<new[i]>> \o SubSeq(new, i + 1, Len(new))
  <2> HIDE DEF new
  <2>1. QED
    BY <1>2, CutAround
<1> HIDE DEF new
<1>4. SubSeq(new, 1, i - 1) = p /\ SubSeq(new, i + 1, n) = q
  BY <1>2
<1> HIDE DEF p, q
<1>5. ReplaceAt(text, i, e) = p \o <<e>> \o q
  BY <1>2, <1>3, <1>4, Zenon DEF ReplaceAt, new
<1>6. RemoveAt(text, i) = p \o q
  BY Zenon DEF RemoveAt, p, q
<1>7. InsertAt(text, i, e) = p \o <<e>> \o (<<text[i]>> \o q)
  BY <1>1, Zenon DEF InsertAt, p
<1>8. QED
  BY <1>1, <1>5, <1>6, <1>7, Zenon DEF EditParts

InsertParts(text, i, e, p, q) == text = p \o q /\ InsertAt(text, i, e) = p \o <<e>> \o q

(* An insertion, which may also come after the last character. *)
LEMMA InsertedParts ==
    ASSUME NEW C, NEW text \in Seq(C), NEW i \in 1 .. Len(text) + 1, NEW e
    PROVE  \E p \in Seq(C), q \in Seq(C) : InsertParts(text, i, e, p, q)
  BY CutAt, Zenon DEF InsertAt, InsertParts

(* The words that two texts come down to, alike but for one character. *)
DifferInOne(C, word, new, c, e) ==
    \E p \in Seq(C), q \in Seq(C) : word = p \o <<c>> \o q /\ new = p \o <<e>> \o q

(* A symbol replaced in the text is replaced in the word. *)
LEMMA ReplacedInWord ==
    ASSUME NEW C, NEW text \in Seq(C), NEW i \in 1 .. Len(text), NEW e \in C,
           text[i] \notin Separators, e \notin Separators
    PROVE  DifferInOne(C, Cleaned(text), Cleaned(ReplaceAt(text, i, e)), text[i], e)
<1>1. PICK p \in Seq(C), q \in Seq(C) : EditParts(text, i, e, p, q)
  BY EditedParts
<1>2. text = p \o <<text[i]>> \o q /\ ReplaceAt(text, i, e) = p \o <<e>> \o q
  BY <1>1, Zenon DEF EditParts
<1>3. text[i] \in C
  BY ElementOfSeq
<1>4. /\ Cleaned(p \o <<text[i]>> \o q) = Cleaned(p) \o Bare(text[i]) \o Cleaned(q)
      /\ Cleaned(p \o <<e>> \o q) = Cleaned(p) \o Bare(e) \o Cleaned(q)
      /\ Cleaned(p) \in Seq(C) /\ Cleaned(q) \in Seq(C)
  <2>1. CleanParts(C, p, text[i], q) /\ CleanParts(C, p, e, q)
    BY <1>3, CleanedParts
  <2>2. QED
    BY <2>1, Zenon DEF CleanParts
<1>5. Bare(text[i]) = <<text[i]>> /\ Bare(e) = <<e>>
  BY Zenon DEF Bare
<1>6. QED
  BY <1>2, <1>4, <1>5, Zenon DEF DifferInOne

(* The one has what the character leaves at some place, the other does not. *)
Gained(C, word, new, c) ==
    \E p \in Seq(C), q \in Seq(C) : word = p \o q /\ new = p \o Bare(c) \o q

(* A character removed from the text is removed from the word, if it was *)
(* there.                                                                *)
LEMMA RemovedFromWord ==
    ASSUME NEW C, NEW text \in Seq(C), NEW i \in 1 .. Len(text)
    PROVE  Gained(C, Cleaned(RemoveAt(text, i)), Cleaned(text), text[i])
<1>1. text[i] \in C
  BY ElementOfSeq
<1>2. PICK p \in Seq(C), q \in Seq(C) : EditParts(text, i, text[i], p, q)
  BY <1>1, EditedParts
<1>3. text = p \o <<text[i]>> \o q /\ RemoveAt(text, i) = p \o q
  BY <1>2, Zenon DEF EditParts
<1>4. /\ Cleaned(p \o <<text[i]>> \o q) = Cleaned(p) \o Bare(text[i]) \o Cleaned(q)
      /\ Cleaned(p \o q) = Cleaned(p) \o Cleaned(q)
      /\ Cleaned(p) \in Seq(C) /\ Cleaned(q) \in Seq(C)
  <2>1. CleanParts(C, p, text[i], q)
    BY <1>1, CleanedParts
  <2>2. QED
    BY <2>1, Zenon DEF CleanParts
<1>5. QED
  BY <1>3, <1>4, Zenon DEF Gained

(* A character inserted into the text is inserted into the word, unless  *)
(* dropped.                                                              *)
LEMMA InsertedIntoWord ==
    ASSUME NEW C, NEW text \in Seq(C), NEW i \in 1 .. Len(text) + 1, NEW e \in C
    PROVE  Gained(C, Cleaned(text), Cleaned(InsertAt(text, i, e)), e)
<1>1. PICK p \in Seq(C), q \in Seq(C) : InsertParts(text, i, e, p, q)
  BY InsertedParts
<1>2. /\ Cleaned(p \o <<e>> \o q) = Cleaned(p) \o Bare(e) \o Cleaned(q)
      /\ Cleaned(p \o q) = Cleaned(p) \o Cleaned(q)
      /\ Cleaned(p) \in Seq(C) /\ Cleaned(q) \in Seq(C)
  <2>1. CleanParts(C, p, e, q)
    BY CleanedParts
  <2>2. QED
    BY <2>1, Zenon DEF CleanParts
<1>3. QED
  BY <1>1, <1>2, Zenon DEF InsertParts, Gained

(* The edits keep to the characters. *)
LEMMA EditTypes ==
    ASSUME NEW C, NEW text \in Seq(C), NEW e \in C
    PROVE  /\ \A i \in 1 .. Len(text) : ReplaceAt(text, i, e) \in Seq(C) /\ RemoveAt(text, i) \in Seq(C)
           /\ \A i \in 1 .. Len(text) + 1 : InsertAt(text, i, e) \in Seq(C)
<1>1. ASSUME NEW i \in 1 .. Len(text)
      PROVE  ReplaceAt(text, i, e) \in Seq(C) /\ RemoveAt(text, i) \in Seq(C)
  <2>1. PICK p \in Seq(C), q \in Seq(C) : EditParts(text, i, e, p, q)
    BY EditedParts
  <2>2. p \o q \in Seq(C) /\ p \o <<e>> \o q \in Seq(C)
    OBVIOUS
  <2>3. QED
    BY <2>1, <2>2, Zenon DEF EditParts
<1>2. ASSUME NEW i \in 1 .. Len(text) + 1
      PROVE  InsertAt(text, i, e) \in Seq(C)
  <2>1. PICK p \in Seq(C), q \in Seq(C) : InsertParts(text, i, e, p, q)
    BY InsertedParts
  <2>2. p \o <<e>> \o q \in Seq(C)
    OBVIOUS
  <2>3. QED
    BY <2>1, <2>2, Zenon DEF InsertParts
<1>3. QED
  BY <1>1, <1>2

(* The places of a word around one of them. *)
Around(word, p, c, q) ==
    /\ Len(p) \in Nat /\ Len(q) \in Nat /\ Len(word) = Len(p) + 1 + Len(q)
    /\ word[Len(p) + 1] = c
    /\ \A k \in 1 .. Len(p) : word[k] = p[k]
    /\ \A k \in Len(p) + 2 .. Len(p) + 1 + Len(q) : word[k] = q[k - Len(p) - 1]

(* The places of a word, for a word of three parts. *)
LEMMA WordAround ==
    ASSUME NEW C, NEW p \in Seq(C), NEW q \in Seq(C), NEW c
    PROVE  Around(p \o <<c>> \o q, p, c, q)
  BY DEF Around

DifferAt(word, new, i, c, e) ==
    /\ word[i] = c /\ new[i] = e
    /\ \A k \in 1 .. Len(word) : k # i => new[k] = word[k]

(* Words that differ in one character are as long and differ at one      *)
(* place.                                                                *)
LEMMA OneDifferent ==
    ASSUME NEW C, NEW word, NEW new, NEW c, NEW e, DifferInOne(C, word, new, c, e)
    PROVE  /\ Len(new) = Len(word) /\ Len(word) \in Nat
           /\ \E i \in 1 .. Len(word) : DifferAt(word, new, i, c, e)
<1>1. PICK p \in Seq(C), q \in Seq(C) : word = p \o <<c>> \o q /\ new = p \o <<e>> \o q
  BY Zenon DEF DifferInOne
<1>2. Around(word, p, c, q) /\ Around(new, p, e, q)
  BY <1>1, WordAround
<1>3. \A k \in 1 .. Len(word) : k # Len(p) + 1 => k \in 1 .. Len(p) \/ k \in Len(p) + 2 .. Len(p) + 1 + Len(q)
  BY <1>2 DEF Around
<1>4. Len(p) + 1 \in 1 .. Len(word) /\ Len(word) \in Nat
  BY <1>2 DEF Around
<1>5. DifferAt(word, new, Len(p) + 1, c, e)
  BY <1>2, <1>3, Zenon DEF Around, DifferAt
<1>6. QED
  BY <1>2, <1>4, <1>5, Zenon DEF Around

-----------------------------------------------------------------------------
(***************************************************************************)
(* The claim screen.                                                       *)
(***************************************************************************)

(* A part of the screen comes down to the first symbols of the code. *)
Spells(text, raw, j, dropped) ==
    text \in Seq(Characters) /\ Without(text, dropped) = SubSeq(raw, 1, j)

Undropped(raw, dropped) ==
    /\ raw \in Seq(Characters) /\ "-" \in dropped
    /\ \A i \in 1 .. Len(raw) : raw[i] \notin dropped

(* A group of symbols has nothing to drop. *)
LEMMA PieceIsKept ==
    ASSUME NEW raw, NEW dropped, Undropped(raw, dropped), NEW m \in 1 .. Len(raw), NEW k \in m .. Len(raw)
    PROVE  LET piece == SubSeq(raw, m, k) IN piece \in Seq(Characters) /\ Without(piece, dropped) = piece
<1> DEFINE piece == SubSeq(raw, m, k)
<1>1. raw \in Seq(Characters) /\ \A i \in 1 .. Len(raw) : raw[i] \notin dropped
  BY DEF Undropped
<1> HIDE DEF Characters
<1>2. /\ piece \in Seq(Characters)
      /\ \A i \in 1 .. Len(piece) : m + i - 1 \in 1 .. Len(raw) /\ piece[i] = raw[m + i - 1]
  BY <1>1
<1>3. \A i \in 1 .. Len(piece) : piece[i] \notin dropped
  BY <1>1, <1>2, Zenon
<1> HIDE DEF piece
<1>4. Without(piece, dropped) = piece
  BY <1>2, <1>3, WithoutNothing
<1>5. QED
  BY <1>2, <1>4 DEF piece

(* A dash and the next group spell as many symbols more. *)
LEMMA DashAndPiece ==
    ASSUME NEW raw, NEW dropped, Undropped(raw, dropped), NEW text, NEW j \in 1 .. Len(raw), NEW m,
           m = j + 1, NEW k \in m .. Len(raw), Spells(text, raw, j, dropped)
    PROVE  Spells(text \o <<"-">> \o SubSeq(raw, m, k), raw, k, dropped)
<1> DEFINE piece == SubSeq(raw, m, k)
<1>1. /\ raw \in Seq(Characters) /\ "-" \in dropped /\ text \in Seq(Characters)
      /\ Without(text, dropped) = SubSeq(raw, 1, j)
  BY Zenon DEF Undropped, Spells
<1>2. "-" \in Characters
  BY DEF Characters, Separators
<1>3. m \in 1 .. Len(raw) /\ Len(raw) \in Nat
  BY LenProperties, <1>1
<1>4. piece \in Seq(Characters) /\ Without(piece, dropped) = piece
  BY <1>3, PieceIsKept, Zenon
<1>5. <<"-">> \in Seq(Characters) /\ text \o <<"-">> \in Seq(Characters)
  BY <1>1, <1>2
<1>0. \A s \in Seq(Characters), t \in Seq(Characters) :
         Without(s \o t, dropped) = Without(s, dropped) \o Without(t, dropped)
  <2> HIDE DEF piece
  <2>1. QED
    BY WithoutConcat
<1>6. text \o <<"-">> \o piece \in Seq(Characters)
  <2> HIDE DEF piece
  <2>1. QED
    BY <1>4, <1>5
<1>7. Without(<<"-">>, dropped) = <<>>
  BY <1>1, <1>2, WithoutOne
<1>8. Without(text \o <<"-">>, dropped) = SubSeq(raw, 1, j) \o <<>>
  <2>1. Without(text \o <<"-">>, dropped) = Without(text, dropped) \o Without(<<"-">>, dropped)
    BY <1>0, <1>1, <1>5, Zenon
  <2>2. QED
    BY <1>1, <1>7, <2>1, Zenon
<1>9. SubSeq(raw, 1, j) \o <<>> = SubSeq(raw, 1, j)
  BY <1>1
<1>10. Without(text \o <<"-">> \o piece, dropped) = SubSeq(raw, 1, j) \o piece
  <2>1. Without(text \o <<"-">> \o piece, dropped) = Without(text \o <<"-">>, dropped) \o Without(piece, dropped)
    BY <1>0, <1>4, <1>5, Zenon
  <2>2. QED
    BY <1>4, <1>8, <1>9, <2>1, Zenon
<1>11. SubSeq(raw, 1, j) \o piece = SubSeq(raw, 1, k)
  <2>1. /\ 1 \in 1 .. Len(raw) + 1 /\ j \in 1 - 1 .. Len(raw) /\ k \in j .. Len(raw)
    BY <1>3
  <2>2. SubSeq(raw, 1, j) \o SubSeq(raw, j + 1, k) = SubSeq(raw, 1, k)
    BY <1>1, <2>1, ConcatAdjacentSubSeq, Zenon
  <2>3. QED
    BY <2>2, Zenon
<1>12. QED
  BY <1>6, <1>10, <1>11, Zenon DEF Spells

(* The screen spells the code: five groups and four dashes. *)
LEMMA DisplaySpells ==
    ASSUME NEW secret, NEW dropped, Undropped(EncodeCrockford(secret), dropped),
           Len(EncodeCrockford(secret)) = 26
    PROVE  Spells(EncodeDisplay(secret), EncodeCrockford(secret), 26, dropped)
<1> DEFINE raw == EncodeCrockford(secret)
           a == SubSeq(raw, 1, 5)
           b == a \o <<"-">> \o SubSeq(raw, 6, 10)
           c == b \o <<"-">> \o SubSeq(raw, 11, 15)
           d == c \o <<"-">> \o SubSeq(raw, 16, 20)
           e == d \o <<"-">> \o SubSeq(raw, 21, 26)
<1>1. EncodeDisplay(secret) = e
  BY Zenon DEF EncodeDisplay
<1>2. Undropped(raw, dropped) /\ Len(raw) = 26
  OBVIOUS
<1> HIDE DEF raw
<1>3. Spells(a, raw, 5, dropped)
  <2>1. 1 \in 1 .. Len(raw) /\ 5 \in 1 .. Len(raw)
    BY <1>2
  <2>2. a \in Seq(Characters) /\ Without(a, dropped) = a
    BY <1>2, <2>1, PieceIsKept, Zenon
  <2>3. QED
    BY <2>2, Zenon DEF Spells
<1> HIDE DEF a
<1>4. Spells(b, raw, 10, dropped)
  <2>1. 5 \in 1 .. Len(raw) /\ 6 = 5 + 1 /\ 10 \in 6 .. Len(raw)
    BY <1>2
  <2>2. QED
    BY <1>2, <1>3, <2>1, DashAndPiece, Zenon
<1> HIDE DEF b
<1>5. Spells(c, raw, 15, dropped)
  <2>1. 10 \in 1 .. Len(raw) /\ 11 = 10 + 1 /\ 15 \in 11 .. Len(raw)
    BY <1>2
  <2>2. QED
    BY <1>2, <1>4, <2>1, DashAndPiece, Zenon
<1> HIDE DEF c
<1>6. Spells(d, raw, 20, dropped)
  <2>1. 15 \in 1 .. Len(raw) /\ 16 = 15 + 1 /\ 20 \in 16 .. Len(raw)
    BY <1>2
  <2>2. QED
    BY <1>2, <1>5, <2>1, DashAndPiece, Zenon
<1> HIDE DEF d
<1>7. Spells(e, raw, 26, dropped)
  <2>1. 20 \in 1 .. Len(raw) /\ 21 = 20 + 1 /\ 26 \in 21 .. Len(raw)
    BY <1>2
  <2>2. QED
    BY <1>2, <1>6, <2>1, DashAndPiece, Zenon
<1>8. QED
  BY <1>1, <1>7 DEF raw

(* The symbols of a row of values mean these values, and none is a separator. *)
LEMMA SymbolsMean ==
    ASSUME NEW values \in Seq(0 .. 31)
    PROVE  /\ Symbols(values) \in Seq(Characters) /\ Len(Symbols(values)) = Len(values)
           /\ Means(Symbols(values), values)
           /\ \A i \in 1 .. Len(values) : Symbols(values)[i] \in Letters \cup Digits
<1> DEFINE symbols == Symbols(values)
<1>1. Len(values) \in Nat /\ DOMAIN values = 1 .. Len(values) /\ \A i \in 1 .. Len(values) : values[i] \in 0 .. 31
  BY LenProperties, ElementOfSeq
<1>2. symbols = [i \in 1 .. Len(values) |-> Symbol(values[i])]
  BY <1>1 DEF Symbols
<1>3. \A i \in 1 .. Len(values) : symbols[i] \in Letters \cup Digits
  BY <1>1, <1>2, SymbolIn
<1>4. symbols \in Seq(Characters) /\ Len(symbols) = Len(values)
  <2>1. \A i \in 1 .. Len(values) : symbols[i] \in Characters
    BY <1>3, Zenon DEF Characters
  <2>2. symbols \in [1 .. Len(values) -> Characters]
    <3> HIDE DEF Characters
    <3>1. symbols = [i \in 1 .. Len(values) |-> symbols[i]]
      BY <1>2
    <3> HIDE DEF symbols
    <3>2. QED
      BY <2>1, <3>1
  <2> HIDE DEF symbols
  <2>3. QED
    BY <1>1, <2>2
<1>5. \A i \in 1 .. Len(values) : CrockfordValues(symbols[i]) = {values[i]}
  <2>1. \A i \in 1 .. Len(values) : symbols[i] = Symbol(values[i])
    BY <1>2
  <2>2. QED
    BY <1>1, <2>1, SymbolMeans
<1> HIDE DEF symbols
<1>6. Means(symbols, values)
  BY <1>4, <1>5, Zenon DEF Means
<1>7. QED
  BY <1>3, <1>4, <1>6 DEF symbols

-----------------------------------------------------------------------------
(***************************************************************************)
(* The way of a code: the inductive invariant.                             *)
(***************************************************************************)

(* What a word on its way still says of the secret. *)
Says(secret, word, harm) ==
    /\ harm = "none" => Means(word, Values(secret))
    /\ harm = "length" => Len(word) \in {25, 27}
    /\ harm = "alien" => \E i \in 1 .. Len(word) : CrockfordValues(word[i]) = {}

Harms == {"none", "length", "alien"}

CodeKept(c) ==
    /\ c \in [secret : Secrets, text : Seq(Characters), harm : Harms]
    /\ Says(c.secret, Cleaned(c.text), c.harm)

CodeInv == code # None => CodeKept(code)

(* The symbols of two words mean the same, one by one. *)
Alike(word, new) ==
    /\ Len(new) = Len(word)
    /\ \A k \in 1 .. Len(word) : CrockfordValues(new[k]) = CrockfordValues(word[k])

(* A secret is a sequence of 16 bytes. *)
LEMMA FunctionIsSequence ==
    ASSUME NEW n \in Nat, NEW S, NEW s \in [1 .. n -> S]
    PROVE  s \in Seq(S) /\ Len(s) = n
  OBVIOUS

(* Every secret's code means the secret. *)
LEMMA SecretReadsBack ==
    ASSUME NEW secret \in Secrets
    PROVE  ReadsBack(secret)
<1>1. secret \in [1 .. 16 -> 0 .. 255]
  BY InputsAssumption, Zenon DEF InputsAssumption
<1>2. secret \in Seq(0 .. 255) /\ Len(secret) = 16
  <2>1. 16 \in Nat
    OBVIOUS
  <2>2. QED
    BY <1>1, <2>1, FunctionIsSequence, Zenon
<1>3. QED
  BY <1>2, CodeReadsBack

(* A word whose symbols mean the same says the same. *)
LEMMA AlikeSaysTheSame ==
    ASSUME NEW secret, NEW word, NEW new, NEW harm, Alike(word, new), Says(secret, word, harm)
    PROVE  Says(secret, new, harm)
<1>1. /\ Len(new) = Len(word)
      /\ \A k \in 1 .. Len(word) : CrockfordValues(new[k]) = CrockfordValues(word[k])
  BY Zenon DEF Alike
<1>2. Means(word, Values(secret)) => Means(new, Values(secret))
  BY <1>1, Zenon DEF Means
<1>3. QED
  BY <1>1, <1>2, Zenon DEF Says

(* A character replaced by one that means the same leaves a word alike. *)
LEMMA SameMeaningIsAlike ==
    ASSUME NEW C, NEW word, NEW new, NEW c, NEW e, DifferInOne(C, word, new, c, e),
           CrockfordValues(c) = CrockfordValues(e)
    PROVE  Alike(word, new)
<1>1. PICK i \in 1 .. Len(word) : DifferAt(word, new, i, c, e)
  BY OneDifferent
<1>2. Len(new) = Len(word)
  BY OneDifferent
<1>3. QED
  BY <1>1, <1>2, Zenon DEF Alike, DifferAt

(* A code that says what it should is read as its secret, any other is refused. *)
LEMMA SaysIsRead ==
    ASSUME NEW secret \in Secrets, NEW text \in Seq(Characters), Says(secret, Cleaned(text), "none")
    PROVE  Decode(text) = secret
<1> DEFINE word == Cleaned(text)
<1>1. /\ Len(Values(secret)) = 26
      /\ \A symbols : Means(symbols, Values(secret)) => Bytes(symbols) = secret
  BY SecretReadsBack, Zenon DEF ReadsBack
<1>2. Means(word, Values(secret))
  BY DEF Says
<1>3. word \in Seq(Characters)
  BY WithoutType, Zenon DEF Cleaned
<1> HIDE DEF word
<1>4. DOMAIN word = 1 .. Len(word)
  BY <1>3, LenProperties
<1>5. Len(word) = EncodedLen /\ \A i \in 1 .. Len(word) : CrockfordValues(word[i]) = {Values(secret)[i]}
  BY <1>1, <1>2 DEF Means, EncodedLen
<1>6. ~ \E i \in DOMAIN word : CrockfordValues(word[i]) = {}
  BY <1>4, <1>5
<1>7. Bytes(word) = secret
  BY <1>1, <1>2, Zenon
<1>8. QED
  BY <1>5, <1>6, <1>7, Zenon DEF Decode, word

(* A word of 25 or 27 symbols, or with no symbol in it, is refused. *)
LEMMA DamageIsRead ==
    ASSUME NEW secret, NEW text \in Seq(Characters), NEW harm \in {"length", "alien"},
           Says(secret, Cleaned(text), harm)
    PROVE  Decode(text) = NoSecret
<1> DEFINE word == Cleaned(text)
<1>1. word \in Seq(Characters)
  BY WithoutType, Zenon DEF Cleaned
<1>2. Len(word) \in {25, 27} \/ \E i \in 1 .. Len(word) : CrockfordValues(word[i]) = {}
  BY DEF Says
<1> HIDE DEF word
<1>3. DOMAIN word = 1 .. Len(word)
  BY <1>1, LenProperties
<1>4. Len(word) # EncodedLen \/ \E i \in DOMAIN word : CrockfordValues(word[i]) = {}
  <2>1. \A l \in {25, 27} : l # EncodedLen
    BY DEF EncodedLen
  <2>2. QED
    BY <1>2, <1>3, <2>1, Zenon
<1>5. QED
  BY <1>4, Zenon DEF Decode, word

(* The characters that are no separators. *)
LEMMA NoSeparators ==
    /\ \A c \in Letters \cup LowerLetters \cup Digits \cup Aliens : c \notin Separators /\ c \in Characters
    /\ \A c \in Separators : c \in Characters
  BY DEF Letters, LowerLetters, Digits, Aliens, Separators, Characters

(***************************************************************************)
(* The edits of a code.                                                    *)
(***************************************************************************)
LEMMA EditKeepsCode ==
    ASSUME CodeKept(code), NEW text \in Seq(Characters), NEW harm \in Harms, Edited(text, harm),
           Says(code.secret, Cleaned(text), harm)
    PROVE  CodeKept(code')
<1>1. code' = [code EXCEPT !.text = text, !.harm = harm]
  BY Zenon DEF Edited
<1>2. code \in [secret : Secrets, text : Seq(Characters), harm : Harms]
  BY Zenon DEF CodeKept
<1>3. /\ code' \in [secret : Secrets, text : Seq(Characters), harm : Harms]
      /\ code'.secret = code.secret /\ code'.text = text /\ code'.harm = harm
  <2> HIDE DEF Characters, Harms
  <2>1. QED
    BY <1>1, <1>2
<1>4. QED
  BY <1>3, Zenon DEF CodeKept

(* A character for another one that means the same. *)
LEMMA ReplacingKeepsCode ==
    ASSUME CodeKept(code), NEW i \in DOMAIN code.text, NEW e \in Characters,
           code.text[i] \notin Separators, e \notin Separators,
           CrockfordValues(code.text[i]) = CrockfordValues(e),
           Edited(ReplaceAt(code.text, i, e), code.harm)
    PROVE  CodeKept(code')
<1>1. code.text \in Seq(Characters) /\ code.harm \in Harms /\ Says(code.secret, Cleaned(code.text), code.harm)
  <2>1. code \in [secret : Secrets, text : Seq(Characters), harm : Harms]
    BY Zenon DEF CodeKept
  <2>2. Says(code.secret, Cleaned(code.text), code.harm)
    BY Zenon DEF CodeKept
  <2>3. QED
    BY <2>1, <2>2
<1> DEFINE text == code.text
           new == ReplaceAt(text, i, e)
<1>2. i \in 1 .. Len(text)
  BY <1>1, LenProperties
<1>3. new \in Seq(Characters)
  BY <1>1, <1>2, EditTypes, Zenon
<1>4. DifferInOne(Characters, Cleaned(text), Cleaned(new), text[i], e)
  BY <1>1, <1>2, ReplacedInWord, Zenon
<1> HIDE DEF new
<1>5. Alike(Cleaned(text), Cleaned(new))
  BY <1>4, SameMeaningIsAlike
<1>6. Says(code.secret, Cleaned(new), code.harm)
  BY <1>1, <1>5, AlikeSaysTheSame
<1>7. QED
  BY <1>1, <1>3, <1>6, EditKeepsCode DEF new

(* Lower case does no harm. *)
LEMMA LowersCaseKeepsCode ==
    ASSUME CodeKept(code), LowersCase
    PROVE  CodeKept(code')
<1>1. PICK i \in DOMAIN code.text :
         /\ code.text[i] \in DOMAIN Lower
         /\ Edited(ReplaceAt(code.text, i, Lower[code.text[i]]), code.harm)
  BY Zenon DEF LowersCase
<1> DEFINE u == code.text[i]
<1>2. u \in Letters /\ Lower[u] \in LowerLetters
  BY <1>1, LowerAre, LowersAre, Zenon
<1>3. /\ u \notin Separators /\ Lower[u] \notin Separators /\ Lower[u] \in Characters
      /\ CrockfordValues(u) = CrockfordValues(Lower[u])
  <2> HIDE DEF u
  <2>1. u \in Letters \cup LowerLetters \cup Digits \cup Aliens
    BY <1>2, Zenon
  <2>2. Lower[u] \in Letters \cup LowerLetters \cup Digits \cup Aliens
    BY <1>2, Zenon
  <2>3. CrockfordValues(Lower[u]) = CrockfordValues(u)
    BY <1>2, LowerMeans
  <2>4. QED
    BY <2>1, <2>2, <2>3, NoSeparators, Zenon
<1>4. QED
  BY <1>1, <1>3, ReplacingKeepsCode, Zenon

(* O for 0 and I or L for 1 do no harm. *)
LEMMA MistakesLetterKeepsCode ==
    ASSUME CodeKept(code), MistakesLetter
    PROVE  CodeKept(code')
<1>1. PICK i \in DOMAIN code.text :
         \/ code.text[i] = "0" /\ \E c \in {"O", "o"} : Edited(ReplaceAt(code.text, i, c), code.harm)
         \/ code.text[i] = "1"
            /\ \E c \in {"I", "i", "L", "l"} : Edited(ReplaceAt(code.text, i, c), code.harm)
  BY Zenon DEF MistakesLetter
<1>2. /\ \A c \in {"O", "o", "I", "i", "L", "l", "0", "1"} : c \notin Separators /\ c \in Characters
      /\ \A c \in {"O", "o"} : CrockfordValues("0") = CrockfordValues(c)
      /\ \A c \in {"I", "i", "L", "l"} : CrockfordValues("1") = CrockfordValues(c)
  <2>1. \A c \in {"O", "o", "I", "i", "L", "l", "0", "1"} : c \in Letters \cup LowerLetters \cup Digits \cup Aliens
    BY DEF Letters, LowerLetters, Digits
  <2>2. CrockfordValues("0") = {0} /\ CrockfordValues("1") = {1}
    BY SymbolMeans, SymbolsAre
  <2>3. \A c \in {"O", "o"} : CrockfordValues(c) = {0}
    BY ReadAs
  <2>4. \A c \in {"I", "i", "L", "l"} : CrockfordValues(c) = {1}
    BY ReadAs
  <2>5. QED
    BY <2>1, <2>2, <2>3, <2>4, NoSeparators, Zenon
<1>3. CASE code.text[i] = "0" /\ \E c \in {"O", "o"} : Edited(ReplaceAt(code.text, i, c), code.harm)
  <2>1. PICK c \in {"O", "o"} : Edited(ReplaceAt(code.text, i, c), code.harm)
    BY <1>3
  <2>2. /\ c \in Characters /\ c \notin Separators /\ code.text[i] \notin Separators
        /\ CrockfordValues(code.text[i]) = CrockfordValues(c)
    BY <1>2, <1>3
  <2>3. QED
    BY <2>1, <2>2, ReplacingKeepsCode, Zenon
<1>4. CASE /\ code.text[i] = "1"
           /\ \E c \in {"I", "i", "L", "l"} : Edited(ReplaceAt(code.text, i, c), code.harm)
  <2>1. PICK c \in {"I", "i", "L", "l"} : Edited(ReplaceAt(code.text, i, c), code.harm)
    BY <1>4
  <2>2. /\ c \in Characters /\ c \notin Separators /\ code.text[i] \notin Separators
        /\ CrockfordValues(code.text[i]) = CrockfordValues(c)
    BY <1>2, <1>4
  <2>3. QED
    BY <2>1, <2>2, ReplacingKeepsCode, Zenon
<1>5. QED
  BY <1>1, <1>3, <1>4, Zenon

(* What is known of a code on its way. *)
LEMMA CodeFields ==
    ASSUME CodeKept(code)
    PROVE  /\ code.text \in Seq(Characters) /\ code.harm \in Harms /\ code.secret \in Secrets
           /\ Says(code.secret, Cleaned(code.text), code.harm)
           /\ DOMAIN code.text = 1 .. Len(code.text)
<1>1. code \in [secret : Secrets, text : Seq(Characters), harm : Harms]
  BY Zenon DEF CodeKept
<1>2. code.text \in Seq(Characters) /\ code.harm \in Harms /\ code.secret \in Secrets
  BY <1>1
<1>3. DOMAIN code.text = 1 .. Len(code.text)
  BY <1>2, LenProperties
<1>4. QED
  BY <1>2, <1>3, Zenon DEF CodeKept

(* A separator more or less changes nothing. *)
LEMMA RespacesKeepsCode ==
    ASSUME CodeKept(code), Respaces
    PROVE  CodeKept(code')
<1> DEFINE text == code.text
<1>1. /\ text \in Seq(Characters) /\ code.harm \in Harms /\ Says(code.secret, Cleaned(text), code.harm)
      /\ DOMAIN text = 1 .. Len(text)
  BY CodeFields
<1>2. ASSUME NEW new \in Seq(Characters), Cleaned(new) = Cleaned(text), Edited(new, code.harm)
      PROVE  CodeKept(code')
  BY <1>1, <1>2, EditKeepsCode
<1>3. \A p \in Seq(Characters) : p \o <<>> = p
  BY ConcatEmptySeq
<1>4. CASE \E i \in 1 .. Len(text) + 1, c \in Separators : Edited(InsertAt(text, i, c), code.harm)
  <2>1. PICK i \in 1 .. Len(text) + 1, c \in Separators : Edited(InsertAt(text, i, c), code.harm)
    BY <1>4
  <2> DEFINE new == InsertAt(text, i, c)
  <2>2. c \in Characters /\ Bare(c) = <<>>
    BY NoSeparators, Zenon DEF Bare
  <2>3. new \in Seq(Characters)
    BY <1>1, <2>2, EditTypes, Zenon
  <2>4. PICK p \in Seq(Characters), q \in Seq(Characters) :
           Cleaned(text) = p \o q /\ Cleaned(new) = p \o Bare(c) \o q
    <3>1. Gained(Characters, Cleaned(text), Cleaned(new), c)
      BY <1>1, <2>2, InsertedIntoWord
    <3>2. QED
      BY <3>1, Zenon DEF Gained
  <2>5. Cleaned(new) = Cleaned(text)
    BY <1>3, <2>2, <2>4, Zenon
  <2>6. QED
    BY <1>2, <2>1, <2>3, <2>5, Zenon
<1>5. CASE \E i \in DOMAIN text : text[i] \in Separators /\ Edited(RemoveAt(text, i), code.harm)
  <2>1. PICK i \in 1 .. Len(text) : text[i] \in Separators /\ Edited(RemoveAt(text, i), code.harm)
    BY <1>1, <1>5, Zenon
  <2> DEFINE new == RemoveAt(text, i)
  <2>2. text[i] \in Characters /\ Bare(text[i]) = <<>>
    BY <2>1, NoSeparators, Zenon DEF Bare
  <2>3. new \in Seq(Characters)
    BY <1>1, <2>2, EditTypes, Zenon
  <2>4. PICK p \in Seq(Characters), q \in Seq(Characters) :
           Cleaned(text) = p \o Bare(text[i]) \o q /\ Cleaned(new) = p \o q
    <3>1. Gained(Characters, Cleaned(new), Cleaned(text), text[i])
      BY <1>1, RemovedFromWord
    <3>2. QED
      BY <3>1, Zenon DEF Gained
  <2>5. Cleaned(new) = Cleaned(text)
    BY <1>3, <2>2, <2>4, Zenon
  <2>6. QED
    BY <1>2, <2>1, <2>3, <2>5, Zenon
<1>6. QED
  BY <1>4, <1>5, Zenon DEF Respaces

(* 26 symbols and one less. *)
LEMMA OneLess ==
    ASSUME NEW C, NEW p \in Seq(C), NEW q \in Seq(C), NEW c, Len(p \o <<c>> \o q) = 26
    PROVE  Len(p \o q) \in {25, 27}
  OBVIOUS

(* 26 symbols and one more. *)
LEMMA OneMany ==
    ASSUME NEW C, NEW p \in Seq(C), NEW q \in Seq(C), NEW c, Len(p \o q) = 26
    PROVE  Len(p \o <<c>> \o q) \in {25, 27}
  OBVIOUS

(* A symbol lost or doubled shows in the length, whatever is left. *)
LEMMA SlipsKeepsCode ==
    ASSUME CodeKept(code), Slips
    PROVE  CodeKept(code')
<1> DEFINE text == code.text
<1>1. /\ text \in Seq(Characters) /\ Says(code.secret, Cleaned(text), "none") /\ code.secret \in Secrets
      /\ DOMAIN text = 1 .. Len(text)
  BY CodeFields DEF Slips
<1>2. Len(Cleaned(text)) = 26
  <2>1. Means(Cleaned(text), Values(code.secret))
    BY <1>1, Zenon DEF Says
  <2>2. Len(Values(code.secret)) = 26
    BY <1>1, SecretReadsBack, Zenon DEF ReadsBack
  <2>3. QED
    BY <2>1, <2>2, Zenon DEF Means
<1>3. ASSUME NEW new \in Seq(Characters), Len(Cleaned(new)) \in {25, 27}, Edited(new, "length")
      PROVE  CodeKept(code')
  <2>1. "length" \in Harms /\ Says(code.secret, Cleaned(new), "length")
    BY <1>3, Zenon DEF Harms, Says
  <2>2. QED
    BY <1>3, <2>1, EditKeepsCode
<1>4. PICK i \in 1 .. Len(text) :
         /\ text[i] \notin Separators
         /\ Edited(RemoveAt(text, i), "length") \/ Edited(InsertAt(text, i, text[i]), "length")
  BY <1>1, Zenon DEF Slips
<1>5. text[i] \in Characters /\ Bare(text[i]) = <<text[i]>>
  <2>1. text[i] \in Characters
    BY <1>1, ElementOfSeq, Zenon
  <2>2. QED
    BY <1>4, <2>1, Zenon DEF Bare
<1>6. i \in 1 .. Len(text) + 1
  BY <1>1, LenProperties
<1>7. CASE Edited(RemoveAt(text, i), "length")
  <2> DEFINE new == RemoveAt(text, i)
  <2>1. new \in Seq(Characters)
    BY <1>1, <1>5, EditTypes, Zenon
  <2>2. PICK p \in Seq(Characters), q \in Seq(Characters) :
           Cleaned(text) = p \o Bare(text[i]) \o q /\ Cleaned(new) = p \o q
    <3>1. Gained(Characters, Cleaned(new), Cleaned(text), text[i])
      BY <1>1, RemovedFromWord
    <3>2. QED
      BY <3>1, Zenon DEF Gained
  <2>3. Len(p \o <<text[i]>> \o q) = 26
    BY <1>2, <1>5, <2>2, Zenon
  <2>4. Len(Cleaned(new)) \in {25, 27}
    BY <2>2, <2>3, OneLess, Zenon
  <2>5. QED
    BY <1>3, <1>7, <2>1, <2>4, Zenon
<1>8. CASE Edited(InsertAt(text, i, text[i]), "length")
  <2> DEFINE new == InsertAt(text, i, text[i])
  <2>1. new \in Seq(Characters)
    BY <1>1, <1>5, <1>6, EditTypes, Zenon
  <2>2. PICK p \in Seq(Characters), q \in Seq(Characters) :
           Cleaned(text) = p \o q /\ Cleaned(new) = p \o Bare(text[i]) \o q
    <3>1. Gained(Characters, Cleaned(text), Cleaned(new), text[i])
      BY <1>1, <1>5, <1>6, InsertedIntoWord
    <3>2. QED
      BY <3>1, Zenon DEF Gained
  <2>3. Len(p \o q) = 26
    BY <1>2, <2>2, Zenon
  <2>4. Len(Cleaned(new)) \in {25, 27}
    BY <1>5, <2>2, <2>3, OneMany, Zenon
  <2>5. QED
    BY <1>3, <1>8, <2>1, <2>4, Zenon
<1>9. QED
  BY <1>4, <1>7, <1>8, Zenon

(* A character that is no symbol stays in the word. *)
LEMMA SmudgesKeepsCode ==
    ASSUME CodeKept(code), Smudges
    PROVE  CodeKept(code')
<1> DEFINE text == code.text
<1>1. text \in Seq(Characters) /\ DOMAIN text = 1 .. Len(text)
  BY CodeFields
<1>2. PICK i \in 1 .. Len(text), c \in Aliens : text[i] \notin Separators /\ Edited(ReplaceAt(text, i, c), "alien")
  BY <1>1, Zenon DEF Smudges, Aliens
<1> DEFINE new == ReplaceAt(text, i, c)
<1>3. c \in Characters /\ c \notin Separators
  BY NoSeparators, Zenon
<1>4. new \in Seq(Characters)
  BY <1>1, <1>3, EditTypes, Zenon
<1>5. DifferInOne(Characters, Cleaned(text), Cleaned(new), text[i], c)
  BY <1>1, <1>2, <1>3, ReplacedInWord, Zenon
<1>6. \E k \in 1 .. Len(Cleaned(new)) : CrockfordValues(Cleaned(new)[k]) = {}
  <2> HIDE DEF new
  <2>1. PICK k \in 1 .. Len(Cleaned(text)) : DifferAt(Cleaned(text), Cleaned(new), k, text[i], c)
    BY <1>5, OneDifferent
  <2>2. Len(Cleaned(new)) = Len(Cleaned(text))
    BY <1>5, OneDifferent
  <2>3. CrockfordValues(c) = {}
    BY AlienMeansNothing
  <2>4. QED
    BY <2>1, <2>2, <2>3, Zenon DEF DifferAt
<1> HIDE DEF new
<1>7. "alien" \in Harms /\ Says(code.secret, Cleaned(new), "alien")
  BY <1>6, Zenon DEF Harms, Says
<1>8. QED
  BY <1>2, <1>4, <1>7, EditKeepsCode DEF new

(* The screen and the QR code: the code with its dashes, and without. *)
LEMMA ShownAre ==
    ASSUME NEW secret, NEW text \in Shown(secret)
    PROVE  text = EncodeDisplay(secret) \/ text = Without(EncodeDisplay(secret), {"-"})
<1> DEFINE display == EncodeDisplay(secret)
           displays == UNION {Displays(s) : s \in ClaimScreens(display)}
           screens == (UNION {{d.tty, d.stdout} : d \in displays}) \ {NoSecret}
<1>1. PICK s \in screens : text \in {s.qr, s.text} /\ text # NoSecret
  <2>1. text \in (UNION {{s.qr, s.text} : s \in screens}) \ {NoSecret}
    BY Zenon DEF Shown
  <2> HIDE DEF screens
  <2>2. QED
    BY <2>1
<1>2. PICK d \in displays : s \in {d.tty, d.stdout} /\ s # NoSecret
  <2> HIDE DEF displays
  <2>1. QED
    BY <1>1
<1>3. PICK screen \in ClaimScreens(display) : d \in Displays(screen)
  <2> HIDE DEF display
  <2>1. QED
    BY <1>2
<1> HIDE DEF display, displays, screens
<1>4. s = screen
  <2>1. \/ d = [tty |-> screen, stdout |-> NoSecret]
        \/ d = [tty |-> NoSecret, stdout |-> screen]
        \/ d = [tty |-> screen, stdout |-> screen]
    BY <1>3, Zenon DEF Displays
  <2>2. QED
    BY <1>2, <2>1
<1>5. screen.text = display /\ (screen.qr = Without(display, {"-"}) \/ screen.qr = NoSecret)
  <2>1. screen = [qr |-> ClaimUri(display).s, text |-> display] \/ screen = [qr |-> NoSecret, text |-> display]
    BY <1>3, Zenon DEF ClaimScreens
  <2>2. ClaimUri(display).s = Without(display, {"-"})
    BY DEF ClaimUri
  <2>3. QED
    BY <2>1, <2>2
<1>6. QED
  BY <1>1, <1>4, <1>5 DEF display

(* Typed or scanned, what was shown comes down to the code. *)
LEMMA ShownCleans ==
    ASSUME NEW secret \in Secrets, NEW text \in Shown(secret)
    PROVE  text \in Seq(Characters) /\ Means(Cleaned(text), Values(secret))
<1> DEFINE raw == EncodeCrockford(secret)
           display == EncodeDisplay(secret)
<1>1. raw = Symbols(Values(secret)) /\ Values(secret) \in Seq(0 .. 31) /\ Len(Values(secret)) = 26
  BY SecretReadsBack, Zenon DEF ReadsBack
<1>2. /\ raw \in Seq(Characters) /\ Len(raw) = 26 /\ Means(raw, Values(secret))
      /\ \A i \in 1 .. 26 : raw[i] \in Letters \cup Digits
  BY <1>1, SymbolsMean, Zenon
<1>3. \A i \in 1 .. Len(raw) : raw[i] \notin Separators /\ raw[i] \notin {"-"}
  <2>1. {"-"} \subseteq Separators
    BY DEF Separators
  <2>2. QED
    BY <1>2, <2>1, NoSeparators, Zenon
<1>4. Undropped(raw, Separators) /\ Undropped(raw, {"-"})
  <2>1. "-" \in Separators /\ "-" \in {"-"}
    BY DEF Separators
  <2>2. QED
    BY <1>2, <1>3, <2>1, Zenon DEF Undropped
<1>5. Spells(display, raw, 26, Separators) /\ Spells(display, raw, 26, {"-"})
  BY <1>2, <1>4, DisplaySpells, Zenon
<1> HIDE DEF raw, display
<1>6. SubSeq(raw, 1, 26) = raw
  <2>1. SubSeq(raw, 1, Len(raw)) = raw
    BY <1>2, SubSeqFull, Zenon
  <2>2. QED
    BY <1>2, <2>1, Zenon
<1>7. display \in Seq(Characters) /\ Cleaned(display) = raw /\ Without(display, {"-"}) = raw
  BY <1>5, <1>6, Zenon DEF Spells, Cleaned
<1>8. Cleaned(raw) = raw
  BY <1>2, <1>3, WithoutNothing, Zenon DEF Cleaned
<1>9. text = display \/ text = raw
  BY <1>7, ShownAre DEF display
<1>10. QED
  BY <1>2, <1>7, <1>8, <1>9, Zenon

(* The invariant holds of whatever is shown. *)
LEMMA CodeInit == Init => CodeInv
<1> SUFFICES ASSUME Init, code # None
             PROVE  CodeKept(code)
  BY Zenon DEF CodeInv
<1>1. PICK secret \in Secrets : \E text \in Shown(secret) : code = [secret |-> secret, text |-> text, harm |-> "none"]
  BY Zenon DEF Init
<1>2. PICK text \in Shown(secret) : code = [secret |-> secret, text |-> text, harm |-> "none"]
  BY <1>1
<1>3. text \in Seq(Characters) /\ Means(Cleaned(text), Values(secret))
  BY ShownCleans
<1>4. Says(secret, Cleaned(text), "none")
  <2>1. "none" # "length" /\ "none" # "alien"
    OBVIOUS
  <2>2. QED
    BY <1>3, <2>1, Zenon DEF Says
<1>5. code.secret = secret /\ code.text = text /\ code.harm = "none"
  BY <1>2
<1>6. code \in [secret : Secrets, text : Seq(Characters), harm : Harms]
  <2>1. "none" \in Harms
    BY DEF Harms
  <2> HIDE DEF Characters, Harms
  <2>2. QED
    BY <1>2, <1>3, <2>1
<1>7. QED
  BY <1>4, <1>5, <1>6, Zenon DEF CodeKept

(* Every step keeps the invariant. *)
LEMMA CodeNext == CodeInv /\ [Next]_vars => CodeInv'
<1> SUFFICES ASSUME CodeInv, [Next]_vars
             PROVE  CodeInv'
  OBVIOUS
<1>1. ASSUME UNCHANGED code PROVE CodeInv'
  BY <1>1 DEF CodeInv, CodeKept
<1>2. CASE LowersCase
  BY <1>2, LowersCaseKeepsCode, Zenon DEF CodeInv, LowersCase
<1>3. CASE MistakesLetter
  BY <1>3, MistakesLetterKeepsCode, Zenon DEF CodeInv, MistakesLetter
<1>4. CASE Respaces
  BY <1>4, RespacesKeepsCode, Zenon DEF CodeInv, Respaces
<1>5. CASE Slips
  BY <1>5, SlipsKeepsCode, Zenon DEF CodeInv, Slips
<1>6. CASE Smudges
  BY <1>6, SmudgesKeepsCode, Zenon DEF CodeInv, Smudges
<1>7. CASE HubAddsField
  BY <1>1, <1>7, Zenon DEF HubAddsField, Rewritten
<1>8. CASE SaysParameter \/ Redirects
  BY <1>1, <1>8, Zenon DEF SaysParameter, Redirects, Rewritten
<1>9. CASE UNCHANGED vars
  BY <1>1, <1>9 DEF vars
<1>10. QED
  BY <1>2, <1>3, <1>4, <1>5, <1>6, <1>7, <1>8, <1>9, Zenon DEF Next

(***************************************************************************)
(* In every behaviour, after any number of edits, a code on its way says   *)
(* what CodeInv says: this strengthening is inductive, HarmlessEdits and   *)
(* DamageRefused are not, as neither follows the single symbols (decode in *)
(* secret.rs).                                                             *)
(***************************************************************************)
THEOREM CodeInvariance == Spec => []CodeInv
  BY CodeInit, CodeNext, PTL DEF Spec

(* The invariant says what is read. *)
LEMMA CodeInvIsRead == CodeInv => HarmlessEdits /\ DamageRefused
<1> SUFFICES ASSUME CodeInv
             PROVE  HarmlessEdits /\ DamageRefused
  OBVIOUS
<1>1. ASSUME code # None
      PROVE  /\ code.harm = "none" => Decode(code.text) = code.secret
             /\ code.harm # "none" => Decode(code.text) = NoSecret
  <2>1. CodeKept(code)
    BY <1>1, Zenon DEF CodeInv
  <2>2. /\ code.text \in Seq(Characters) /\ code.harm \in Harms /\ code.secret \in Secrets
        /\ Says(code.secret, Cleaned(code.text), code.harm)
    BY <2>1, CodeFields
  <2>3. code.harm = "none" => Decode(code.text) = code.secret
    BY <2>2, SaysIsRead
  <2>4. code.harm # "none" => code.harm \in {"length", "alien"}
    BY <2>2 DEF Harms
  <2>5. code.harm # "none" => Decode(code.text) = NoSecret
    BY <2>2, <2>4, DamageIsRead
  <2>6. QED
    BY <2>3, <2>5
<1>2. QED
  BY <1>1, Zenon DEF HarmlessEdits, DamageRefused

(***************************************************************************)
(* Harmless edits, of any number and in any order, never change what is    *)
(* read, whatever the secret (encode_display, claim_uri, decode).          *)
(***************************************************************************)
THEOREM HarmlessEditsAreRead == Spec => []HarmlessEdits
  BY CodeInvariance, CodeInvIsRead, PTL

(***************************************************************************)
(* A damaged code is never read as a secret, whatever harmless edits come  *)
(* with the damage (decode).                                               *)
(***************************************************************************)
THEOREM DamageIsRefused == Spec => []DamageRefused
  BY CodeInvariance, CodeInvIsRead, PTL

-----------------------------------------------------------------------------
(***************************************************************************)
(* The gate lets in exactly RFC 1918, ULA and link-local sources, whatever *)
(* the address (is_lan_source).                                            *)
(***************************************************************************)
THEOREM LanGateIsExact ==
    ASSUME NEW v \in Versions, NEW w \in Words
    PROVE  GateIsExact(v, w)
<1>1. w \in Int /\ 0 <= w /\ w <= 65535
  BY DEF Words
<1>2. IsLanV4(w) <=> \/ Between(w, 2560, 2815) \/ Between(w, 44048, 44063)
                     \/ w = 49320 \/ w = 43518
  <2>1. /\ Octet0(w) \in Int /\ Octet1(w) \in Int
        /\ 0 <= Octet0(w) /\ 0 <= Octet1(w) /\ Octet1(w) <= 255
        /\ w = 256 * Octet0(w) + Octet1(w)
    BY <1>1, SMT DEF Octet0, Octet1
  <2>2. Octet1(w) \in 16 .. 31 <=> 16 <= Octet1(w) /\ Octet1(w) <= 31
    BY <2>1
  <2>3. QED
    BY <1>1, <2>1, <2>2, SMT DEF IsLanV4, Between
<1>3. IsLanV6(w) <=> Between(w, 64512, 65023) \/ Between(w, 65152, 65215)
  <2>1. w - (w % 512) = 64512 <=> Between(w, 64512, 65023)
    BY <1>1, SMT DEF Between
  <2>2. w - (w % 64) = 65152 <=> Between(w, 65152, 65215)
    BY <1>1, SMT DEF Between
  <2>3. QED
    BY <2>1, <2>2 DEF IsLanV6
<1>4. QED
  BY <1>2, <1>3 DEF Versions, GateIsExact, IsLanSource, InLanBlock

(* An address that arrives is one of 16-bit words, of either version. *)
LEMMA SourceInit == Init => (source # None => source \in [v : Versions, word : Words16])
  BY Zenon DEF Init

(***************************************************************************)
(* The gate of the model passes exactly the LAN blocks, whatever 16 bits   *)
(* the sources begin with (require_lan_source, is_lan_source).             *)
(***************************************************************************)
THEOREM GatePassesBlocks == Spec => []GateMatchesBlocks
<1> DEFINE SourceInv == source # None => source \in [v : Versions, word : Words16]
<1>1. Init => SourceInv
  BY SourceInit
<1>2. SourceInv /\ [Next]_vars => SourceInv'
  <2>1. [Next]_vars => UNCHANGED source
    BY Zenon DEF Next, vars, LowersCase, MistakesLetter, Respaces, Slips, Smudges, Edited,
                 HubAddsField, SaysParameter, Redirects, Rewritten
  <2>2. QED
    BY <2>1
<1>3. SourceInv => GateMatchesBlocks
  <2> SUFFICES ASSUME source # None, source \in [v : Versions, word : Words16]
               PROVE  GateIsExact(source.v, source.word)
    BY Zenon DEF GateMatchesBlocks
  <2>1. source.v \in Versions /\ source.word \in Words16
    OBVIOUS
  <2>2. source.word \in Words
    BY <2>1, InputsAssumption DEF InputsAssumption
  <2>3. QED
    BY <2>1, <2>2, LanGateIsExact
<1>4. QED
  BY <1>1, <1>2, <1>3, PTL DEF Spec

-----------------------------------------------------------------------------
(***************************************************************************)
(* The hub's words.  A text is put together from the escapes of its        *)
(* characters; whatever has been put together so far, and does not end in  *)
(* the beginning of an escape, is decoded the same when more follows.      *)
(* Hence decoding undoes encoding.  Queries are taken apart the same way:  *)
(* the pieces of two texts joined by an ampersand are those of both.       *)
(***************************************************************************)

(* What texts of a payload are made of. *)
Tokens == Unreserved \cup Reserved \cup {"session", "endpoint", "hint", " "}

(* The digits of the escapes. *)
Hexes == {"2", "3", "5", "6", "A", "B", "D", "F"}

(* An escape is a percent sign and two digits. *)
LEMMA EscapeIs ==
    ASSUME NEW c \in Reserved
    PROVE  \E h \in Hexes, k \in Hexes : Escape(c) = <<"%", h, k>>
<1>1. CASE c = ":"
  BY <1>1 DEF Escape, Hexes
<1>2. CASE c = "/"
  BY <1>2 DEF Escape, Hexes
<1>3. CASE c = "&"
  BY <1>3 DEF Escape, Hexes
<1>4. CASE c = "="
  BY <1>4 DEF Escape, Hexes
<1>5. CASE c = "%"
  BY <1>5 DEF Escape, Hexes
<1>6. CASE c = "+"
  BY <1>6 DEF Escape, Hexes
<1>7. CASE c = "?"
  BY <1>7 DEF Escape, Hexes
<1>8. QED
  BY <1>1, <1>2, <1>3, <1>4, <1>5, <1>6, <1>7 DEF Reserved

(* No two characters have the same escape. *)
LEMMA EscapesApart ==
    ASSUME NEW c \in Reserved, NEW d \in Reserved, Escape(c) = Escape(d)
    PROVE  c = d
<1> DEFINE E2 == [x \in Reserved |-> Escape(x)[2]]
           E3 == [x \in Reserved |-> Escape(x)[3]]
<1>1. /\ Escape(":") = <<"%", "3", "A">> /\ Escape("/") = <<"%", "2", "F">>
      /\ Escape("&") = <<"%", "2", "6">> /\ Escape("=") = <<"%", "3", "D">>
      /\ Escape("%") = <<"%", "2", "5">> /\ Escape("+") = <<"%", "2", "B">>
      /\ Escape("?") = <<"%", "3", "F">>
  BY DEF Escape
<1>2. QED
  BY <1>1 DEF Reserved

(* Every other character stands for itself. *)
LEMMA EscapeOther ==
    ASSUME NEW c, c \notin Reserved
    PROVE  Escape(c) = <<c>>
  BY DEF Escape, Reserved

(* A digit of an escape is a plain character. *)
LEMMA HexesPlain ==
    ASSUME NEW h \in Hexes
    PROVE  h \in Tokens /\ h # "%" /\ h # "&"
<1>1. Hexes \subseteq Unreserved
  <2>1. \A c \in {"2", "3", "5", "6", "A", "B", "D", "F"} : c \in Unreserved
    BY Zenon DEF Unreserved
  <2>2. QED
    BY <2>1, Zenon DEF Hexes
<1>2. h # "%" /\ h # "&"
  BY DEF Hexes
<1>3. QED
  BY <1>1, <1>2 DEF Tokens

(* An unreserved character is none of the reserved. *)
LEMMA UnreservedPlain ==
    ASSUME NEW c \in Unreserved
    PROVE  c \notin Reserved
  BY DEF Unreserved, Reserved

-----------------------------------------------------------------------------
(* FlattenSeq of a row of texts, and of the first of them, one by one. *)
Flattens(flat, seqs) ==
    /\ flat[1] = <<>>
    /\ \A i \in 1 .. Len(seqs) : flat[i + 1] = flat[i] \o seqs[i]
    /\ FlattenSeq(seqs) = flat[Len(seqs) + 1]

(* FlattenSeq, by the recursion that defines it. *)
LEMMA FlattenSteps ==
    ASSUME NEW C, NEW seqs \in Seq(Seq(C))
    PROVE  \E flat \in [1 .. Len(seqs) + 1 -> Seq(C)] : Flattens(flat, seqs)
<1> DEFINE n == Len(seqs)
           Step == {u \in (1 .. n) \X Seq(C) \X Seq(C) : u[3] = u[2] \o seqs[u[1]]}
           Flat(f) == f = [i \in 1 .. n |-> IF i = 1 THEN seqs[i] ELSE f[i - 1] \o seqs[i]]
<1>1. n \in Nat /\ <<>> \in Seq(C) /\ \A i \in 1 .. n : seqs[i] \in Seq(C)
  OBVIOUS
<1>2. \A i \in 1 .. n, s \in Seq(C) : s \o seqs[i] \in Seq(C)
  BY <1>1, ConcatProperties
<1>3. \A i \in 1 .. n, s \in Seq(C), t \in Seq(C) : <<i, s, t>> \in Step <=> t = s \o seqs[i]
  <2> HIDE DEF n
  <2>1. QED
    OBVIOUS
<1>4. PICK g \in [1 .. n + 1 -> Seq(C)] : Iterates(g, n, <<>>, Step)
  <2>1. Total(n, Seq(C), Step)
    <3> HIDE DEF n, Step
    <3>1. QED
      BY <1>2, <1>3 DEF Total
  <2> HIDE DEF n, Step
  <2>2. QED
    BY <1>1, <2>1, IteratesExist
<1>5. /\ g[1] = <<>>
      /\ \A i \in 1 .. n : g[i + 1] = g[i] \o seqs[i]
  <2> HIDE DEF n, Step
  <2>1. g[1] = <<>> /\ \A i \in 1 .. n : <<i, g[i], g[i + 1]>> \in Step
    BY <1>4 DEF Iterates
  <2>2. \A i \in 1 .. n : i \in 1 .. n + 1 /\ i + 1 \in 1 .. n + 1
    BY <1>1
  <2>3. \A i \in 1 .. n : g[i] \in Seq(C) /\ g[i + 1] \in Seq(C)
    BY <2>2, Zenon
  <2>4. QED
    BY <1>3, <2>1, <2>3, Zenon
<1>6. CASE n = 0
  <2>1. FlattenSeq(seqs) = seqs /\ seqs = <<>>
    BY <1>6 DEF FlattenSeq
  <2>2. g[n + 1] = <<>>
    BY <1>5, <1>6
  <2>3. QED
    BY <1>5, <2>1, <2>2, Zenon DEF Flattens
<1>7. CASE n # 0
  <2> DEFINE f == [i \in 1 .. n |-> g[i + 1]]
             flat == CHOOSE h : Flat(h)
  <2>1. n \in 1 .. n /\ 1 \in 1 .. n
    BY <1>1, <1>7
  <2>2. Flat(f)
    <3> DEFINE Value(i) == IF i = 1 THEN seqs[i] ELSE f[i - 1] \o seqs[i]
    <3>1. \A i \in 1 .. n : f[i] = Value(i)
      <4> TAKE i \in 1 .. n
      <4>1. f[i] = g[i] \o seqs[i]
        BY <1>5
      <4>2. CASE i = 1
        <5>1. <<>> \o seqs[i] = seqs[i]
          BY <1>1, ConcatEmptySeq
        <5>2. QED
          BY <1>5, <4>1, <4>2, <5>1
      <4>3. CASE i # 1
        <5>1. i - 1 \in 1 .. n /\ (i - 1) + 1 = i
          BY <1>1, <4>3
        <5>2. f[i - 1] = g[i]
          BY <5>1
        <5>3. QED
          BY <4>1, <4>3, <5>2
      <4>4. QED
        BY <4>2, <4>3
    <3>2. f = [i \in 1 .. n |-> Value(i)]
      <4>1. f = [i \in 1 .. n |-> f[i]]
        OBVIOUS
      <4> HIDE DEF n, Value, f
      <4>2. QED
        BY <3>1, <4>1
    <3>3. QED
      BY <3>2, Zenon
  <2>3. FlattenSeq(seqs) = flat[n]
    BY <1>7, Zenon DEF FlattenSeq
  <2>4. Flat(flat)
    <3> HIDE DEF Flat
    <3>1. QED
      BY <2>2, Zenon
  <2> HIDE DEF flat, f
  <2>5. \A i \in 1 .. n : flat[i] = IF i = 1 THEN seqs[i] ELSE flat[i - 1] \o seqs[i]
    <3> HIDE DEF n
    <3>1. QED
      BY <2>4, Zenon
  <2>6. \A i \in 0 .. n : i # 0 => flat[i] = g[i + 1]
    <3> DEFINE S == {i \in 0 .. n : i # 0 => flat[i] = g[i + 1]}
    <3>1. 0 \in S
      BY <1>1
    <3>2. ASSUME NEW i \in 1 .. n, i - 1 \in S
          PROVE  i \in S
      <4>1. i \in 0 .. n /\ g[i + 1] = g[i] \o seqs[i]
        <5>1. i \in 0 .. n
          BY <1>1
        <5>2. QED
          BY <1>5, <5>1, Zenon
      <4>2. CASE i = 1
        <5>1. <<>> \o seqs[i] = seqs[i]
          BY <1>1, ConcatEmptySeq
        <5>2. flat[i] = seqs[i]
          BY <2>5, <4>2
        <5>3. QED
          BY <1>5, <4>1, <4>2, <5>1, <5>2
      <4>3. CASE i # 1
        <5>1. i - 1 # 0 /\ (i - 1) + 1 = i
          BY <4>3
        <5>2. flat[i - 1] = g[i]
          BY <3>2, <5>1
        <5>3. flat[i] = flat[i - 1] \o seqs[i]
          BY <2>5, <4>3
        <5>4. QED
          BY <4>1, <5>2, <5>3
      <4>4. QED
        BY <4>2, <4>3
    <3> HIDE DEF S
    <3>3. \A i \in 0 .. n : i \in S
      BY <1>1, <3>1, <3>2, InductionUpTo
    <3>4. QED
      BY <3>3 DEF S
  <2>7. flat[n] = g[n + 1]
    <3>1. n \in 0 .. n
      BY <1>1
    <3> HIDE DEF n
    <3>2. QED
      BY <1>7, <2>6, <3>1, Zenon
  <2>8. QED
    BY <1>5, <2>3, <2>7, Zenon DEF Flattens
<1>8. QED
  BY <1>6, <1>7

(* A sequence of sequences that grows by one. *)
LEMMA FlattenAppend ==
    ASSUME NEW C, NEW seqs \in Seq(Seq(C)), NEW s \in Seq(C)
    PROVE  FlattenSeq(Append(seqs, s)) = FlattenSeq(seqs) \o s
<1> DEFINE n == Len(seqs)
           longer == Append(seqs, s)
<1>1. /\ n \in Nat /\ longer \in Seq(Seq(C)) /\ Len(longer) = n + 1 /\ longer[n + 1] = s
      /\ \A i \in 1 .. n : longer[i] = seqs[i]
  OBVIOUS
<1> HIDE DEF longer
<1>2. PICK f \in [1 .. n + 1 -> Seq(C)] : Flattens(f, seqs)
  BY FlattenSteps
<1>3. PICK g \in [1 .. n + 1 + 1 -> Seq(C)] : Flattens(g, longer)
  BY <1>1, FlattenSteps
<1>4. \A i \in 0 .. n : f[i + 1] = g[i + 1]
  <2> DEFINE S == {i \in 0 .. n : f[i + 1] = g[i + 1]}
  <2>1. 0 \in S
    <3>1. 0 \in 0 .. n /\ f[0 + 1] = g[0 + 1]
      BY <1>1, <1>2, <1>3 DEF Flattens
    <3>2. QED
      BY <3>1
  <2>2. ASSUME NEW i \in 1 .. n, i - 1 \in S
        PROVE  i \in S
    <3>1. f[i] = g[i] /\ i \in 1 .. n + 1 /\ i \in 0 .. n
      BY <1>1, <2>2
    <3>2. f[i + 1] = g[i + 1]
      BY <1>1, <1>2, <1>3, <3>1 DEF Flattens
    <3>3. QED
      BY <3>1, <3>2
  <2>3. \A i \in 0 .. n : i \in S
    <3> HIDE DEF S
    <3>1. QED
      BY <1>1, <2>1, <2>2, InductionUpTo
  <2>4. QED
    BY <2>3
<1>5. n \in 0 .. n /\ n + 1 \in 1 .. n + 1
  BY <1>1
<1>6. g[n + 1 + 1] = g[n + 1] \o s
  BY <1>1, <1>3, <1>5 DEF Flattens
<1>7. FlattenSeq(seqs) = f[n + 1] /\ FlattenSeq(longer) = g[n + 1 + 1]
  BY <1>1, <1>2, <1>3, Zenon DEF Flattens
<1>8. QED
  BY <1>4, <1>5, <1>6, <1>7 DEF longer

(* Texts of a set put together are a text of it. *)
LEMMA FlattenType ==
    ASSUME NEW C, NEW seqs \in Seq(Seq(C))
    PROVE  FlattenSeq(seqs) \in Seq(C)
<1>1. PICK f \in [1 .. Len(seqs) + 1 -> Seq(C)] : Flattens(f, seqs)
  BY FlattenSteps
<1>2. Len(seqs) + 1 \in 1 .. Len(seqs) + 1
  OBVIOUS
<1>3. QED
  BY <1>1, <1>2 DEF Flattens

(* Where the three characters of an escape are. *)
LEMMA EscapedWhere ==
    ASSUME NEW text \in Seq(Tokens), NEW c \in Reserved, NEW i \in 1 .. Len(text) - 2
    PROVE  SubSeq(text, i, i + 2) = Escape(c) <=>
              text[i] = Escape(c)[1] /\ text[i + 1] = Escape(c)[2] /\ text[i + 2] = Escape(c)[3]
<1>1. PICK h \in Hexes, k \in Hexes : Escape(c) = <<"%", h, k>>
  BY EscapeIs
<1>2. h \in Tokens /\ k \in Tokens
  BY HexesPlain
<1> DEFINE sub == SubSeq(text, i, i + 2)
<1>3. i \in Int /\ i + 2 \in Int /\ \A j \in i .. i + 2 : text[j] \in Tokens
  <2>1. Len(text) \in Nat
    OBVIOUS
  <2>2. \A j \in i .. i + 2 : j \in 1 .. Len(text)
    BY <2>1
  <2>3. QED
    BY <2>1, <2>2, ElementOfSeq
<1>4. /\ sub \in Seq(Tokens)
      /\ Len(sub) = IF i <= i + 2 THEN i + 2 - i + 1 ELSE 0
      /\ \A j \in 1 .. i + 2 - i + 1 : sub[j] = text[i + j - 1]
  BY <1>3, SubSeqProperties
<1>5. /\ Len(sub) = 3
      /\ sub[1] = text[i] /\ sub[2] = text[i + 1] /\ sub[3] = text[i + 2]
  BY <1>4
<1> HIDE DEF sub
<1> DEFINE e == <<"%", h, k>>
<1>6. Len(e) = 3 /\ e[1] = "%" /\ e[2] = h /\ e[3] = k /\ e = [j \in 1 .. 3 |-> e[j]]
  OBVIOUS
<1>7. sub = [j \in 1 .. 3 |-> sub[j]]
  BY <1>4, <1>5
<1> HIDE DEF e
<1>8. ASSUME sub[1] = e[1], sub[2] = e[2], sub[3] = e[3]
      PROVE  sub = e
  <2>1. \A j \in 1 .. 3 : sub[j] = e[j]
    BY <1>8
  <2>2. QED
    BY <1>6, <1>7, <2>1
<1>9. sub = e <=> sub[1] = e[1] /\ sub[2] = e[2] /\ sub[3] = e[3]
  BY <1>8
<1>10. QED
  BY <1>1, <1>5, <1>9 DEF sub, e

(* Escapes begin with a percent sign, and none reaches over the end. *)
LEMMA NoEscape ==
    ASSUME NEW text \in Seq(Tokens), NEW i,
           i \in 1 .. Len(text) - 2 => text[i] # "%"
    PROVE  EscapedAt(text, i) = {}
<1> SUFFICES ASSUME NEW c \in Reserved, i \in 1 .. Len(text) - 2,
                    SubSeq(text, i, i + 2) = Escape(c)
             PROVE  FALSE
    BY Zenon DEF EscapedAt
<1>1. PICK h \in Hexes, k \in Hexes : Escape(c) = <<"%", h, k>>
  BY EscapeIs
<1>2. text[i] = Escape(c)[1]
  BY EscapedWhere
<1>3. QED
  BY <1>1, <1>2

(* The escape of a character is no other's. *)
LEMMA EscapeThere ==
    ASSUME NEW text \in Seq(Tokens), NEW c \in Reserved, NEW i \in 1 .. Len(text) - 2,
           SubSeq(text, i, i + 2) = Escape(c)
    PROVE  EscapedAt(text, i) = {c}
<1>1. \A d \in EscapedAt(text, i) : d \in Reserved /\ Escape(d) = Escape(c)
  BY Zenon DEF EscapedAt
<1>2. \A d \in EscapedAt(text, i) : d = c
  BY <1>1, EscapesApart
<1>3. c \in EscapedAt(text, i)
  BY Zenon DEF EscapedAt
<1>4. QED
  BY <1>2, <1>3

-----------------------------------------------------------------------------
(* No escape is begun in the last two characters. *)
Whole(text) == \A i \in 1 .. Len(text) : i >= Len(text) - 1 => text[i] # "%"

(* What is at the places of a text does not depend on what comes after it. *)
LEMMA EscapedBefore ==
    ASSUME NEW a \in Seq(Tokens), NEW u \in Seq(Tokens), Whole(a), NEW i \in Int, i <= Len(a)
    PROVE  EscapedAt(a \o u, i) = EscapedAt(a, i)
<1> DEFINE au == a \o u
<1>1. /\ au \in Seq(Tokens) /\ Len(au) = Len(a) + Len(u) /\ Len(a) \in Nat /\ Len(u) \in Nat
      /\ \A j \in 1 .. Len(a) : au[j] = a[j]
  OBVIOUS
<1> HIDE DEF au
<1>2. CASE i \in 1 .. Len(a) - 2
  <2>1. i \in 1 .. Len(au) - 2 /\ i \in 1 .. Len(a) /\ i + 1 \in 1 .. Len(a) /\ i + 2 \in 1 .. Len(a)
    BY <1>1, <1>2
  <2>2. au[i] = a[i] /\ au[i + 1] = a[i + 1] /\ au[i + 2] = a[i + 2]
    BY <1>1, <2>1
  <2>3. \A c \in Reserved : SubSeq(au, i, i + 2) = Escape(c) <=> SubSeq(a, i, i + 2) = Escape(c)
    <3> TAKE c \in Reserved
    <3> DEFINE At(text) == /\ text[i] = Escape(c)[1] /\ text[i + 1] = Escape(c)[2]
                           /\ text[i + 2] = Escape(c)[3]
    <3>1. SubSeq(au, i, i + 2) = Escape(c) <=> At(au)
      BY <1>1, <2>1, EscapedWhere
    <3>2. SubSeq(a, i, i + 2) = Escape(c) <=> At(a)
      BY <1>2, EscapedWhere
    <3>3. At(au) <=> At(a)
      BY <2>2
    <3>4. QED
      BY <3>1, <3>2, <3>3
  <2>4. \A c : c \in EscapedAt(au, i) <=> c \in EscapedAt(a, i)
    BY <1>2, <2>1, <2>3, Zenon DEF EscapedAt
  <2>5. EscapedAt(au, i) = EscapedAt(a, i)
    BY <2>4
  <2>6. QED
    BY <2>5 DEF au
<1>3. CASE i \notin 1 .. Len(a) - 2
  <2>1. EscapedAt(a, i) = {}
    BY <1>3, NoEscape
  <2>2. i \in 1 .. Len(au) - 2 => i \in 1 .. Len(a) /\ i >= Len(a) - 1
    BY <1>1, <1>3
  <2>3. i \in 1 .. Len(au) - 2 => au[i] # "%"
    BY <1>1, <2>2 DEF Whole
  <2>4. EscapedAt(au, i) = {}
    BY <1>1, <2>3, NoEscape
  <2>5. QED
    BY <2>1, <2>4 DEF au
<1>4. QED
  BY <1>2, <1>3

(* What each place of a text is decoded to. *)
DecodedRow(text) == [i \in DOMAIN text |-> DecodedAt(text, i)]

(* What such a text is decoded to, place by place, is the same when more follows. *)
LEMMA DecodedBefore ==
    ASSUME NEW a \in Seq(Tokens), NEW u \in Seq(Tokens), Whole(a), NEW i \in 1 .. Len(a)
    PROVE  DecodedAt(a \o u, i) = DecodedAt(a, i)
<1>1. i \in Int /\ i - 1 \in Int /\ i - 2 \in Int /\ i <= Len(a) /\ i - 1 <= Len(a) /\ i - 2 <= Len(a)
  BY LenProperties
<1>2. /\ EscapedAt(a \o u, i) = EscapedAt(a, i)
      /\ EscapedAt(a \o u, i - 1) = EscapedAt(a, i - 1)
      /\ EscapedAt(a \o u, i - 2) = EscapedAt(a, i - 2)
  BY <1>1, EscapedBefore
<1>3. (a \o u)[i] = a[i]
  OBVIOUS
<1> DEFINE Read(here, before, second, c) ==
               IF here # {} THEN <<CHOOSE x \in here : TRUE>>
               ELSE IF before # {} \/ second # {} THEN <<>>
               ELSE <<IF c = "+" THEN " " ELSE c>>
<1>4. \A t : DecodedAt(t, i) = Read(EscapedAt(t, i), EscapedAt(t, i - 1), EscapedAt(t, i - 2), t[i])
  BY Zenon DEF DecodedAt
<1> HIDE DEF Read
<1>5. QED
  BY <1>2, <1>3, <1>4

(* Each place of a text gives one token or none. *)
LEMMA DecodedRowType ==
    ASSUME NEW text \in Seq(Tokens)
    PROVE  DecodedRow(text) \in Seq(Seq(Tokens)) /\ Len(DecodedRow(text)) = Len(text)
<1>1. \A i \in 1 .. Len(text) : DecodedAt(text, i) \in Seq(Tokens)
  <2> TAKE i \in 1 .. Len(text)
  <2>1. \A c \in Tokens : <<c>> \in Seq(Tokens)
    OBVIOUS
  <2>2. <<>> \in Seq(Tokens)
    OBVIOUS
  <2>3. text[i] \in Tokens /\ " " \in Tokens
    BY ElementOfSeq DEF Tokens
  <2>4. EscapedAt(text, i) # {} => (CHOOSE c \in EscapedAt(text, i) : TRUE) \in Tokens
    <3>1. EscapedAt(text, i) \subseteq Tokens
      BY Zenon DEF EscapedAt, Tokens
    <3>2. QED
      BY <3>1
  <2>5. (IF text[i] = "+" THEN " " ELSE text[i]) \in Tokens
    BY <2>3
  <2>6. QED
    BY <2>1, <2>2, <2>4, <2>5, Zenon DEF DecodedAt
<1>2. DOMAIN text = 1 .. Len(text) /\ Len(text) \in Nat
  BY LenProperties
<1>3. DecodedRow(text) \in [1 .. Len(text) -> Seq(Tokens)]
  BY <1>1, <1>2 DEF DecodedRow
<1>4. QED
  BY <1>2, <1>3

(* The first place of an escape gives the character. *)
LEMMA DecodedFirst ==
    ASSUME NEW text, NEW i, NEW c, EscapedAt(text, i) = {c}
    PROVE  DecodedAt(text, i) = <<c>>
<1>1. {c} # {} /\ (CHOOSE x \in {c} : TRUE) = c
  OBVIOUS
<1>2. QED
  BY <1>1, Zenon DEF DecodedAt

(* The two digits of it give nothing. *)
LEMMA DecodedDigit ==
    ASSUME NEW text, NEW i, EscapedAt(text, i) = {},
           EscapedAt(text, i - 1) # {} \/ EscapedAt(text, i - 2) # {}
    PROVE  DecodedAt(text, i) = <<>>
  BY Zenon DEF DecodedAt

(* A place outside of escapes gives the character there. *)
LEMMA DecodedSelf ==
    ASSUME NEW text, NEW i, EscapedAt(text, i) = {}, EscapedAt(text, i - 1) = {},
           EscapedAt(text, i - 2) = {}, text[i] # "+"
    PROVE  DecodedAt(text, i) = <<text[i]>>
  BY Zenon DEF DecodedAt

(* Decoding is putting the row together. *)
LEMMA DecodedIs ==
    ASSUME NEW text \in Seq(Tokens)
    PROVE  Decoded(text) = FlattenSeq(DecodedRow(text)) /\ Decoded(text) \in Seq(Tokens)
<1>1. Decoded(text) = FlattenSeq(DecodedRow(text))
  BY Zenon DEF Decoded, DecodedRow
<1>2. QED
  BY <1>1, DecodedRowType, FlattenType

(* The row of a text that goes on. *)
LEMMA DecodedRowBefore ==
    ASSUME NEW a \in Seq(Tokens), NEW u \in Seq(Tokens), Whole(a)
    PROVE  /\ DecodedRow(a \o u) \in Seq(Seq(Tokens)) /\ DecodedRow(a) \in Seq(Seq(Tokens))
           /\ Len(DecodedRow(a)) = Len(a) /\ Len(DecodedRow(a \o u)) = Len(a) + Len(u)
           /\ \A i \in 1 .. Len(a) : DecodedRow(a \o u)[i] = DecodedRow(a)[i]
           /\ \A i \in 1 .. Len(a) + Len(u) : DecodedRow(a \o u)[i] = DecodedAt(a \o u, i)
<1>1. /\ a \o u \in Seq(Tokens) /\ Len(a \o u) = Len(a) + Len(u)
      /\ DOMAIN a = 1 .. Len(a) /\ DOMAIN (a \o u) = 1 .. Len(a \o u)
  OBVIOUS
<1>2. /\ DecodedRow(a \o u) \in Seq(Seq(Tokens)) /\ DecodedRow(a) \in Seq(Seq(Tokens))
      /\ Len(DecodedRow(a)) = Len(a) /\ Len(DecodedRow(a \o u)) = Len(a) + Len(u)
  BY <1>1, DecodedRowType
<1>3. \A i \in 1 .. Len(a) + Len(u) : DecodedRow(a \o u)[i] = DecodedAt(a \o u, i)
  BY <1>1, Zenon DEF DecodedRow
<1>4. \A i \in 1 .. Len(a) : DecodedRow(a)[i] = DecodedAt(a, i)
  BY <1>1, Zenon DEF DecodedRow
<1>5. \A i \in 1 .. Len(a) : i \in 1 .. Len(a) + Len(u)
  BY LenProperties
<1>6. \A i \in 1 .. Len(a) : DecodedRow(a \o u)[i] = DecodedRow(a)[i]
  BY <1>3, <1>4, <1>5, DecodedBefore
<1>7. QED
  BY <1>2, <1>3, <1>6

(* A plain character is read as itself. *)
LEMMA DecodedPlain ==
    ASSUME NEW a \in Seq(Tokens), Whole(a), NEW c \in Tokens \ Reserved
    PROVE  /\ Decoded(a \o <<c>>) = Decoded(a) \o <<c>>
           /\ Whole(a \o <<c>>)
<1> DEFINE n == Len(a)
           au == a \o <<c>>
<1>1. /\ n \in Nat /\ au \in Seq(Tokens) /\ Len(au) = n + 1 /\ au[n + 1] = c
      /\ \A i \in 1 .. n : au[i] = a[i]
      /\ <<c>> \in Seq(Tokens) /\ Len(<<c>>) = 1
  OBVIOUS
<1>2. c # "%" /\ c # "+"
  BY DEF Reserved
<1> HIDE DEF au
<1>3. Whole(au)
  BY <1>1, <1>2 DEF Whole
<1>4. EscapedAt(au, n + 1) = {} /\ EscapedAt(au, n + 1 - 1) = {} /\ EscapedAt(au, n + 1 - 2) = {}
  <2>1. n + 1 - 2 \in 1 .. Len(au) - 2 => n + 1 - 2 \in 1 .. n /\ n + 1 - 2 >= n - 1
    BY <1>1
  <2>2. n + 1 - 2 \in 1 .. Len(au) - 2 => au[n + 1 - 2] # "%"
    BY <1>1, <2>1 DEF Whole
  <2>3. n + 1 \notin 1 .. Len(au) - 2 /\ n + 1 - 1 \notin 1 .. Len(au) - 2
    BY <1>1
  <2>4. QED
    BY <1>1, <2>2, <2>3, NoEscape
<1>5. DecodedAt(au, n + 1) = <<c>>
  BY <1>1, <1>2, <1>4, DecodedSelf
<1> DEFINE row == DecodedRow(a)
           new == DecodedRow(au)
<1>6. /\ new \in Seq(Seq(Tokens)) /\ row \in Seq(Seq(Tokens)) /\ Len(row) = n /\ Len(new) = n + 1
      /\ \A i \in 1 .. n : new[i] = row[i]
      /\ new[n + 1] = <<c>>
  <2>1. n + 1 \in 1 .. n + 1
    BY <1>1
  <2>2. QED
    BY <1>1, <1>5, <2>1, DecodedRowBefore DEF au
<1> HIDE DEF row, new
<1>7. new = Append(row, <<c>>)
  <2>1. \A i \in 1 .. n + 1 : i # n + 1 => i \in 1 .. n
    BY <1>1
  <2>2. /\ Append(row, <<c>>) \in Seq(Seq(Tokens)) /\ Len(Append(row, <<c>>)) = n + 1
        /\ \A i \in 1 .. n : Append(row, <<c>>)[i] = row[i]
        /\ Append(row, <<c>>)[n + 1] = <<c>>
    BY <1>1, <1>6, AppendProperties
  <2>3. \A i \in 1 .. n + 1 : new[i] = Append(row, <<c>>)[i]
    BY <1>6, <2>1, <2>2
  <2>4. QED
    BY <1>6, <2>2, <2>3, SeqEqual
<1>8. FlattenSeq(new) = FlattenSeq(row) \o <<c>>
  BY <1>1, <1>6, <1>7, FlattenAppend
<1>9. Decoded(au) = Decoded(a) \o <<c>>
  BY <1>1, <1>8, DecodedIs DEF new, row
<1>10. QED
  BY <1>3, <1>9 DEF au

(* An escape is read as the character. *)
LEMMA DecodedEscape ==
    ASSUME NEW a \in Seq(Tokens), Whole(a), NEW c \in Reserved
    PROVE  /\ Decoded(a \o Escape(c)) = Decoded(a) \o <<c>>
           /\ Whole(a \o Escape(c))
<1>1. PICK h \in Hexes, k \in Hexes : Escape(c) = <<"%", h, k>>
  BY EscapeIs
<1>2. /\ h \in Tokens /\ k \in Tokens /\ h # "%" /\ k # "%"
      /\ "%" \in Tokens /\ c \in Tokens
  <2>1. "%" \in Reserved
    BY DEF Reserved
  <2>2. QED
    BY <2>1, HexesPlain DEF Tokens
<1> DEFINE n == Len(a)
           u == <<"%", h, k>>
           au == a \o u
<1>3. u \in Seq(Tokens) /\ Len(u) = 3 /\ u[1] = "%" /\ u[2] = h /\ u[3] = k
  BY <1>2
<1>4. /\ n \in Nat /\ au \in Seq(Tokens) /\ Len(au) = n + 3
      /\ au[n + 1] = "%" /\ au[n + 2] = h /\ au[n + 3] = k
      /\ \A i \in 1 .. n : au[i] = a[i]
  <2> HIDE DEF u
  <2>1. /\ n \in Nat /\ au \in Seq(Tokens) /\ Len(au) = n + 3
        /\ \A i \in 1 .. n + 3 : au[i] = IF i <= n THEN a[i] ELSE u[i - n]
    <3>1. n \in Nat
      BY LenProperties
    <3>2. /\ au \in Seq(Tokens) /\ Len(au) = n + Len(u)
          /\ \A i \in 1 .. n + Len(u) : au[i] = IF i <= n THEN a[i] ELSE u[i - n]
      BY <1>3, ConcatProperties, Zenon
    <3> HIDE DEF n, au
    <3>3. QED
      BY <1>3, <3>1, <3>2
  <2> HIDE DEF au, n
  <2>2. /\ n + 1 \in 1 .. n + 3 /\ ~ (n + 1 <= n) /\ n + 1 - n = 1
        /\ n + 2 \in 1 .. n + 3 /\ ~ (n + 2 <= n) /\ n + 2 - n = 2
        /\ n + 3 \in 1 .. n + 3 /\ ~ (n + 3 <= n) /\ n + 3 - n = 3
        /\ \A i \in 1 .. n : i \in 1 .. n + 3 /\ i <= n
    BY <2>1
  <2>3. QED
    BY <1>3, <2>1, <2>2
<1> HIDE DEF au, u
<1>5. Whole(au)
  <2>1. \A i \in 1 .. n + 3 : i >= n + 3 - 1 => i = n + 2 \/ i = n + 3
    BY <1>4
  <2>2. QED
    BY <1>2, <1>4, <2>1 DEF Whole
<1>6. EscapedAt(au, n + 1) = {c}
  <2>1. n + 1 \in 1 .. Len(au) - 2 /\ n + 1 + 1 = n + 2 /\ n + 1 + 2 = n + 3
    BY <1>4
  <2>2. Escape(c) = u
    BY <1>1 DEF u
  <2>3. SubSeq(au, n + 1, n + 1 + 2) = Escape(c)
    BY <1>3, <1>4, <2>1, <2>2, EscapedWhere
  <2>4. QED
    BY <1>4, <2>1, <2>3, EscapeThere
<1>7. EscapedAt(au, n + 2) = {} /\ EscapedAt(au, n + 3) = {}
  <2>1. n + 2 \notin 1 .. Len(au) - 2 /\ n + 3 \notin 1 .. Len(au) - 2
    BY <1>4
  <2>2. QED
    BY <1>4, <2>1, NoEscape
<1>8. DecodedAt(au, n + 1) = <<c>> /\ DecodedAt(au, n + 2) = <<>> /\ DecodedAt(au, n + 3) = <<>>
  <2>1. n + 2 - 1 = n + 1 /\ n + 3 - 2 = n + 1 /\ n + 3 - 1 = n + 2
    BY <1>4
  <2>2. {c} # {}
    OBVIOUS
  <2>3. DecodedAt(au, n + 1) = <<c>>
    BY <1>6, DecodedFirst
  <2>4. DecodedAt(au, n + 2) = <<>>
    <3>1. EscapedAt(au, n + 2 - 1) # {}
      BY <1>6, <2>1, <2>2
    <3>2. QED
      BY <1>7, <3>1, DecodedDigit
  <2>5. DecodedAt(au, n + 3) = <<>>
    <3>1. EscapedAt(au, n + 3 - 2) # {}
      BY <1>6, <2>1, <2>2
    <3>2. QED
      BY <1>7, <3>1, DecodedDigit
  <2>6. QED
    BY <2>3, <2>4, <2>5
<1> DEFINE row == DecodedRow(a)
           new == DecodedRow(au)
           r1 == Append(row, <<c>>)
           r2 == Append(r1, <<>>)
           r3 == Append(r2, <<>>)
<1>9. /\ new \in Seq(Seq(Tokens)) /\ row \in Seq(Seq(Tokens)) /\ Len(row) = n /\ Len(new) = n + 3
      /\ \A i \in 1 .. n : new[i] = row[i]
      /\ new[n + 1] = <<c>> /\ new[n + 2] = <<>> /\ new[n + 3] = <<>>
  <2>1. n + 1 \in 1 .. n + 3 /\ n + 2 \in 1 .. n + 3 /\ n + 3 \in 1 .. n + 3
    BY <1>4
  <2>2. /\ new \in Seq(Seq(Tokens)) /\ row \in Seq(Seq(Tokens))
        /\ Len(row) = n /\ Len(new) = n + Len(u)
        /\ \A i \in 1 .. n : new[i] = row[i]
        /\ \A i \in 1 .. n + Len(u) : new[i] = DecodedAt(au, i)
    BY <1>3, DecodedRowBefore, Zenon DEF au
  <2> HIDE DEF row, new
  <2>3. QED
    BY <1>3, <1>8, <2>1, <2>2
<1>10. <<c>> \in Seq(Tokens) /\ <<>> \in Seq(Tokens)
  BY <1>2
<1> HIDE DEF row, new
<1>11. /\ r1 \in Seq(Seq(Tokens)) /\ Len(r1) = n + 1 /\ r1[n + 1] = <<c>>
       /\ \A i \in 1 .. n : r1[i] = row[i]
  BY <1>4, <1>9, <1>10, AppendProperties
<1> HIDE DEF r1
<1>12. /\ r2 \in Seq(Seq(Tokens)) /\ Len(r2) = n + 2 /\ r2[n + 2] = <<>>
       /\ \A i \in 1 .. n + 1 : r2[i] = r1[i]
  <2>1. Len(r1) + 1 = n + 2
    BY <1>4, <1>11
  <2>2. QED
    BY <1>10, <1>11, <2>1, AppendProperties
<1> HIDE DEF r2
<1>13. /\ r3 \in Seq(Seq(Tokens)) /\ Len(r3) = n + 3 /\ r3[n + 3] = <<>>
       /\ \A i \in 1 .. n + 2 : r3[i] = r2[i]
  <2>1. Len(r2) + 1 = n + 3
    BY <1>4, <1>12
  <2>2. QED
    BY <1>10, <1>12, <2>1, AppendProperties
<1> HIDE DEF r3
<1>14. new = r3
  <2>1. \A i \in 1 .. n + 3 : i = n + 3 \/ i = n + 2 \/ i = n + 1 \/ i \in 1 .. n
    BY <1>4
  <2>2. /\ \A i \in 1 .. n : i \in 1 .. n + 1 /\ i \in 1 .. n + 2
        /\ n + 1 \in 1 .. n + 1 /\ n + 1 \in 1 .. n + 2 /\ n + 2 \in 1 .. n + 2
    BY <1>4
  <2>3. \A i \in 1 .. n + 3 : new[i] = r3[i]
    BY <1>9, <1>11, <1>12, <1>13, <2>1, <2>2
  <2>4. QED
    BY <1>9, <1>13, <2>3, SeqEqual
<1>15. FlattenSeq(r1) = FlattenSeq(row) \o <<c>>
  BY <1>9, <1>10, FlattenAppend DEF r1
<1>16. FlattenSeq(r2) = FlattenSeq(r1) \o <<>> /\ FlattenSeq(r3) = FlattenSeq(r2) \o <<>>
  BY <1>10, <1>11, <1>12, FlattenAppend DEF r2, r3
<1>17. FlattenSeq(r1) \in Seq(Tokens)
  BY <1>11, FlattenType
<1>18. FlattenSeq(r3) = FlattenSeq(r1)
  BY <1>16, <1>17, ConcatEmptySeq
<1>19. Decoded(au) = Decoded(a) \o <<c>>
  BY <1>4, <1>14, <1>15, <1>18, DecodedIs DEF new, row
<1>20. QED
  BY <1>1, <1>5, <1>19 DEF au, u

(* A text by its last character. *)
LEMMA PrefixGrows ==
    ASSUME NEW C, NEW text \in Seq(C), NEW k \in 1 .. Len(text)
    PROVE  /\ SubSeq(text, 1, k - 1) \in Seq(C) /\ text[k] \in C
           /\ SubSeq(text, 1, k) = SubSeq(text, 1, k - 1) \o <<text[k]>>
<1>1. Len(text) \in Nat /\ 1 \in 1 .. Len(text) /\ k \in 1 .. Len(text)
  BY LenProperties
<1>2. SubSeq(text, 1, k) = SubSeq(text, 1, k - 1) \o <<text[k]>>
  BY <1>1, SubSeqRecursiveSecond
<1>3. \A j \in 1 .. k - 1 : text[j] \in C
  BY <1>1, ElementOfSeq
<1>4. SubSeq(text, 1, k - 1) \in Seq(C)
  BY <1>1, <1>3, SubSeqProperties
<1>5. QED
  BY <1>2, <1>4, ElementOfSeq

(* What holds of the empty text, and of a text with one character more, holds of every text. *)
LEMMA TextInduction ==
    ASSUME NEW C, NEW T, <<>> \in T,
           \A t \in Seq(C), c \in C : t \in T => t \o <<c>> \in T
    PROVE  Seq(C) \subseteq T
<1> SUFFICES ASSUME NEW text \in Seq(C)
             PROVE  text \in T
    OBVIOUS
<1> DEFINE n == Len(text)
           S == {k \in 0 .. n : SubSeq(text, 1, k) \in T}
<1>1. n \in Nat
  BY LenProperties
<1>2. 0 \in S
  <2>1. SubSeq(text, 1, 0) = <<>>
    BY SubSeqEmpty
  <2>2. SubSeq(text, 1, 0) \in T
    BY <2>1, Zenon
  <2>3. 0 \in 0 .. n
    BY <1>1
  <2>4. QED
    BY <2>2, <2>3, Zenon
<1>3. ASSUME NEW k \in 1 .. n, k - 1 \in S
      PROVE  k \in S
  <2>1. SubSeq(text, 1, k - 1) \in T /\ k \in 0 .. n
    BY <1>1, <1>3
  <2>2. SubSeq(text, 1, k) \in T
    <3>1. /\ SubSeq(text, 1, k - 1) \in Seq(C) /\ text[k] \in C
          /\ SubSeq(text, 1, k) = SubSeq(text, 1, k - 1) \o <<text[k]>>
      BY PrefixGrows
    <3>2. QED
      BY <2>1, <3>1, Zenon
  <2>3. QED
    BY <2>1, <2>2
<1>4. n \in S
  <2> HIDE DEF S, n
  <2>1. \A k \in 0 .. n : k \in S
    BY <1>1, <1>2, <1>3, InductionUpTo
  <2>2. QED
    BY <1>1, <2>1
<1>5. QED
  BY <1>4, SubSeqFull

(* Nothing is decoded and encoded to nothing. *)
LEMMA EmptyRows == /\ Decoded(<<>>) = <<>> /\ PercentEncoded(<<>>) = <<>> /\ Whole(<<>>)
                   /\ <<>> \in Seq(Tokens)
<1>1. <<>> \in Seq(Tokens) /\ Len(<<>>) = 0 /\ DOMAIN <<>> = 1 .. 0
  OBVIOUS
<1>2. [i \in DOMAIN <<>> |-> DecodedAt(<<>>, i)] = <<>> /\ [i \in DOMAIN <<>> |-> Escape(<<>>[i])] = <<>>
  OBVIOUS
<1>3. FlattenSeq(<<>>) = <<>>
  BY <1>1 DEF FlattenSeq
<1>4. QED
  BY <1>1, <1>2, <1>3 DEF Decoded, PercentEncoded, Whole

(* A text without reserved characters is read as it is. *)
LEMMA PlainDecoded ==
    ASSUME NEW text \in Seq(Tokens \ Reserved)
    PROVE  Decoded(text) = text
<1> DEFINE C == Tokens \ Reserved
           T == {t \in Seq(C) : Decoded(t) = t /\ Whole(t)}
<1>1. <<>> \in T
  <2>1. <<>> \in Seq(C)
    OBVIOUS
  <2>2. QED
    BY <2>1, EmptyRows
<1>2. ASSUME NEW t \in Seq(C), NEW c \in C, t \in T
      PROVE  t \o <<c>> \in T
  <2>1. t \in Seq(Tokens) /\ t \o <<c>> \in Seq(C)
    OBVIOUS
  <2>2. Decoded(t \o <<c>>) = t \o <<c>> /\ Whole(t \o <<c>>)
    BY <1>2, <2>1, DecodedPlain
  <2>3. QED
    BY <2>1, <2>2
<1>3. Seq(C) \subseteq T
  <2> HIDE DEF C, T
  <2>1. QED
    BY <1>1, <1>2, TextInduction
<1>4. QED
  BY <1>3

-----------------------------------------------------------------------------
(* What an endpoint is made of. *)
HubCharacters == Unreserved \cup Reserved

(* What each of its characters is encoded to. *)
EncodedRow(text) == [i \in DOMAIN text |-> Escape(text[i])]

(* An escape is a text. *)
LEMMA EscapeType ==
    ASSUME NEW c \in HubCharacters
    PROVE  Escape(c) \in Seq(Tokens) /\ \A i \in 1 .. Len(Escape(c)) : Escape(c)[i] # "&"
<1>1. CASE c \in Reserved
  <2>1. PICK h \in Hexes, k \in Hexes : Escape(c) = <<"%", h, k>>
    BY <1>1, EscapeIs
  <2>2. h \in Tokens /\ k \in Tokens /\ h # "&" /\ k # "&" /\ "%" \in Tokens
    <3>1. "%" \in Reserved
      BY DEF Reserved
    <3>2. QED
      BY <3>1, HexesPlain DEF Tokens
  <2>3. QED
    BY <2>1, <2>2
<1>2. CASE c \notin Reserved
  <2>1. c \in Tokens /\ c # "&"
    BY <1>2 DEF HubCharacters, Tokens, Reserved
  <2>2. Escape(c) = <<c>>
    BY <1>2, EscapeOther
  <2>3. QED
    BY <2>1, <2>2
<1>3. QED
  BY <1>1, <1>2

(* One character more is its escape more. *)
LEMMA EncodedGrows ==
    ASSUME NEW text \in Seq(HubCharacters), NEW c \in HubCharacters
    PROVE  PercentEncoded(text \o <<c>>) = PercentEncoded(text) \o Escape(c)
<1> DEFINE n == Len(text)
           longer == text \o <<c>>
           row == EncodedRow(text)
           new == EncodedRow(longer)
<1>1. /\ n \in Nat /\ longer \in Seq(HubCharacters) /\ Len(longer) = n + 1 /\ longer[n + 1] = c
      /\ \A i \in 1 .. n : longer[i] = text[i] /\ text[i] \in HubCharacters
      /\ DOMAIN text = 1 .. n /\ DOMAIN longer = 1 .. n + 1
  OBVIOUS
<1> HIDE DEF longer
<1>2. Escape(c) \in Seq(Tokens) /\ \A i \in 1 .. n : Escape(text[i]) \in Seq(Tokens)
  BY <1>1, EscapeType
<1>3. row \in [1 .. n -> Seq(Tokens)] /\ \A i \in 1 .. n : row[i] = Escape(text[i])
  BY <1>1, <1>2 DEF EncodedRow
<1>4. row \in Seq(Seq(Tokens)) /\ Len(row) = n
  <2> HIDE DEF row, n
  <2>1. QED
    BY <1>1, <1>3
<1>5. new = [i \in 1 .. n + 1 |-> Escape(longer[i])]
  BY <1>1, Zenon DEF EncodedRow
<1>6. new = Append(row, Escape(c))
  <2> DEFINE app == Append(row, Escape(c))
  <2> HIDE DEF row, n
  <2>1. /\ app \in Seq(Seq(Tokens)) /\ Len(app) = n + 1 /\ app[n + 1] = Escape(c)
        /\ \A i \in 1 .. n : app[i] = row[i]
    BY <1>2, <1>4, AppendProperties
  <2>2. app = [i \in 1 .. n + 1 |-> app[i]]
    <3>1. app \in [1 .. Len(app) -> Seq(Tokens)]
      BY <2>1, LenProperties
    <3> HIDE DEF app
    <3>2. QED
      BY <2>1, <3>1
  <2> HIDE DEF app
  <2>3. \A i \in 1 .. n + 1 : app[i] = Escape(longer[i])
    <3>1. \A i \in 1 .. n + 1 : i = n + 1 \/ i \in 1 .. n
      BY <1>1
    <3>2. QED
      BY <1>1, <1>3, <2>1, <3>1
  <2> HIDE DEF new
  <2>4. QED
    BY <1>5, <2>2, <2>3 DEF app
<1> HIDE DEF row, new
<1>7. FlattenSeq(new) = FlattenSeq(row) \o Escape(c)
  BY <1>2, <1>4, <1>6, FlattenAppend
<1>8. QED
  BY <1>7, Zenon DEF PercentEncoded, EncodedRow, longer, row, new

(* What is encoded has no ampersand, and is read as what it was. *)
Restored(text) ==
    /\ PercentEncoded(text) \in Seq(Tokens)
    /\ Whole(PercentEncoded(text))
    /\ Decoded(PercentEncoded(text)) = text
    /\ \A i \in 1 .. Len(PercentEncoded(text)) : PercentEncoded(text)[i] # "&"

(* By induction over the text, percent_encode and the decoding of query_pairs cancel. *)
LEMMA EncodedRestored ==
    ASSUME NEW text \in Seq(HubCharacters)
    PROVE  Restored(text)
<1> DEFINE T == {t \in Seq(HubCharacters) : Restored(t)}
<1>1. <<>> \in T
  <2>1. <<>> \in Seq(HubCharacters) /\ \A i \in 1 .. Len(<<>>) : FALSE
    OBVIOUS
  <2>2. QED
    BY <2>1, EmptyRows DEF Restored
<1>2. ASSUME NEW t \in Seq(HubCharacters), NEW c \in HubCharacters, t \in T
      PROVE  t \o <<c>> \in T
  <2> DEFINE a == PercentEncoded(t)
             e == Escape(c)
  <2>1. /\ a \in Seq(Tokens) /\ Whole(a) /\ Decoded(a) = t
        /\ \A i \in 1 .. Len(a) : a[i] # "&"
    BY <1>2 DEF Restored
  <2>2. e \in Seq(Tokens) /\ \A i \in 1 .. Len(e) : e[i] # "&"
    BY EscapeType
  <2>3. Decoded(a \o e) = t \o <<c>> /\ Whole(a \o e)
    <3>1. CASE c \in Reserved
      BY <2>1, <3>1, DecodedEscape
    <3>2. CASE c \notin Reserved
      <4>1. c \in Tokens \ Reserved
        BY <3>2 DEF HubCharacters, Tokens
      <4>2. e = <<c>>
        BY <3>2, EscapeOther
      <4>3. QED
        BY <2>1, <4>1, <4>2, DecodedPlain
    <3>3. QED
      BY <3>1, <3>2
  <2> HIDE DEF a, e
  <2>4. a \o e \in Seq(Tokens) /\ \A i \in 1 .. Len(a \o e) : (a \o e)[i] # "&"
    BY <2>1, <2>2
  <2>5. PercentEncoded(t \o <<c>>) = a \o e
    BY EncodedGrows DEF a, e
  <2>6. t \o <<c>> \in Seq(HubCharacters)
    OBVIOUS
  <2>7. QED
    BY <2>3, <2>4, <2>5, <2>6 DEF Restored
<1>3. Seq(HubCharacters) \subseteq T
  <2> HIDE DEF T
  <2>1. QED
    BY <1>1, <1>2, TextInduction
<1>4. QED
  BY <1>3

(* Two texts with an ampersand between them. *)
Joined(a, b) == a \o <<"&">> \o b

(* Where everything is in them. *)
LEMMA JoinedIs ==
    ASSUME NEW a \in Seq(Tokens), NEW b \in Seq(Tokens)
    PROVE  /\ Joined(a, b) \in Seq(Tokens)
           /\ Len(a) \in Nat /\ Len(b) \in Nat /\ Len(Joined(a, b)) = Len(a) + 1 + Len(b)
           /\ \A i \in 1 .. Len(a) : Joined(a, b)[i] = a[i]
           /\ Joined(a, b)[Len(a) + 1] = "&"
           /\ \A i \in 1 .. Len(b) : Joined(a, b)[Len(a) + 1 + i] = b[i]
<1>1. "&" \in Tokens
  BY DEF Tokens, Reserved
<1> DEFINE n == Len(a)
           c == a \o <<"&">>
<1>2. /\ n \in Nat /\ c \in Seq(Tokens) /\ Len(c) = n + 1 /\ c[n + 1] = "&"
      /\ \A i \in 1 .. n : c[i] = a[i]
  BY <1>1
<1>3. Joined(a, b) = c \o b
  BY Zenon DEF Joined
<1> HIDE DEF c
<1>4. /\ c \o b \in Seq(Tokens) /\ Len(c \o b) = Len(c) + Len(b) /\ Len(b) \in Nat
      /\ \A i \in 1 .. Len(c) + Len(b) : (c \o b)[i] = IF i <= Len(c) THEN c[i] ELSE b[i - Len(c)]
  BY <1>2, ConcatProperties, LenProperties
<1>5. \A i \in 1 .. n : i \in 1 .. Len(c) + Len(b) /\ i <= Len(c)
  BY <1>2, <1>4
<1>6. n + 1 \in 1 .. Len(c) + Len(b) /\ n + 1 <= Len(c)
  BY <1>2, <1>4
<1>7. \A i \in 1 .. Len(b) : /\ n + 1 + i \in 1 .. Len(c) + Len(b) /\ ~ (n + 1 + i <= Len(c))
                            /\ n + 1 + i - Len(c) = i
  BY <1>2, <1>4
<1> HIDE DEF n
<1>8. /\ \A i \in 1 .. n : (c \o b)[i] = a[i]
      /\ (c \o b)[n + 1] = "&"
      /\ \A i \in 1 .. Len(b) : (c \o b)[n + 1 + i] = b[i]
  BY <1>2, <1>4, <1>5, <1>6, <1>7
<1>9. QED
  BY <1>2, <1>3, <1>4, <1>8 DEF n

(* A piece, from its first place to its last. *)
IsPiece(text, i, j) ==
    /\ i \in 1 .. Len(text) + 1 /\ j \in 0 .. Len(text) /\ i <= j + 1
    /\ i = 1 \/ text[i - 1] = "&"
    /\ j = Len(text) \/ text[j + 1] = "&"
    /\ \A k \in i .. j : text[k] # "&"

(* The pieces of a query by their places. *)
LEMMA PiecesAre ==
    ASSUME NEW text
    PROVE  /\ \A p \in Pieces(text, "&") : p = <<p[1], p[2]>> /\ IsPiece(text, p[1], p[2])
           /\ \A i, j : IsPiece(text, i, j) => <<i, j>> \in Pieces(text, "&")
<1>1. ASSUME NEW p \in Pieces(text, "&")
      PROVE  p = <<p[1], p[2]>> /\ IsPiece(text, p[1], p[2])
  <2>1. /\ p \in (1 .. Len(text) + 1) \X (0 .. Len(text))
        /\ p[1] <= p[2] + 1
        /\ p[1] = 1 \/ text[p[1] - 1] = "&"
        /\ p[2] = Len(text) \/ text[p[2] + 1] = "&"
        /\ \A i \in p[1] .. p[2] : text[i] # "&"
    BY Zenon DEF Pieces
  <2>2. p = <<p[1], p[2]>> /\ p[1] \in 1 .. Len(text) + 1 /\ p[2] \in 0 .. Len(text)
    BY <2>1
  <2>3. QED
    BY <2>1, <2>2, Zenon DEF IsPiece
<1>2. ASSUME NEW i, NEW j, IsPiece(text, i, j)
      PROVE  <<i, j>> \in Pieces(text, "&")
  <2>1. /\ <<i, j>> \in (1 .. Len(text) + 1) \X (0 .. Len(text))
        /\ <<i, j>>[1] = i /\ <<i, j>>[2] = j
    BY <1>2 DEF IsPiece
  <2>2. QED
    BY <1>2, <2>1, Zenon DEF IsPiece, Pieces
<1>3. QED
  BY <1>1, <1>2

(* A text without a separator. *)
NoAmpersand(text) == \A i \in 1 .. Len(text) : text[i] # "&"

(* A text without an ampersand is one piece. *)
LEMMA OnePiece ==
    ASSUME NEW text \in Seq(Tokens), NoAmpersand(text)
    PROVE  \A i, j : IsPiece(text, i, j) <=> i = 1 /\ j = Len(text)
<1>1. Len(text) \in Nat
  BY LenProperties
<1>2. ASSUME NEW i, NEW j, IsPiece(text, i, j)
      PROVE  i = 1 /\ j = Len(text)
  <2>1. i \in 1 .. Len(text) + 1 /\ j \in 0 .. Len(text)
    BY <1>2 DEF IsPiece
  <2>2. (i # 1 => i - 1 \in 1 .. Len(text)) /\ (j # Len(text) => j + 1 \in 1 .. Len(text))
    BY <1>1, <2>1
  <2>3. QED
    BY <1>2, <2>2 DEF IsPiece, NoAmpersand
<1>3. IsPiece(text, 1, Len(text))
  BY <1>1 DEF IsPiece, NoAmpersand
<1>4. QED
  BY <1>2, <1>3

(* The pieces of two texts joined are those of the one and those of the other. *)
LEMMA JoinedPieces ==
    ASSUME NEW a \in Seq(Tokens), NEW b \in Seq(Tokens), NEW i, NEW j
    PROVE  IsPiece(Joined(a, b), i, j) <=>
              \/ IsPiece(a, i, j)
              \/ \E k, l : IsPiece(b, k, l) /\ i = k + (Len(a) + 1) /\ j = l + (Len(a) + 1)
<1> DEFINE n == Len(a)
           m == Len(b)
           ab == Joined(a, b)
<1>1. /\ ab \in Seq(Tokens) /\ n \in Nat /\ m \in Nat /\ Len(ab) = n + 1 + m
      /\ \A k \in 1 .. n : ab[k] = a[k]
      /\ ab[n + 1] = "&"
      /\ \A k \in 1 .. m : ab[n + 1 + k] = b[k]
  BY JoinedIs
<1> HIDE DEF ab, n, m
<1>2. ASSUME IsPiece(ab, i, j)
      PROVE  IsPiece(a, i, j) \/ IsPiece(b, i - (n + 1), j - (n + 1))
  <2>1. /\ i \in 1 .. n + 1 + m + 1 /\ j \in 0 .. n + 1 + m /\ i <= j + 1
        /\ i = 1 \/ ab[i - 1] = "&"
        /\ j = n + 1 + m \/ ab[j + 1] = "&"
        /\ \A k \in i .. j : ab[k] # "&"
    BY <1>1, <1>2 DEF IsPiece
  <2>2. j <= n \/ i >= n + 2
    <3>1. i <= n + 1 /\ n + 1 <= j => n + 1 \in i .. j
      BY <1>1, <2>1
    <3>2. QED
      BY <1>1, <2>1, <3>1
  <2>3. CASE j <= n
    <3>1. /\ i \in 1 .. n + 1 /\ j \in 0 .. n
          /\ (i # 1 => i - 1 \in 1 .. n)
          /\ (j # n => j + 1 \in 1 .. n /\ j # n + 1 + m)
          /\ \A k \in i .. j : k \in 1 .. n
      BY <1>1, <2>1, <2>3
    <3>2. IsPiece(a, i, j)
      BY <1>1, <2>1, <3>1 DEF IsPiece, n
    <3>3. QED
      BY <3>2
  <2>4. CASE i >= n + 2
    <3> DEFINE k == i - (n + 1)
               l == j - (n + 1)
    <3>1. /\ k \in 1 .. m + 1 /\ l \in 0 .. m /\ k <= l + 1
          /\ (k # 1 => i # 1 /\ k - 1 \in 1 .. m /\ n + 1 + (k - 1) = i - 1)
          /\ (l # m => j # n + 1 + m /\ l + 1 \in 1 .. m /\ n + 1 + (l + 1) = j + 1)
          /\ \A x \in k .. l : x \in 1 .. m /\ n + 1 + x \in i .. j
      BY <1>1, <2>1, <2>4
    <3> HIDE DEF k, l
    <3>2. /\ (k # 1 => b[k - 1] = "&")
          /\ (l # m => b[l + 1] = "&")
          /\ \A x \in k .. l : b[x] # "&"
      BY <1>1, <2>1, <3>1
    <3>3. IsPiece(b, k, l)
      BY <3>1, <3>2 DEF IsPiece, m
    <3>4. QED
      BY <3>3 DEF k, l
  <2>5. QED
    BY <2>2, <2>3, <2>4
<1>3. ASSUME IsPiece(a, i, j)
      PROVE  IsPiece(ab, i, j)
  <2>1. /\ i \in 1 .. n + 1 /\ j \in 0 .. n /\ i <= j + 1
        /\ i = 1 \/ a[i - 1] = "&"
        /\ j = n \/ a[j + 1] = "&"
        /\ \A k \in i .. j : a[k] # "&"
    BY <1>3 DEF IsPiece, n
  <2>2. /\ i \in 1 .. n + 1 + m + 1 /\ j \in 0 .. n + 1 + m
        /\ (i # 1 => i - 1 \in 1 .. n)
        /\ (j # n => j + 1 \in 1 .. n)
        /\ \A k \in i .. j : k \in 1 .. n
    BY <1>1, <2>1
  <2>3. i = 1 \/ ab[i - 1] = "&"
    BY <1>1, <2>1, <2>2
  <2>4. ab[j + 1] = "&"
    <3>1. j = n => ab[j + 1] = "&"
      BY <1>1
    <3>2. j # n => ab[j + 1] = a[j + 1] /\ a[j + 1] = "&"
      BY <1>1, <2>1, <2>2
    <3>3. QED
      BY <3>1, <3>2
  <2>5. ASSUME NEW k \in i .. j
        PROVE  ab[k] # "&"
    <3>1. k \in 1 .. n /\ a[k] # "&"
      BY <2>1, <2>2, Zenon
    <3>2. ab[k] = a[k]
      BY <1>1, <3>1, Zenon
    <3>3. QED
      BY <3>1, <3>2
  <2>6. QED
    BY <1>1, <2>1, <2>2, <2>3, <2>4, <2>5 DEF IsPiece
<1>4. ASSUME NEW k, NEW l, IsPiece(b, k, l), i = k + (n + 1), j = l + (n + 1)
      PROVE  IsPiece(ab, i, j)
  <2>1. /\ k \in 1 .. m + 1 /\ l \in 0 .. m /\ k <= l + 1
        /\ k = 1 \/ b[k - 1] = "&"
        /\ l = m \/ b[l + 1] = "&"
        /\ \A x \in k .. l : b[x] # "&"
    BY <1>4 DEF IsPiece, m
  <2>2. /\ i \in 1 .. n + 1 + m + 1 /\ j \in 0 .. n + 1 + m /\ i <= j + 1
        /\ (k = 1 => i - 1 = n + 1)
        /\ (k # 1 => k - 1 \in 1 .. m /\ n + 1 + (k - 1) = i - 1)
        /\ (l = m => j = n + 1 + m)
        /\ (l # m => l + 1 \in 1 .. m /\ n + 1 + (l + 1) = j + 1)
        /\ \A y \in i .. j : y - (n + 1) \in k .. l /\ y - (n + 1) \in 1 .. m
                             /\ n + 1 + (y - (n + 1)) = y
    BY <1>1, <1>4, <2>1
  <2>3. ab[i - 1] = "&"
    BY <1>1, <2>1, <2>2
  <2>4. j = n + 1 + m \/ ab[j + 1] = "&"
    BY <1>1, <2>1, <2>2
  <2>5. ASSUME NEW y \in i .. j
        PROVE  ab[y] # "&"
    <3> DEFINE x == y - (n + 1)
    <3>1. x \in k .. l /\ x \in 1 .. m /\ n + 1 + x = y
      BY <2>2
    <3> HIDE DEF x
    <3>2. ab[n + 1 + x] = b[x] /\ b[x] # "&"
      BY <1>1, <2>1, <3>1, Zenon
    <3>3. QED
      BY <3>1, <3>2
  <2>6. QED
    BY <1>1, <2>2, <2>3, <2>4, <2>5 DEF IsPiece
<1>5. ASSUME IsPiece(ab, i, j), ~ IsPiece(a, i, j)
      PROVE  \E k, l : IsPiece(b, k, l) /\ i = k + (n + 1) /\ j = l + (n + 1)
  <2>1. IsPiece(b, i - (n + 1), j - (n + 1))
    BY <1>2, <1>5
  <2>2. i = (i - (n + 1)) + (n + 1) /\ j = (j - (n + 1)) + (n + 1)
    <3>1. i \in 1 .. Len(ab) + 1 /\ j \in 0 .. Len(ab)
      BY <1>5 DEF IsPiece
    <3>2. QED
      BY <1>1, <3>1
  <2>3. QED
    BY <2>1, <2>2, Zenon
<1>6. QED
  BY <1>3, <1>4, <1>5 DEF ab, n

(* A stretch of a text, and the same stretch elsewhere in another. *)
LEMMA SameStretch ==
    ASSUME NEW s \in Seq(Tokens), NEW t \in Seq(Tokens), NEW i \in Nat, NEW j \in Int, NEW d \in Nat,
           1 <= i, j <= Len(s), j + d <= Len(t),
           \A x \in i .. j : s[x] = t[x + d]
    PROVE  SubSeq(s, i, j) = SubSeq(t, i + d, j + d)
<1>1. \A x \in i .. j : s[x] \in Tokens
  <2>1. \A x \in i .. j : x \in 1 .. Len(s)
    BY LenProperties
  <2>2. QED
    BY <2>1, LenProperties
<1>2. \A x \in i + d .. j + d : t[x] \in Tokens
  <2>1. \A x \in i + d .. j + d : x \in 1 .. Len(t)
    BY LenProperties
  <2>2. QED
    BY <2>1, LenProperties
<1> DEFINE a == SubSeq(s, i, j)
           b == SubSeq(t, i + d, j + d)
<1>3. /\ a \in Seq(Tokens) /\ Len(a) = (IF i <= j THEN j - i + 1 ELSE 0)
      /\ \A x \in 1 .. j - i + 1 : a[x] = s[i + x - 1]
  BY <1>1, SubSeqProperties
<1>4. i + d \in Int /\ j + d \in Int
  OBVIOUS
<1>5. /\ b \in Seq(Tokens) /\ Len(b) = (IF i + d <= j + d THEN (j + d) - (i + d) + 1 ELSE 0)
      /\ \A x \in 1 .. (j + d) - (i + d) + 1 : b[x] = t[(i + d) + x - 1]
  BY <1>2, <1>4, SubSeqProperties
<1> HIDE DEF a, b
<1>6. Len(a) = Len(b) /\ \A x \in 1 .. Len(a) : x \in 1 .. j - i + 1 /\ x \in 1 .. (j + d) - (i + d) + 1
                             /\ i + x - 1 \in i .. j /\ (i + x - 1) + d = (i + d) + x - 1
  BY <1>3, <1>5
<1>7. \A x \in 1 .. Len(a) : a[x] = b[x]
  <2> SUFFICES ASSUME NEW x \in 1 .. Len(a)
               PROVE  a[x] = b[x]
    OBVIOUS
  <2> DEFINE y == i + x - 1
  <2>1. y \in i .. j /\ y + d = (i + d) + x - 1 /\ a[x] = s[y] /\ b[x] = t[(i + d) + x - 1]
    BY <1>3, <1>5, <1>6
  <2> HIDE DEF y
  <2>2. s[y] = t[y + d]
    BY <2>1
  <2>3. QED
    BY <2>1, <2>2
<1>8. QED
  BY <1>3, <1>5, <1>6, <1>7, SeqEqual DEF a, b

(* The pieces of two texts joined read as they did. *)
LEMMA JoinedStretches ==
    ASSUME NEW a \in Seq(Tokens), NEW b \in Seq(Tokens)
    PROVE  /\ \A i, j : IsPiece(a, i, j) => SubSeq(Joined(a, b), i, j) = SubSeq(a, i, j)
           /\ \A i, j : IsPiece(b, i, j) =>
                 SubSeq(Joined(a, b), i + (Len(a) + 1), j + (Len(a) + 1)) = SubSeq(b, i, j)
<1> DEFINE n == Len(a)
           m == Len(b)
           ab == Joined(a, b)
<1>1. /\ ab \in Seq(Tokens) /\ n \in Nat /\ m \in Nat /\ Len(ab) = n + 1 + m
      /\ \A k \in 1 .. n : ab[k] = a[k]
      /\ \A k \in 1 .. m : ab[n + 1 + k] = b[k]
  BY JoinedIs
<1> HIDE DEF ab, n, m
<1>2. ASSUME NEW i, NEW j, IsPiece(a, i, j)
      PROVE  SubSeq(ab, i, j) = SubSeq(a, i, j)
  <2>1. i \in Nat /\ j \in Int /\ 1 <= i /\ j <= n /\ j + 0 <= Len(ab) /\ i + 0 = i /\ j + 0 = j
    BY <1>1, <1>2 DEF IsPiece, n
  <2>2. \A x \in i .. j : x \in 1 .. n /\ x + 0 = x
    BY <1>1, <2>1
  <2>3. \A x \in i .. j : a[x] = ab[x + 0]
    BY <1>1, <2>2
  <2>4. SubSeq(a, i, j) = SubSeq(ab, i + 0, j + 0)
    BY <1>1, <2>1, <2>3, SameStretch DEF n
  <2>5. QED
    BY <2>1, <2>4
<1>3. ASSUME NEW i, NEW j, IsPiece(b, i, j)
      PROVE  SubSeq(ab, i + (n + 1), j + (n + 1)) = SubSeq(b, i, j)
  <2>1. i \in Nat /\ j \in Int /\ 1 <= i /\ j <= m /\ j + (n + 1) <= Len(ab) /\ n + 1 \in Nat
    BY <1>1, <1>3 DEF IsPiece, m
  <2>2. \A x \in i .. j : x \in 1 .. m /\ x + (n + 1) = n + 1 + x
    BY <1>1, <2>1
  <2>3. \A x \in i .. j : b[x] = ab[x + (n + 1)]
    BY <1>1, <2>2
  <2>4. QED
    BY <1>1, <2>1, <2>3, SameStretch DEF m
<1>4. QED
  BY <1>2, <1>3 DEF ab, n

(* The pair of a text from one place to another. *)
Reads(text, p, i, j) == IsPiece(text, i, j) /\ p = Pair(SubSeq(text, i, j), i)

(* The pairs are those of the pieces. *)
LEMMA PairsAre ==
    ASSUME NEW text, NEW p
    PROVE  p \in QueryPairs(text) <=> \E i, j : Reads(text, p, i, j)
<1>1. ASSUME NEW q \in Pieces(text, "&"), p = Pair(SubSeq(text, q[1], q[2]), q[1])
      PROVE  \E i, j : Reads(text, p, i, j)
  BY <1>1, PiecesAre, Zenon DEF Reads
<1>2. ASSUME NEW i, NEW j, Reads(text, p, i, j)
      PROVE  p \in QueryPairs(text)
  <2> DEFINE q == <<i, j>>
  <2>1. q \in Pieces(text, "&")
    BY <1>2, PiecesAre, Zenon DEF Reads
  <2>2. q[1] = i /\ q[2] = j
    OBVIOUS
  <2> HIDE DEF q
  <2>3. p = Pair(SubSeq(text, q[1], q[2]), q[1])
    BY <1>2, <2>2, Zenon DEF Reads
  <2>4. QED
    BY <2>1, <2>3, Zenon DEF QueryPairs
<1>3. QED
  BY <1>1, <1>2, Zenon DEF QueryPairs

(* A pair whose place is further on by as much. *)
Further(pair, d) == [at |-> pair.at + d, key |-> pair.key, value |-> pair.value]

(* A piece further on makes the same pair further on. *)
LEMMA FurtherOn ==
    ASSUME NEW piece, NEW i, NEW d
    PROVE  Further(Pair(piece, i), d) = Pair(piece, i + d)
BY Zenon DEF Pair, Further

(* The pairs of two texts joined are those of the one and, further on, those of the other. *)
LEMMA JoinedPairs ==
    ASSUME NEW a \in Seq(Tokens), NEW b \in Seq(Tokens), NEW p
    PROVE  p \in QueryPairs(Joined(a, b)) <=>
              p \in QueryPairs(a) \/ \E q \in QueryPairs(b) : p = Further(q, Len(a) + 1)
<1> DEFINE d == Len(a) + 1
           ab == Joined(a, b)
<1>6. \A i, j : IsPiece(a, i, j) => SubSeq(ab, i, j) = SubSeq(a, i, j)
  BY JoinedStretches
<1>7. \A i, j : IsPiece(b, i, j) => SubSeq(ab, i + d, j + d) = SubSeq(b, i, j)
  BY JoinedStretches
<1>8. \A i, j : IsPiece(ab, i, j) <=>
              \/ IsPiece(a, i, j)
              \/ \E k, l : IsPiece(b, k, l) /\ i = k + d /\ j = l + d
  BY JoinedPieces
<1>9. \A i, j : IsPiece(a, i, j) => IsPiece(ab, i, j)
  BY <1>8
<1> SUFFICES p \in QueryPairs(ab) <=>
                p \in QueryPairs(a) \/ \E q \in QueryPairs(b) : p = Further(q, d)
  OBVIOUS
<1> HIDE DEF d, ab
<1>1. ASSUME NEW i, NEW j, Reads(ab, p, i, j)
      PROVE  p \in QueryPairs(a) \/ \E q \in QueryPairs(b) : p = Further(q, d)
  <2>1. IsPiece(ab, i, j) /\ p = Pair(SubSeq(ab, i, j), i)
    BY <1>1, Zenon DEF Reads
  <2>2. CASE IsPiece(a, i, j)
    <3>1. Reads(a, p, i, j)
      BY <2>1, <2>2, <1>6, Zenon DEF Reads
    <3>2. QED
      BY <3>1, PairsAre, Zenon
  <2>3. ASSUME NEW k, NEW l, IsPiece(b, k, l), i = k + d, j = l + d
        PROVE  \E q \in QueryPairs(b) : p = Further(q, d)
    <3> DEFINE q == Pair(SubSeq(b, k, l), k)
    <3>1. SubSeq(ab, k + d, l + d) = SubSeq(b, k, l)
      BY <2>3, <1>7, Zenon
    <3>2. p = Further(q, d)
      <4>1. p = Pair(SubSeq(ab, k + d, l + d), k + d)
        BY <2>1, <2>3, Zenon
      <4>2. p = Pair(SubSeq(b, k, l), k + d)
        BY <4>1, <3>1, Zenon
      <4>3. QED
        BY <4>2, FurtherOn, Zenon
    <3>3. q \in QueryPairs(b)
      BY <2>3, PairsAre, Zenon DEF Reads
    <3>4. QED
      BY <3>2, <3>3, Zenon
  <2>4. IsPiece(a, i, j) \/ \E k, l : IsPiece(b, k, l) /\ i = k + d /\ j = l + d
    BY <2>1, <1>8
  <2>5. QED
    BY <2>2, <2>3, <2>4, Zenon
<1>2. ASSUME p \in QueryPairs(a)
      PROVE  p \in QueryPairs(ab)
  <2>1. PICK i, j : Reads(a, p, i, j)
    BY <1>2, PairsAre, Zenon
  <2>2. IsPiece(ab, i, j)
    BY <2>1, <1>9, Zenon DEF Reads
  <2>3. SubSeq(ab, i, j) = SubSeq(a, i, j)
    BY <2>1, <1>6, Zenon DEF Reads
  <2>4. p = Pair(SubSeq(ab, i, j), i)
    BY <2>1, <2>3, Zenon DEF Reads
  <2>5. QED
    BY <2>2, <2>4, PairsAre, Zenon DEF Reads
<1>3. ASSUME NEW q \in QueryPairs(b), p = Further(q, d)
      PROVE  p \in QueryPairs(ab)
  <2>1. PICK k, l : Reads(b, q, k, l)
    BY PairsAre, Zenon
  <2>2. IsPiece(ab, k + d, l + d)
    BY <2>1, <1>8, Zenon DEF Reads
  <2>3. SubSeq(ab, k + d, l + d) = SubSeq(b, k, l)
    BY <2>1, <1>7, Zenon DEF Reads
  <2>4. p = Pair(SubSeq(ab, k + d, l + d), k + d)
    BY <1>3, <2>1, <2>3, FurtherOn, Zenon DEF Reads
  <2>5. QED
    BY <2>2, <2>4, PairsAre, Zenon DEF Reads
<1>4. ASSUME p \in QueryPairs(ab)
      PROVE  \E i, j : Reads(ab, p, i, j)
  BY <1>4, PairsAre, Zenon
<1>5. QED
  BY <1>1, <1>2, <1>3, <1>4, Zenon

(* A pair has a name. *)
HasName(pair, name) == pair.key = <<name>>

(* It is the last of its name. *)
LastNamed(pairs, pair, name) ==
    /\ pair \in pairs /\ HasName(pair, name)
    /\ \A r \in pairs : HasName(r, name) => r.at <= pair.at

(* The value of a parameter is the value of the last pair of its name. *)
LEMMA ParamIs ==
    ASSUME NEW pairs, NEW name, NEW v
    PROVE  v \in Param(pairs, name) <=> \E p : LastNamed(pairs, p, name) /\ v = p.value
BY Zenon DEF Param, LastNamed, HasName

(* Where a pair may be. *)
LEMMA PairPlaces ==
    ASSUME NEW text \in Seq(Tokens), NEW p \in QueryPairs(text)
    PROVE  p.at \in 1 .. Len(text) + 1
<1>1. PICK i, j : Reads(text, p, i, j)
  BY PairsAre, Zenon
<1>2. i \in 1 .. Len(text) + 1
  BY <1>1 DEF Reads, IsPiece
<1>3. p.at = i
  BY <1>1, Zenon DEF Reads, Pair
<1>4. QED
  BY <1>2, <1>3

(* Of two texts joined, the second has the last word on a parameter, if it has one. *)
LEMMA JoinedParam ==
    ASSUME NEW a \in Seq(Tokens), NEW b \in Seq(Tokens), NEW name
    PROVE  Param(QueryPairs(Joined(a, b)), name) =
              IF \E p \in QueryPairs(b) : HasName(p, name) THEN Param(QueryPairs(b), name)
              ELSE Param(QueryPairs(a), name)
<1> DEFINE A == QueryPairs(a)
           B == QueryPairs(b)
           AB == QueryPairs(Joined(a, b))
           d == Len(a) + 1
<1>1. \A p : p \in AB <=> p \in A \/ \E q \in B : p = Further(q, d)
  BY JoinedPairs
<1>2. \A q : Further(q, d).at = q.at + d /\ Further(q, d).key = q.key /\ Further(q, d).value = q.value
  BY Zenon DEF Further
<1>3. d \in Nat /\ (\A p \in A : p.at \in Nat /\ p.at <= d) /\ (\A p \in B : p.at \in Nat /\ p.at >= 1)
  <2>1. (\A p \in A : p.at \in 1 .. Len(a) + 1) /\ \A p \in B : p.at \in 1 .. Len(b) + 1
    BY PairPlaces
  <2>2. Len(a) \in Nat /\ Len(b) \in Nat
    BY LenProperties
  <2>3. QED
    BY <2>1, <2>2
<1> SUFFICES Param(AB, name) = IF \E p \in B : HasName(p, name) THEN Param(B, name) ELSE Param(A, name)
  OBVIOUS
<1> HIDE DEF A, B, AB, d
<1>4. ASSUME NEW r \in B, HasName(r, name), NEW v
      PROVE  v \in Param(AB, name) <=> v \in Param(B, name)
  <2>1. Further(r, d) \in AB /\ HasName(Further(r, d), name) /\ Further(r, d).at > d
    <3>1. Further(r, d) \in AB
      BY <1>1, Zenon
    <3>2. HasName(Further(r, d), name)
      BY <1>2, <1>4, Zenon DEF HasName
    <3>3. Further(r, d).at = r.at + d /\ r.at \in Nat /\ r.at >= 1
      BY <1>2, <1>3, Zenon
    <3>4. QED
      BY <1>3, <3>1, <3>2, <3>3
  <2>2. ASSUME NEW p, LastNamed(AB, p, name)
        PROVE  \E q : LastNamed(B, q, name) /\ q.value = p.value
    <3>1. p \in AB /\ HasName(p, name) /\ Further(r, d).at <= p.at
      BY <2>1, <2>2, Zenon DEF LastNamed
    <3>2. p \notin A
      BY <1>2, <1>3, <2>1, <3>1
    <3>3. PICK q \in B : p = Further(q, d)
      BY <1>1, <3>1, <3>2, Zenon
    <3>4. HasName(q, name) /\ q.value = p.value
      BY <1>2, <3>1, <3>3, Zenon DEF HasName
    <3>5. ASSUME NEW s \in B, HasName(s, name)
          PROVE  s.at <= q.at
      <4>1. Further(s, d) \in AB /\ HasName(Further(s, d), name)
        BY <1>1, <1>2, <3>5, Zenon DEF HasName
      <4>2. Further(s, d).at <= p.at
        BY <2>2, <4>1, Zenon DEF LastNamed
      <4>3. s.at + d <= q.at + d /\ s.at \in Nat /\ q.at \in Nat
        BY <1>2, <1>3, <3>3, <4>2, Zenon
      <4>4. QED
        BY <1>3, <4>3
    <3>6. LastNamed(B, q, name)
      BY <3>4, <3>5, Zenon DEF LastNamed
    <3>7. QED
      BY <3>4, <3>6, Zenon
  <2>3. ASSUME NEW q, LastNamed(B, q, name)
        PROVE  LastNamed(AB, Further(q, d), name) /\ Further(q, d).value = q.value
    <3>1. q \in B /\ HasName(q, name)
      BY <2>3, Zenon DEF LastNamed
    <3>2. Further(q, d) \in AB /\ HasName(Further(q, d), name) /\ Further(q, d).value = q.value
      BY <1>1, <1>2, <3>1, Zenon DEF HasName
    <3>3. Further(q, d).at = q.at + d /\ q.at \in Nat
      BY <1>2, <1>3, <3>1, Zenon
    <3>4. ASSUME NEW s \in AB, HasName(s, name)
          PROVE  s.at <= Further(q, d).at
      <4>1. CASE s \in A
        BY <1>3, <3>3, <4>1
      <4>2. ASSUME NEW t \in B, s = Further(t, d)
            PROVE  s.at <= Further(q, d).at
        <5>1. HasName(t, name) /\ s.at = t.at + d /\ t.at \in Nat
          BY <1>2, <1>3, <3>4, <4>2, Zenon DEF HasName
        <5>2. t.at <= q.at
          BY <2>3, <5>1, Zenon DEF LastNamed
        <5>3. QED
          BY <1>3, <3>3, <5>1, <5>2
      <4>3. QED
        BY <1>1, <4>1, <4>2, Zenon
    <3>5. QED
      BY <3>2, <3>4, Zenon DEF LastNamed
  <2>4. (v \in Param(AB, name) <=> \E p : LastNamed(AB, p, name) /\ v = p.value)
        /\ (v \in Param(B, name) <=> \E p : LastNamed(B, p, name) /\ v = p.value)
    BY ParamIs
  <2>5. ASSUME v \in Param(AB, name)
        PROVE  v \in Param(B, name)
    BY <2>2, <2>4, <2>5, Zenon
  <2>6. ASSUME v \in Param(B, name)
        PROVE  v \in Param(AB, name)
    BY <2>3, <2>4, <2>6, Zenon
  <2>7. QED
    BY <2>5, <2>6
<1>5. ASSUME \A r \in B : ~ HasName(r, name), NEW v
      PROVE  v \in Param(AB, name) <=> v \in Param(A, name)
  <2>1. \A p : p \in AB /\ HasName(p, name) => p \in A
    <3> SUFFICES ASSUME NEW p \in AB, HasName(p, name)
                 PROVE  p \in A
      OBVIOUS
    <3>1. \A q \in B : p # Further(q, d)
      BY <1>2, <1>5, Zenon DEF HasName
    <3>2. QED
      BY <1>1, <3>1, Zenon
  <2>2. \A p \in A : p \in AB
    BY <1>1, Zenon
  <2>3. \A p : LastNamed(AB, p, name) => LastNamed(A, p, name)
    BY <2>1, <2>2, Zenon DEF LastNamed
  <2>4. \A p : LastNamed(A, p, name) => LastNamed(AB, p, name)
    BY <2>1, <2>2, Zenon DEF LastNamed
  <2>5. (v \in Param(AB, name) <=> \E p : LastNamed(AB, p, name) /\ v = p.value)
        /\ (v \in Param(A, name) <=> \E p : LastNamed(A, p, name) /\ v = p.value)
    BY ParamIs
  <2>6. (v \in Param(AB, name) => v \in Param(A, name))
        /\ (v \in Param(A, name) => v \in Param(AB, name))
    BY <2>3, <2>4, <2>5, Zenon
  <2>7. QED
    BY <2>6
<1>6. CASE \E p \in B : HasName(p, name)
  <2>1. \A v : v \in Param(AB, name) <=> v \in Param(B, name)
    BY <1>4, <1>6, Zenon
  <2>2. Param(AB, name) = Param(B, name)
    BY <2>1, Zenon
  <2>3. QED
    BY <1>6, <2>2
<1>7. CASE ~ \E p \in B : HasName(p, name)
  <2>1. \A v : v \in Param(AB, name) <=> v \in Param(A, name)
    BY <1>5, <1>7, Zenon
  <2>2. Param(AB, name) = Param(A, name)
    BY <2>1, Zenon
  <2>3. QED
    BY <1>7, <2>2
<1>8. QED
  BY <1>6, <1>7

(* A text without an ampersand is one pair. *)
LEMMA OnePair ==
    ASSUME NEW text \in Seq(Tokens), NoAmpersand(text), NEW p
    PROVE  p \in QueryPairs(text) <=> p = Pair(text, 1)
<1>1. SubSeq(text, 1, Len(text)) = text
  BY SubSeqFull
<1>2. \A i, j : IsPiece(text, i, j) <=> i = 1 /\ j = Len(text)
  BY OnePiece
<1>3. /\ \A i, j : Reads(text, p, i, j) => i = 1 /\ j = Len(text) /\ p = Pair(SubSeq(text, i, j), i)
      /\ p = Pair(SubSeq(text, 1, Len(text)), 1) => Reads(text, p, 1, Len(text))
  BY <1>2 DEF Reads
<1>4. p \in QueryPairs(text) => p = Pair(text, 1)
  BY <1>1, <1>3, PairsAre, Zenon
<1>5. p = Pair(text, 1) => Reads(text, p, 1, Len(text))
  BY <1>1, <1>3, Zenon
<1>6. QED
  BY <1>4, <1>5, PairsAre, Zenon

(* A piece is cut at the first "=", or at its end. *)
LEMMA CutIs ==
    ASSUME NEW piece \in Seq(Tokens), NEW k \in 1 .. Len(piece) + 1,
           k = Len(piece) + 1 \/ piece[k] = "=",
           \A i \in 1 .. Len(piece) : i < k => piece[i] # "="
    PROVE  Cut(piece) = k
<1> DEFINE n == Len(piece)
           S == {i \in DOMAIN piece : piece[i] = "="} \cup {n + 1}
<1>1. n \in Nat /\ DOMAIN piece = 1 .. n
  BY LenProperties
<1>2. k \in S /\ \A i \in S : i \in Nat /\ k <= i
  BY <1>1
<1> HIDE DEF S
<1>3. Min(S) = k
  <2> DEFINE x == Min(S)
  <2>1. x \in S /\ x <= k
    BY <1>2 DEF Min
  <2> HIDE DEF x
  <2>2. x \in Nat /\ k <= x /\ k \in Nat
    BY <1>2, <2>1
  <2>3. x = k
    BY <2>1, <2>2
  <2>4. QED
    BY <2>3 DEF x
<1>4. QED
  BY <1>3, Zenon DEF Cut, S, n

(* The names of parameters there are. *)
Names == {"session", "endpoint", "hint"}

(* A name, "=" and a value is one pair, of that name and value. *)
LEMMA NamedField ==
    ASSUME NEW name \in Names, NEW v \in Seq(Tokens), NoAmpersand(v)
    PROVE  /\ <<name, "=">> \o v \in Seq(Tokens)
           /\ NoAmpersand(<<name, "=">> \o v)
           /\ Pair(<<name, "=">> \o v, 1) = [at |-> 1, key |-> <<name>>, value |-> Decoded(v)]
<1> DEFINE h == <<name, "=">>
           f == h \o v
           m == Len(v)
<1>1. name \in Tokens \ Reserved /\ name # "=" /\ name # "&" /\ "=" \in Tokens /\ "=" # "&"
  BY DEF Names, Tokens, Reserved, Unreserved
<1>2. /\ h \in Seq(Tokens) /\ Len(h) = 2 /\ h[1] = name /\ h[2] = "="
      /\ m \in Nat
  BY <1>1
<1> HIDE DEF h
<1>3. /\ f \in Seq(Tokens) /\ Len(f) = 2 + m
      /\ \A i \in 1 .. 2 + m : f[i] = IF i <= 2 THEN h[i] ELSE v[i - 2]
  <2>1. /\ h \o v \in Seq(Tokens) /\ Len(h \o v) = Len(h) + Len(v)
        /\ \A i \in 1 .. Len(h) + Len(v) : (h \o v)[i] = IF i <= Len(h) THEN h[i] ELSE v[i - Len(h)]
    BY <1>2, ConcatProperties
  <2>2. QED
    BY <1>2, <2>1
<1> HIDE DEF f
<1>4. f[1] = name /\ f[2] = "=" /\ \A i \in 1 .. m : f[i + 2] = v[i]
  <2>1. \A i \in 1 .. m : i + 2 \in 1 .. 2 + m /\ ~ (i + 2 <= 2) /\ (i + 2) - 2 = i
    BY <1>2
  <2>2. 1 \in 1 .. 2 + m /\ 2 \in 1 .. 2 + m
    BY <1>2
  <2>3. QED
    BY <1>2, <1>3, <2>1, <2>2
<1>5. NoAmpersand(f)
  <2> SUFFICES ASSUME NEW i \in 1 .. 2 + m
               PROVE  f[i] # "&"
    BY <1>3 DEF NoAmpersand
  <2>1. CASE i <= 2
    <3>1. i = 1 \/ i = 2
      BY <2>1
    <3>2. QED
      BY <1>1, <1>4, <3>1
  <2>2. CASE i > 2
    <3> DEFINE k == i - 2
    <3>1. k \in 1 .. m /\ i = k + 2
      BY <1>2, <2>2
    <3> HIDE DEF k
    <3>2. QED
      BY <1>4, <3>1 DEF NoAmpersand
  <2>3. QED
    BY <2>1, <2>2
<1>6. Cut(f) = 2
  <2>1. 2 \in 1 .. Len(f) + 1 /\ \A i \in 1 .. Len(f) : i < 2 => i = 1
    BY <1>2, <1>3
  <2>2. QED
    BY <1>1, <1>3, <1>4, <2>1, CutIs
<1>7. SubSeq(f, 1, 1) = <<name>>
  <2>1. /\ SubSeq(f, 1, 1) \in Seq(Tokens) /\ Len(SubSeq(f, 1, 1)) = 1 /\ SubSeq(f, 1, 1)[1] = name
    <3>1. \A i \in 1 .. 1 : f[i] \in Tokens
      BY <1>1, <1>4
    <3>2. QED
      BY <1>4, <3>1, SubSeqProperties
  <2>2. <<name>> \in Seq(Tokens) /\ Len(<<name>>) = 1 /\ <<name>>[1] = name
    BY <1>1
  <2>3. \A i \in 1 .. 1 : i = 1
    OBVIOUS
  <2>4. QED
    BY <2>1, <2>2, <2>3, SeqEqual
<1>8. SubSeq(f, 3, Len(f)) = v
  <2>1. 1 \in Nat /\ m \in Int /\ 2 \in Nat /\ 1 <= 1 /\ m <= Len(v) /\ m + 2 <= Len(f) /\ 1 + 2 = 3 /\ m + 2 = Len(f)
    BY <1>2, <1>3
  <2>2. SubSeq(v, 1, m) = SubSeq(f, 1 + 2, m + 2)
    BY <1>3, <1>4, <2>1, SameStretch
  <2>3. SubSeq(v, 1, m) = v
    BY SubSeqFull
  <2>4. QED
    BY <2>1, <2>2, <2>3
<1>9. Decoded(<<name>>) = <<name>>
  <2>1. <<name>> \in Seq(Tokens \ Reserved)
    BY <1>1
  <2>2. QED
    BY <2>1, PlainDecoded
<1>10. Pair(f, 1) = [at |-> 1, key |-> <<name>>, value |-> Decoded(v)]
  <2>1. Cut(f) - 1 = 1 /\ Cut(f) + 1 = 3
    BY <1>6
  <2>2. QED
    BY <1>7, <1>8, <1>9, <2>1, Zenon DEF Pair
<1>11. QED
  BY <1>3, <1>5, <1>10 DEF f, h

(* A text that is one pair has the parameter of its name, and no other. *)
LEMMA SinglePair ==
    ASSUME NEW f \in Seq(Tokens), NoAmpersand(f), NEW name, NEW v,
           Pair(f, 1) = [at |-> 1, key |-> <<name>>, value |-> v]
    PROVE  /\ Param(QueryPairs(f), name) = {v}
           /\ \E p \in QueryPairs(f) : HasName(p, name)
           /\ \A p \in QueryPairs(f) : \A other : other # name => ~ HasName(p, other)
<1> DEFINE pair == Pair(f, 1)
<1>1. pair.at = 1 /\ pair.key = <<name>> /\ pair.value = v
  OBVIOUS
<1> HIDE DEF pair
<1>2. \A p : p \in QueryPairs(f) <=> p = pair
  BY OnePair DEF pair
<1>3. HasName(pair, name) /\ \A other : other # name => ~ HasName(pair, other)
  BY <1>1 DEF HasName
<1>4. \A p : LastNamed(QueryPairs(f), p, name) <=> p = pair
  <2>1. \A p : LastNamed(QueryPairs(f), p, name) => p = pair
    BY <1>2, Zenon DEF LastNamed
  <2>2. \A r \in QueryPairs(f) : HasName(r, name) => r.at <= pair.at
    <3>1. 1 <= 1
      OBVIOUS
    <3>2. \A r \in QueryPairs(f) : r.at = 1
      BY <1>1, <1>2, Zenon
    <3>3. QED
      BY <1>1, <3>1, <3>2, Zenon
  <2>3. LastNamed(QueryPairs(f), pair, name)
    BY <1>2, <1>3, <2>2, Zenon DEF LastNamed
  <2>4. QED
    BY <2>1, <2>3
<1>5. \A w : w \in Param(QueryPairs(f), name) <=> \E p : LastNamed(QueryPairs(f), p, name) /\ w = p.value
  BY ParamIs
<1>6. v \in Param(QueryPairs(f), name)
  <2>1. LastNamed(QueryPairs(f), pair, name)
    BY <1>4
  <2>2. \E p : LastNamed(QueryPairs(f), p, name) /\ v = p.value
    BY <1>1, <2>1, Zenon
  <2>3. QED
    BY <1>5, <2>2
<1>7. Param(QueryPairs(f), name) = {v}
  <2>1. ASSUME NEW w \in Param(QueryPairs(f), name)
        PROVE  w = v
    <3>1. PICK p : LastNamed(QueryPairs(f), p, name) /\ w = p.value
      BY <1>5
    <3>2. p = pair
      BY <1>4, <3>1
    <3>3. QED
      BY <1>1, <3>1, <3>2, Zenon
  <2>2. QED
    BY <1>6, <2>1
<1>8. QED
  BY <1>2, <1>3, <1>7, Zenon

(* So has a name, "=" and a value, *)
LEMMA FieldParam ==
    ASSUME NEW name \in Names, NEW v \in Seq(Tokens), NoAmpersand(v)
    PROVE  /\ Param(QueryPairs(<<name, "=">> \o v), name) = {Decoded(v)}
           /\ \E p \in QueryPairs(<<name, "=">> \o v) : HasName(p, name)
           /\ \A p \in QueryPairs(<<name, "=">> \o v) : \A other : other # name => ~ HasName(p, other)
<1>1. /\ <<name, "=">> \o v \in Seq(Tokens) /\ NoAmpersand(<<name, "=">> \o v)
      /\ Pair(<<name, "=">> \o v, 1) = [at |-> 1, key |-> <<name>>, value |-> Decoded(v)]
  BY NamedField
<1>2. QED
  BY <1>1, SinglePair

(* and a name without an "=": its value is blank. *)
LEMMA BareParam ==
    ASSUME NEW name \in Names
    PROVE  /\ <<name>> \in Seq(Tokens)
           /\ Param(QueryPairs(<<name>>), name) = {<<>>}
           /\ \E p \in QueryPairs(<<name>>) : HasName(p, name)
           /\ \A p \in QueryPairs(<<name>>) : \A other : other # name => ~ HasName(p, other)
<1> DEFINE f == <<name>>
<1>1. name \in Tokens \ Reserved /\ name # "&"
  BY DEF Names, Tokens, Reserved, Unreserved
<1>2. f \in Seq(Tokens \ Reserved) /\ f \in Seq(Tokens) /\ Len(f) = 1 /\ f[1] = name
  BY <1>1
<1> HIDE DEF f
<1>3. NoAmpersand(f)
  <2>1. \A i \in 1 .. Len(f) : i = 1
    BY <1>2
  <2>2. QED
    BY <1>1, <1>2, <2>1 DEF NoAmpersand
<1>4. Cut(f) - 1 = 1 /\ Cut(f) + 1 = 3
  <2>1. 2 \in 1 .. Len(f) + 1 /\ 2 = Len(f) + 1
    BY <1>2
  <2>2. \A i \in 1 .. Len(f) : i < 2 => f[i] # "="
    <3>1. \A i \in 1 .. Len(f) : i = 1
      BY <1>2
    <3>2. "=" \in Reserved
      BY DEF Reserved
    <3>3. QED
      BY <1>1, <1>2, <3>1, <3>2
  <2>3. Cut(f) = 2
    BY <1>2, <2>1, <2>2, CutIs
  <2>4. QED
    BY <2>3
<1>5. SubSeq(f, 1, 1) = f /\ SubSeq(f, 3, Len(f)) = <<>>
  BY <1>2, SubSeqFull, SubSeqEmpty
<1>6. Decoded(f) = f
  BY <1>2, PlainDecoded
<1>7. Pair(f, 1) = [at |-> 1, key |-> f, value |-> <<>>]
  BY <1>4, <1>5, <1>6, EmptyRows, Zenon DEF Pair
<1>8. Pair(f, 1) = [at |-> 1, key |-> <<name>>, value |-> <<>>]
  BY <1>7 DEF f
<1>9. /\ Param(QueryPairs(f), name) = {<<>>}
      /\ \E p \in QueryPairs(f) : HasName(p, name)
      /\ \A p \in QueryPairs(f) : \A other : other # name => ~ HasName(p, other)
  BY <1>2, <1>3, <1>8, SinglePair
<1>10. QED
  BY <1>2, <1>9 DEF f

(* The fields a later hub adds. *)
Fields == {<<"hint", "=", "1">>, <<"hint">>, <<>>}

(* None of them is a parameter that parse reads. *)
LEMMA OtherFields ==
    ASSUME NEW field \in Fields, NEW name \in Parameters
    PROVE  /\ field \in Seq(Tokens)
           /\ \A p \in QueryPairs(field) : ~ HasName(p, name)
<1>1. name # "hint" /\ "hint" \in Tokens \ Reserved /\ "hint" # "=" /\ "hint" # "&" /\ "hint" \in Names
      /\ "=" \in Tokens /\ "1" \in Tokens /\ "1" # "&"
  BY DEF Parameters, Names, Tokens, Reserved, Unreserved
<1>2. CASE field = <<"hint", "=", "1">>
  <2>1. <<"1">> \in Seq(Tokens) /\ NoAmpersand(<<"1">>)
    <3>1. <<"1">> \in Seq(Tokens) /\ \A i \in 1 .. Len(<<"1">>) : <<"1">>[i] = "1"
      BY <1>1
    <3>2. QED
      BY <1>1, <3>1 DEF NoAmpersand
  <2>2. <<"hint", "=">> \o <<"1">> = field
    <3> DEFINE h == <<"hint", "=">>
               t == <<"1">>
    <3>1. h \in Seq(Tokens) /\ Len(h) = 2 /\ h[1] = "hint" /\ h[2] = "="
          /\ t \in Seq(Tokens) /\ Len(t) = 1 /\ t[1] = "1"
      BY <1>1
    <3>2. field \in Seq(Tokens) /\ Len(field) = 3 /\ field[1] = "hint" /\ field[2] = "=" /\ field[3] = "1"
      BY <1>1, <1>2
    <3> HIDE DEF h, t
    <3>3. /\ h \o t \in Seq(Tokens) /\ Len(h \o t) = Len(h) + Len(t)
          /\ \A i \in 1 .. Len(h) + Len(t) : (h \o t)[i] = IF i <= Len(h) THEN h[i] ELSE t[i - Len(h)]
      BY <3>1, ConcatProperties
    <3>4. Len(h \o t) = Len(field) /\ \A i \in 1 .. Len(h \o t) : (h \o t)[i] = field[i]
      BY <3>1, <3>2, <3>3
    <3>5. h \o t = field
      BY <3>2, <3>3, <3>4, SeqEqual
    <3>6. QED
      BY <3>5 DEF h, t
  <2>3. QED
    BY <1>1, <2>1, <2>2, NamedField, FieldParam
<1>3. CASE field = <<"hint">>
  BY <1>1, <1>3, BareParam
<1>4. CASE field = <<>>
  <2>1. field \in Seq(Tokens) /\ Len(field) = 0
    BY <1>4
  <2>2. NoAmpersand(field)
    BY <2>1 DEF NoAmpersand
  <2>3. Cut(field) = 1
    <3>1. 1 \in 1 .. Len(field) + 1 /\ 1 = Len(field) + 1 /\ \A i \in 1 .. Len(field) : FALSE
      BY <2>1
    <3>2. QED
      BY <2>1, <3>1, CutIs
  <2>4. SubSeq(field, 1, 0) = <<>>
    BY SubSeqEmpty
  <2>5. Pair(field, 1).key = <<>>
    <3>1. Cut(field) - 1 = 0
      BY <2>3
    <3>2. QED
      BY <2>4, <3>1, EmptyRows, Zenon DEF Pair
  <2>6. \A p \in QueryPairs(field) : p = Pair(field, 1)
    BY <2>1, <2>2, OnePair
  <2>7. <<>> # <<name>>
    OBVIOUS
  <2>8. QED
    BY <2>1, <2>5, <2>6, <2>7, Zenon DEF HasName
<1>5. QED
  BY <1>2, <1>3, <1>4 DEF Fields

(* What a query says of a parameter: one value, or nothing as it does not name it. *)
Tells(query, name, said) ==
    /\ Param(QueryPairs(query), name) = said
    /\ \/ (\E p \in QueryPairs(query) : HasName(p, name)) /\ \E v : said = {v}
       \/ (~ \E p \in QueryPairs(query) : HasName(p, name)) /\ said = {}

(* A parameter that is not named has no value. *)
LEMMA NotNamed ==
    ASSUME NEW query, NEW name, \A p \in QueryPairs(query) : ~ HasName(p, name)
    PROVE  Tells(query, name, {})
<1>1. \A v : v \in Param(QueryPairs(query), name)
                 <=> \E p : LastNamed(QueryPairs(query), p, name) /\ v = p.value
  BY ParamIs
<1>2. \A p : ~ LastNamed(QueryPairs(query), p, name)
  BY Zenon DEF LastNamed
<1>3. \A v : v \notin Param(QueryPairs(query), name)
  BY <1>1, <1>2
<1>4. Param(QueryPairs(query), name) = {}
  BY <1>3
<1>5. QED
  BY <1>4, Zenon DEF Tells

(* Of two texts joined, the second has the last word, if it has one. *)
LEMMA JoinedTells ==
    ASSUME NEW a \in Seq(Tokens), NEW b \in Seq(Tokens), NEW name, NEW first, NEW second,
           Tells(a, name, first), Tells(b, name, second)
    PROVE  Tells(Joined(a, b), name, IF second = {} THEN first ELSE second)
<1> DEFINE Named(query) == \E p \in QueryPairs(query) : HasName(p, name)
           ab == Joined(a, b)
<1>1. Param(QueryPairs(ab), name) =
         IF Named(b) THEN Param(QueryPairs(b), name) ELSE Param(QueryPairs(a), name)
  BY JoinedParam
<1>2. \A p : p \in QueryPairs(ab) <=>
              p \in QueryPairs(a) \/ \E q \in QueryPairs(b) : p = Further(q, Len(a) + 1)
  BY JoinedPairs
<1>3. \A q : HasName(Further(q, Len(a) + 1), name) <=> HasName(q, name)
  BY DEF Further, HasName
<1> HIDE DEF ab
<1>4. Named(ab) => Named(a) \/ Named(b)
  BY <1>2, <1>3, Zenon
<1>5. Named(a) \/ Named(b) => Named(ab)
  BY <1>2, <1>3, Zenon
<1>6. /\ Param(QueryPairs(a), name) = first /\ Param(QueryPairs(b), name) = second
      /\ \/ Named(a) /\ \E v : first = {v}
         \/ ~ Named(a) /\ first = {}
      /\ \/ Named(b) /\ \E v : second = {v}
         \/ ~ Named(b) /\ second = {}
  BY Zenon DEF Tells
<1> HIDE DEF Named
<1>7. CASE Named(b)
  <2>1. second # {}
    BY <1>6, <1>7
  <2>2. Param(QueryPairs(ab), name) = second /\ Named(ab) /\ \E v : second = {v}
    BY <1>1, <1>5, <1>6, <1>7
  <2>3. Tells(ab, name, second)
    BY <2>2, Zenon DEF Tells, Named
  <2>4. QED
    BY <2>1, <2>3 DEF ab
<1>8. CASE ~ Named(b)
  <2>1. second = {} /\ Param(QueryPairs(ab), name) = first /\ (Named(ab) <=> Named(a))
    BY <1>1, <1>4, <1>5, <1>6, <1>8
  <2>2. Tells(ab, name, first)
    BY <1>6, <2>1, Zenon DEF Tells, Named
  <2>3. QED
    BY <2>1, <2>2 DEF ab
<1>9. QED
  BY <1>7, <1>8

(* What a query says of both. *)
Heard(query, said) ==
    /\ query \in Seq(Tokens)
    /\ said = [name \in Parameters |-> said[name]]
    /\ \A name \in Parameters : Tells(query, name, said[name])

(* A field more, before or after, changes nothing. *)
LEMMA FieldIgnored ==
    ASSUME NEW query, NEW said, Heard(query, said), NEW field \in Fields
    PROVE  Heard(Joined(field, query), said) /\ Heard(Joined(query, field), said)
<1>1. query \in Seq(Tokens) /\ field \in Seq(Tokens)
  BY OtherFields DEF Heard, Parameters
<1>2. Joined(field, query) \in Seq(Tokens) /\ Joined(query, field) \in Seq(Tokens)
  BY <1>1, JoinedIs
<1>3. ASSUME NEW name \in Parameters
      PROVE  /\ Tells(Joined(field, query), name, said[name])
             /\ Tells(Joined(query, field), name, said[name])
  <2>1. Tells(query, name, said[name])
    BY Zenon DEF Heard
  <2>2. Tells(field, name, {})
    BY OtherFields, NotNamed
  <2>3. Tells(Joined(field, query), name, IF said[name] = {} THEN {} ELSE said[name])
    BY <1>1, <2>1, <2>2, JoinedTells
  <2>4. Tells(Joined(query, field), name, IF {} = {} THEN said[name] ELSE {})
    BY <1>1, <2>1, <2>2, JoinedTells
  <2>5. QED
    BY <2>3, <2>4
<1>4. QED
  BY <1>2, <1>3, Zenon DEF Heard

(* A field that says one parameter says nothing of the other. *)
LEMMA WrittenTells ==
    ASSUME NEW name \in Parameters, NEW value \in Seq(Tokens \ Reserved),
           NEW field \in Written(name, value)
    PROVE  /\ field \in Seq(Tokens)
           /\ Tells(field, name, {value})
           /\ \A other \in Parameters : other # name => Tells(field, other, {})
<1>1. name \in Names
  BY DEF Parameters, Names
<1>2. value \in Seq(Tokens) /\ NoAmpersand(value) /\ Decoded(value) = value
  <2>1. Len(value) \in Nat /\ \A i \in 1 .. Len(value) : value[i] \in Tokens \ Reserved
    BY LenProperties
  <2>2. "&" \in Reserved
    BY DEF Reserved
  <2>3. value \in Seq(Tokens)
    OBVIOUS
  <2>4. QED
    BY <2>1, <2>2, <2>3, PlainDecoded DEF NoAmpersand
<1>3. /\ field \in Seq(Tokens)
      /\ Param(QueryPairs(field), name) = {value}
      /\ \E p \in QueryPairs(field) : HasName(p, name)
      /\ \A p \in QueryPairs(field) : \A other : other # name => ~ HasName(p, other)
  <2>1. CASE field = <<name, "=">> \o value
    <3>1. <<name, "=">> \o value \in Seq(Tokens)
      BY <1>1, <1>2, NamedField
    <3>2. QED
      BY <1>1, <1>2, <2>1, <3>1, FieldParam
  <2>2. CASE field = <<name>> /\ value = <<>>
    BY <1>1, <2>2, BareParam
  <2>3. QED
    BY <2>1, <2>2 DEF Written
<1>4. Tells(field, name, {value})
  BY <1>3, Zenon DEF Tells
<1>5. QED
  BY <1>3, <1>4, NotNamed

(* What is said when a parameter comes after the rest, before it, and alone. *)
SaidAfter(said, name, value) == [said EXCEPT ![name] = {value}]
SaidBefore(said, name, value) == [said EXCEPT ![name] = IF @ = {} THEN {value} ELSE @]
SaidAlone(name, value) == [other \in Parameters |-> IF other = name THEN {value} ELSE {}]

(* After the rest it is the last word, before it if there is no other, alone the only one. *)
LEMMA ParameterHeard ==
    ASSUME NEW query, NEW said, Heard(query, said), NEW name \in Parameters,
           NEW value \in Seq(Tokens \ Reserved), NEW field \in Written(name, value)
    PROVE  /\ Heard(Joined(query, field), SaidAfter(said, name, value))
           /\ Heard(Joined(field, query), SaidBefore(said, name, value))
           /\ Heard(field, SaidAlone(name, value))
<1> DEFINE after == SaidAfter(said, name, value)
           before == SaidBefore(said, name, value)
           alone == SaidAlone(name, value)
<1>1. query \in Seq(Tokens) /\ field \in Seq(Tokens)
  BY WrittenTells DEF Heard
<1>2. Joined(field, query) \in Seq(Tokens) /\ Joined(query, field) \in Seq(Tokens)
  BY <1>1, JoinedIs
<1>3. said = [other \in Parameters |-> said[other]]
  BY Zenon DEF Heard
<1>4. /\ after = [other \in Parameters |-> IF other = name THEN {value} ELSE said[other]]
      /\ before = [other \in Parameters |->
                     IF other = name THEN (IF said[name] = {} THEN {value} ELSE said[name])
                     ELSE said[other]]
      /\ alone = [other \in Parameters |-> IF other = name THEN {value} ELSE {}]
  BY <1>3 DEF SaidAfter, SaidBefore, SaidAlone
<1> HIDE DEF after, before, alone
<1>5. /\ after = [other \in Parameters |-> after[other]]
      /\ before = [other \in Parameters |-> before[other]]
      /\ alone = [other \in Parameters |-> alone[other]]
  BY <1>4
<1>6. ASSUME NEW other \in Parameters
      PROVE  /\ Tells(Joined(query, field), other, after[other])
             /\ Tells(Joined(field, query), other, before[other])
             /\ Tells(field, other, alone[other])
  <2>1. Tells(query, other, said[other])
    BY Zenon DEF Heard
  <2>2. CASE other = name
    <3>1. after[other] = {value} /\ alone[other] = {value}
          /\ before[other] = IF said[other] = {} THEN {value} ELSE said[other]
      BY <1>4, <2>2
    <3>2. Tells(field, other, {value})
      BY <2>2, WrittenTells
    <3>3. Tells(Joined(query, field), other, IF {value} = {} THEN said[other] ELSE {value})
      BY <1>1, <2>1, <3>2, JoinedTells
    <3>4. Tells(Joined(field, query), other, IF said[other] = {} THEN {value} ELSE said[other])
      BY <1>1, <2>1, <3>2, JoinedTells
    <3>5. QED
      BY <3>1, <3>2, <3>3, <3>4
  <2>3. CASE other # name
    <3>1. after[other] = said[other] /\ before[other] = said[other] /\ alone[other] = {}
      BY <1>4, <2>3
    <3>2. Tells(field, other, {})
      BY <2>3, WrittenTells
    <3>3. Tells(Joined(query, field), other, IF {} = {} THEN said[other] ELSE {})
      BY <1>1, <2>1, <3>2, JoinedTells
    <3>4. Tells(Joined(field, query), other, IF said[other] = {} THEN {} ELSE said[other])
      BY <1>1, <2>1, <3>2, JoinedTells
    <3>5. QED
      BY <3>1, <3>2, <3>3, <3>4
  <2>4. QED
    BY <2>2, <2>3
<1>7. Heard(Joined(query, field), after) /\ Heard(Joined(field, query), before) /\ Heard(field, alone)
  BY <1>1, <1>2, <1>5, <1>6, Zenon DEF Heard
<1>8. QED
  BY <1>7 DEF after, before, alone

(* What the hub says, before anybody else has. *)
HubSaid(s, e) == [name \in Parameters |-> IF name = "session" THEN {s} ELSE {e}]

(* The hub's words are in what it mints. *)
LEMMA MintedHeard ==
    ASSUME NEW s \in Seq(Unreserved), NEW e \in Seq(Unreserved \cup Reserved)
    PROVE  Heard(Minted(s, e).query, HubSaid(s, e))
<1> DEFINE v == PercentEncoded(e)
           a == <<"session", "=">> \o s
           b == <<"endpoint", "=">> \o v
<1>1. "session" \in Names /\ "endpoint" \in Names /\ "session" # "endpoint"
      /\ "session" \in Tokens /\ "endpoint" \in Tokens /\ "=" \in Tokens /\ "&" \in Tokens
  BY DEF Names, Tokens, Reserved
<1>2. /\ Unreserved \subseteq Tokens \ Reserved
      /\ \A c \in Unreserved : c # "&"
  BY UnreservedPlain DEF Tokens, Reserved
<1>3. s \in Seq(Tokens \ Reserved) /\ s \in Seq(Tokens) /\ NoAmpersand(s)
  <2>1. Len(s) \in Nat /\ DOMAIN s = 1 .. Len(s) /\ \A i \in 1 .. Len(s) : s[i] \in Unreserved
    BY LenProperties
  <2>2. s \in Seq(Tokens \ Reserved) /\ s \in Seq(Tokens)
    BY <1>2
  <2>3. QED
    BY <1>2, <2>1, <2>2 DEF NoAmpersand
<1>4. Decoded(s) = s
  BY <1>3, PlainDecoded
<1>5. v \in Seq(Tokens) /\ NoAmpersand(v) /\ Decoded(v) = e
  BY EncodedRestored DEF Restored, NoAmpersand, HubCharacters
<1> HIDE DEF v
<1>6. a \in Seq(Tokens) /\ b \in Seq(Tokens)
  BY <1>1, <1>3, <1>5, NamedField
<1>7. Minted(s, e).query = Joined(a, b)
  <2>1. Minted(s, e).query = ((a \o <<"&", "endpoint", "=">>) \o v)
    BY Zenon DEF Minted, v
  <2>2. <<"&", "endpoint", "=">> = <<"&">> \o <<"endpoint", "=">>
    BY <1>1
  <2>3. /\ <<"&">> \in Seq(Tokens) /\ <<"endpoint", "=">> \in Seq(Tokens)
        /\ <<"&", "endpoint", "=">> \in Seq(Tokens)
    BY <1>1
  <2> HIDE DEF a
  <2>4. (a \o <<"&", "endpoint", "=">>) \o v = a \o (<<"&", "endpoint", "=">> \o v)
    BY <1>5, <1>6, <2>3, ConcatAssociative
  <2>5. (<<"&">> \o <<"endpoint", "=">>) \o v = <<"&">> \o (<<"endpoint", "=">> \o v)
    BY <1>5, <2>3, ConcatAssociative
  <2>6. (a \o <<"&">>) \o b = a \o (<<"&">> \o b)
    BY <1>6, <2>3, ConcatAssociative
  <2>7. Joined(a, b) = (a \o <<"&">>) \o b
    BY Zenon DEF Joined
  <2>8. QED
    BY <2>1, <2>2, <2>4, <2>5, <2>6, <2>7, Zenon
<1>8. /\ Tells(a, "session", {s}) /\ Tells(b, "session", {})
      /\ Tells(a, "endpoint", {}) /\ Tells(b, "endpoint", {e})
  <2>1. /\ Param(QueryPairs(a), "session") = {s}
        /\ \E p \in QueryPairs(a) : HasName(p, "session")
        /\ \A p \in QueryPairs(a) : \A other : other # "session" => ~ HasName(p, other)
    BY <1>1, <1>3, <1>4, FieldParam
  <2>2. /\ Param(QueryPairs(b), "endpoint") = {e}
        /\ \E p \in QueryPairs(b) : HasName(p, "endpoint")
        /\ \A p \in QueryPairs(b) : \A other : other # "endpoint" => ~ HasName(p, other)
    BY <1>1, <1>5, FieldParam
  <2> HIDE DEF a, b
  <2>3. Tells(a, "session", {s}) /\ Tells(b, "endpoint", {e})
    BY <2>1, <2>2, Zenon DEF Tells
  <2>4. Tells(a, "endpoint", {}) /\ Tells(b, "session", {})
    BY <1>1, <2>1, <2>2, NotNamed
  <2>5. QED
    BY <2>3, <2>4
<1> HIDE DEF a, b
<1>9. /\ Tells(Joined(a, b), "session", IF {} = {} THEN {s} ELSE {})
      /\ Tells(Joined(a, b), "endpoint", IF {e} = {} THEN {} ELSE {e})
      /\ Joined(a, b) \in Seq(Tokens)
  BY <1>6, <1>8, JoinedTells, JoinedIs
<1>10. Tells(Joined(a, b), "session", {s}) /\ Tells(Joined(a, b), "endpoint", {e})
  BY <1>9
<1>11. /\ HubSaid(s, e) = [name \in Parameters |-> HubSaid(s, e)[name]]
       /\ HubSaid(s, e)["session"] = {s} /\ HubSaid(s, e)["endpoint"] = {e}
  BY <1>1 DEF HubSaid, Parameters
<1>12. \A name \in Parameters : Tells(Joined(a, b), name, HubSaid(s, e)[name])
  BY <1>10, <1>11 DEF Parameters
<1>13. QED
  BY <1>7, <1>9, <1>11, <1>12, Zenon DEF Heard

(* A query and what it says, in a url of any scheme and host. *)
UrlHeard(url, said) ==
    /\ url = [scheme |-> url.scheme, host |-> url.host, query |-> url.query]
    /\ Heard(url.query, said)

(* What parse makes of them. *)
LEMMA ParseHears ==
    ASSUME NEW url, NEW said, Heard(url.query, said)
    PROVE  /\ \A p \in Parse(url) : /\ said["session"] = {p.pair_session_id}
                                    /\ said["endpoint"] = {p.endpoint}
           /\ Parse(url) # {} <=>
                 /\ \A name \in Parameters : said[name] \notin {{}, {<<>>}}
                 /\ url.scheme = "quickring" /\ url.host = "pair"
<1> DEFINE S == said["session"]
           E == said["endpoint"]
           aimed == url.scheme = "quickring" /\ url.host = "pair"
           sessions == S \ {<<>>}
           endpoints == E \ {<<>>}
           parsed == {[pair_session_id |-> s, endpoint |-> e] : s \in sessions, e \in endpoints}
<1>1. /\ "session" \in Parameters /\ "endpoint" \in Parameters
      /\ \A name \in Parameters : name = "session" \/ name = "endpoint"
  BY DEF Parameters
<1>2. Tells(url.query, "session", S) /\ Tells(url.query, "endpoint", E)
  BY <1>1, Zenon DEF Heard
<1>3. /\ Param(QueryPairs(url.query), "session") = S
      /\ Param(QueryPairs(url.query), "endpoint") = E
  BY <1>2, Zenon DEF Tells
<1>4. (S = {} \/ \E v : S = {v}) /\ (E = {} \/ \E v : E = {v})
  BY <1>2, Zenon DEF Tells
<1>5. Parse(url) = IF aimed THEN parsed ELSE {}
  BY <1>3 DEF Parse, Required
<1> HIDE DEF S, E, aimed
<1>6. ASSUME NEW p \in parsed
      PROVE  S = {p.pair_session_id} /\ E = {p.endpoint}
  <2>1. PICK s \in sessions, e \in endpoints : p = [pair_session_id |-> s, endpoint |-> e]
    BY <1>6
  <2>2. p.pair_session_id = s /\ p.endpoint = e
    BY <2>1
  <2>3. S = {s} /\ E = {e}
    BY <1>4, <2>1
  <2>4. QED
    BY <2>2, <2>3
<1>7. parsed # {} <=> S \notin {{}, {<<>>}} /\ E \notin {{}, {<<>>}}
  <2>1. ASSUME S \notin {{}, {<<>>}}, E \notin {{}, {<<>>}}
        PROVE  parsed # {}
    <3>1. PICK s, e : S = {s} /\ E = {e}
      BY <1>4, <2>1
    <3>2. s \in sessions /\ e \in endpoints
      BY <2>1, <3>1
    <3>3. [pair_session_id |-> s, endpoint |-> e] \in parsed
      BY <3>2
    <3> HIDE DEF parsed
    <3>4. QED
      BY <3>3
  <2>2. ASSUME S \in {{}, {<<>>}} \/ E \in {{}, {<<>>}}
        PROVE  parsed = {}
    <3>1. sessions = {} \/ endpoints = {}
      BY <2>2
    <3>2. QED
      BY <3>1
  <2>3. QED
    BY <2>1, <2>2
<1> HIDE DEF parsed
<1>8. \A p \in Parse(url) : S = {p.pair_session_id} /\ E = {p.endpoint}
  BY <1>5, <1>6
<1>9. Parse(url) # {} <=> (S \notin {{}, {<<>>}} /\ E \notin {{}, {<<>>}}) /\ aimed
  BY <1>5, <1>7
<1>10. (\A name \in Parameters : said[name] \notin {{}, {<<>>}})
          <=> S \notin {{}, {<<>>}} /\ E \notin {{}, {<<>>}}
  BY <1>1 DEF S, E
<1>11. QED
  BY <1>8, <1>9, <1>10 DEF S, E, aimed

(* A url on its way says what was last said of each parameter. *)
HubInv ==
    payload # None =>
        /\ payload = [said |-> payload.said, url |-> payload.url]
        /\ UrlHeard(payload.url, payload.said)

(* It does when it is minted, *)
LEMMA HubInvInit == Init => HubInv
<1> SUFFICES ASSUME Init, payload # None
             PROVE  HubInv
  BY DEF HubInv
<1>1. PICK s \in Sessions, e \in Endpoints :
         payload = [said |-> HubSaid(s, e), url |-> Minted(s, e)]
  BY Zenon DEF Init, HubSaid
<1>2. s \in Seq(Unreserved) /\ e \in Seq(Unreserved \cup Reserved)
  BY InputsAssumption
<1>3. Heard(Minted(s, e).query, HubSaid(s, e))
  BY <1>2, MintedHeard
<1>4. Minted(s, e) = [scheme |-> Minted(s, e).scheme, host |-> Minted(s, e).host,
                      query |-> Minted(s, e).query]
  BY DEF Minted
<1>5. payload.said = HubSaid(s, e) /\ payload.url = Minted(s, e)
  BY <1>1
<1>6. QED
  BY <1>1, <1>3, <1>4, <1>5, Zenon DEF HubInv, UrlHeard

(* after a rewriting that says what it should, *)
LEMMA HubInvRewritten ==
    ASSUME HubInv, payload # None, NEW url, NEW said, Rewritten(url, said), UrlHeard(url, said)
    PROVE  HubInv'
<1>1. payload = [said |-> payload.said, url |-> payload.url]
  BY Zenon DEF HubInv
<1>2. payload' = [payload EXCEPT !.url = url, !.said = said]
  BY Zenon DEF Rewritten
<1>3. payload' = [said |-> said, url |-> url]
  BY <1>1, <1>2
<1>4. payload'.said = said /\ payload'.url = url
  BY <1>3
<1>5. QED
  BY <1>3, <1>4, Zenon DEF HubInv

(* of its query, *)
LEMMA HubInvQuery ==
    ASSUME HubInv, payload # None, NEW query, NEW said, Rewritten(WithQuery(query), said),
           Heard(query, said)
    PROVE  HubInv'
<1>1. payload.url = [scheme |-> payload.url.scheme, host |-> payload.url.host,
                     query |-> payload.url.query]
  BY Zenon DEF HubInv, UrlHeard
<1>2. WithQuery(query) = [payload.url EXCEPT !.query = query]
  BY Zenon DEF WithQuery
<1>3. WithQuery(query) = [scheme |-> payload.url.scheme, host |-> payload.url.host, query |-> query]
  BY <1>1, <1>2
<1>4. /\ WithQuery(query).scheme = payload.url.scheme /\ WithQuery(query).host = payload.url.host
      /\ WithQuery(query).query = query
  BY <1>3
<1>5. UrlHeard(WithQuery(query), said)
  BY <1>3, <1>4, Zenon DEF UrlHeard
<1>6. QED
  BY <1>5, HubInvRewritten

(* and after every step. *)
LEMMA HubInvNext == HubInv /\ [Next]_vars => HubInv'
<1> SUFFICES ASSUME HubInv, [Next]_vars
             PROVE  HubInv'
  OBVIOUS
<1> DEFINE query == payload.url.query
           said == payload.said
<1>1. CASE payload' = payload
  BY <1>1, Zenon DEF HubInv
<1>2. payload # None => /\ payload.url = [scheme |-> payload.url.scheme, host |-> payload.url.host,
                                           query |-> query]
                        /\ Heard(query, said)
  BY Zenon DEF HubInv, UrlHeard
<1>3. CASE HubAddsField
  <2>1. payload # None
    BY <1>3, Zenon DEF HubAddsField
  <2>2. PICK field \in Fields : \/ Rewritten(WithQuery(Joined(field, query)), said)
                                \/ Rewritten(WithQuery(Joined(query, field)), said)
    BY <1>3, Zenon DEF HubAddsField, Joined, Fields
  <2>3. Heard(Joined(field, query), said) /\ Heard(Joined(query, field), said)
    <3> HIDE DEF query, said
    <3>1. QED
      BY <1>2, <2>1, FieldIgnored
  <2>4. QED
    BY <2>1, <2>2, <2>3, HubInvQuery
<1>4. CASE SaysParameter
  <2>1. payload # None
    BY <1>4, Zenon DEF SaysParameter
  <2>2. PICK name \in Parameters, value \in {<<>>, <<"x">>} : \E field \in Written(name, value) :
           \/ Rewritten(WithQuery(Joined(query, field)), SaidAfter(said, name, value))
           \/ Rewritten(WithQuery(Joined(field, query)), SaidBefore(said, name, value))
           \/ Rewritten(WithQuery(field), SaidAlone(name, value))
    BY <1>4, Zenon DEF SaysParameter, Joined, SaidAfter, SaidBefore, SaidAlone
  <2>3. PICK field \in Written(name, value) :
           \/ Rewritten(WithQuery(Joined(query, field)), SaidAfter(said, name, value))
           \/ Rewritten(WithQuery(Joined(field, query)), SaidBefore(said, name, value))
           \/ Rewritten(WithQuery(field), SaidAlone(name, value))
    BY <2>2, Zenon
  <2>4. value \in Seq(Tokens \ Reserved)
    <3> DEFINE T == Tokens \ Reserved
    <3>1. "x" \in T
      BY DEF Tokens, Unreserved, Reserved
    <3> HIDE DEF T
    <3>2. <<>> \in Seq(T) /\ <<"x">> \in Seq(T)
      BY <3>1
    <3>3. QED
      BY <3>2 DEF T
  <2>5. /\ Heard(Joined(query, field), SaidAfter(said, name, value))
        /\ Heard(Joined(field, query), SaidBefore(said, name, value))
        /\ Heard(field, SaidAlone(name, value))
    <3>1. Heard(query, said)
      BY <1>2, <2>1
    <3> HIDE DEF query, said
    <3>2. QED
      BY <2>4, <3>1, ParameterHeard, Zenon
  <2>6. QED
    BY <2>1, <2>3, <2>5, HubInvQuery
<1>5. CASE Redirects
  <2>1. payload # None
    BY <1>5, Zenon DEF Redirects
  <2>2. PICK url : /\ Rewritten(url, said)
                   /\ \/ url = [payload.url EXCEPT !.scheme = "https"]
                      \/ \E host : url = [payload.url EXCEPT !.host = host]
    BY <1>5, Zenon DEF Redirects
  <2>3. url = [scheme |-> url.scheme, host |-> url.host, query |-> url.query] /\ url.query = query
    BY <1>2, <2>1, <2>2
  <2>4. UrlHeard(url, said)
    BY <1>2, <2>1, <2>3, Zenon DEF UrlHeard
  <2>5. QED
    BY <2>1, <2>2, <2>4, HubInvRewritten
<1>6. CASE LowersCase \/ MistakesLetter \/ Respaces \/ Slips \/ Smudges
  <2>1. payload' = payload
    BY <1>6, Zenon DEF LowersCase, MistakesLetter, Respaces, Slips, Smudges, Edited
  <2>2. QED
    BY <1>1, <2>1
<1>7. CASE vars' = vars
  BY <1>1, <1>7, Zenon DEF vars
<1>8. QED
  BY <1>3, <1>4, <1>5, <1>6, <1>7 DEF Next

(***************************************************************************)
(* The last word on each parameter counts, however many hands the payload  *)
(* has gone through, for every session without reserved characters and     *)
(* every endpoint a hub may have said (percent_encode, qr_payload::parse). *)
(***************************************************************************)
THEOREM LastWordsCount == Spec => []LastWordCounts
<1>1. HubInv => LastWordCounts
  <2>1. ASSUME HubInv, payload # None
        PROVE  Heard(payload.url.query, payload.said)
    BY <2>1, Zenon DEF HubInv, UrlHeard
  <2>2. QED
    BY <2>1, ParseHears DEF LastWordCounts
<1>2. QED
  BY HubInvInit, HubInvNext, <1>1, PTL DEF Spec
=============================================================================
