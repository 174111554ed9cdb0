------------------------- MODULE RateLimiterProofs --------------------------
(***************************************************************************)
(* What RateLimiter promises for every capacity, every minute and every    *)
(* number of addresses and threads: the bucket's bounds, the deserved      *)
(* refusal, and the rate of an address whose readings came in order.       *)
(***************************************************************************)
EXTENDS RateLimiter, TLAPS

(* A request finds less than a token only if one was spent since it came in. *)
SpentInv ==
    \A ip \in Ips : buckets[ip] # None =>
        LET own == granted[ip]
        IN  /\ own # <<>>
            /\ \/ buckets[ip].tokens = Full
               \/ buckets[ip].tokens >= Capacity * (buckets[ip].last - own[Len(own)])

(***************************************************************************)
(* Where readings reach the buckets in order: what an address was allowed  *)
(* from its i-th request on, with what is left in its bucket, is at most a *)
(* full bucket and the refill up to the bucket's last reading.             *)
(***************************************************************************)
BudgetInv ==
    \A ip \in Ips \ overtaken :
        /\ buckets[ip] = None => granted[ip] = <<>>
        /\ buckets[ip] # None => \A i \in 1 .. Len(granted[ip]) :
              /\ granted[ip][i] <= buckets[ip].last
              /\ (Len(granted[ip]) - i + 1) * Minute + buckets[ip].tokens
                    <= Full + Capacity * (buckets[ip].last - granted[ip][i])

-----------------------------------------------------------------------------
LEMMA CapacityPositive == Capacity \in Nat /\ Capacity >= 1 /\ Full \in Nat /\ Full >= Minute
<1>1. Capacity \in Nat /\ Capacity >= 1
  BY LimiterAssumption DEF Capacity
<1>2. Full \in Nat /\ Full >= Minute
  BY <1>1, LimiterAssumption, SMT DEF Full
<1> QED  BY <1>1, <1>2

LEMMA Distributes ==
    ASSUME NEW a \in Int, NEW b \in Int, NEW c \in Int
    PROVE  /\ a * (b + c) = a * b + a * c
           /\ (b + c) * a = b * a + c * a
  BY SMT

LEMMA ProductType ==
    ASSUME NEW a \in Int, NEW b \in Int
    PROVE  a * b \in Int
  BY SMT

LEMMA Monotone ==
    ASSUME NEW a \in Nat, NEW b \in Int, NEW c \in Int, b <= c
    PROVE  a * b <= a * c
  BY SMT

LEMMA LastOfAppend ==
    ASSUME NEW S, NEW s \in Seq(S), NEW e \in S
    PROVE  /\ Append(s, e) # <<>>
           /\ Len(Append(s, e)) = Len(s) + 1
           /\ Append(s, e)[Len(Append(s, e))] = e
  OBVIOUS

LEMMA ElementInRange ==
    ASSUME NEW S, NEW s \in Seq(S), NEW i \in 1 .. Len(s)
    PROVE  s[i] \in S
  OBVIOUS

LEMMA LastInRange ==
    ASSUME NEW s \in Seq(0 .. Horizon), s # <<>>
    PROVE  s[Len(s)] \in Nat /\ s[Len(s)] <= Horizon
<1>1. Len(s) \in 1 .. Len(s)
  OBVIOUS
<1> QED  BY <1>1, LimiterAssumption

(* What a request finds is a possible content of its bucket. *)
LEMMA AvailableRange ==
    ASSUME TypeOK, NEW t \in Threads, call[t] # None
    PROVE  /\ call[t].ip \in Ips
           /\ call[t].now \in 0 .. Horizon
           /\ Available(call[t].ip, call[t].now) \in 0 .. Full
<1>1. call[t].ip \in Ips /\ call[t].now \in 0 .. Horizon
  BY DEF TypeOK, Calls
<1>2. CASE buckets[call[t].ip] = None
  BY <1>1, <1>2, CapacityPositive DEF Available
<1>3. CASE buckets[call[t].ip] # None
  <2> DEFINE b == buckets[call[t].ip]
             e == Elapsed(b.last, call[t].now)
  <2>1. b.tokens \in 0 .. Full /\ b.last \in 0 .. Horizon
    BY <1>1, <1>3 DEF TypeOK, Buckets
  <2>2. e \in Nat
    BY <1>1, <2>1, LimiterAssumption DEF Elapsed
  <2>3. e * Capacity \in Nat
    BY <2>2, CapacityPositive, SMT
  <2>4. AtMostFull(b.tokens + e * Capacity) \in 0 .. Full
    BY <2>1, <2>3, CapacityPositive DEF AtMostFull
  <2> QED  BY <1>1, <1>3, <2>4 DEF Available
<1> QED  BY <1>1, <1>2, <1>3

-----------------------------------------------------------------------------
LEMMA TypeStep == TypeOK /\ [Next]_vars => TypeOK'
<1> SUFFICES ASSUME TypeOK, [Next]_vars PROVE TypeOK'
  OBVIOUS
<1>1. CASE Tick
  BY <1>1, LimiterAssumption DEF Tick, TypeOK, Calls
<1>2. ASSUME NEW t \in Threads, NEW ip \in Ips, ReadsClock(t, ip) PROVE TypeOK'
  BY <1>2, LimiterAssumption DEF ReadsClock, TypeOK, Calls
<1>3. ASSUME NEW t \in Threads, Allows(t) PROVE TypeOK'
  <2> DEFINE ip == call[t].ip
             now == call[t].now
             left == Available(ip, now) - Minute
  <2>1. ip \in Ips /\ now \in 0 .. Horizon /\ Available(ip, now) \in 0 .. Full
    BY <1>3, AvailableRange DEF Allows
  <2>2. left \in 0 .. Full
    BY <1>3, <2>1, CapacityPositive, LimiterAssumption DEF Allows
  <2>3. /\ buckets' = [buckets EXCEPT ![ip] = [tokens |-> left, last |-> now]]
        /\ granted' = [granted EXCEPT ![ip] = Append(@, now)]
        /\ call' = [call EXCEPT ![t] = None]
        /\ clock' = clock
    BY <1>3 DEF Allows
  <2>4. overtaken' \subseteq overtaken \cup {ip}
    BY <1>3 DEF Allows, NotesOrder
  <2> HIDE DEF ip, now, left
  <2>5. buckets' \in [Ips -> Buckets \cup {None}]
    BY <2>1, <2>2, <2>3 DEF TypeOK, Buckets
  <2>6. granted' \in [Ips -> Seq(0 .. Horizon)]
    BY <2>1, <2>3 DEF TypeOK
  <2>7. overtaken' \subseteq Ips
    BY <2>1, <2>4 DEF TypeOK
  <2> QED  BY <2>3, <2>5, <2>6, <2>7 DEF TypeOK
<1>4. ASSUME NEW t \in Threads, Refuses(t) PROVE TypeOK'
  <2> DEFINE ip == call[t].ip
             now == call[t].now
             left == Available(ip, now)
  <2>1. ip \in Ips /\ now \in 0 .. Horizon /\ left \in 0 .. Full
    BY <1>4, AvailableRange DEF Refuses
  <2>2. /\ buckets' = [buckets EXCEPT ![ip] = [tokens |-> left, last |-> now]]
        /\ granted' = granted
        /\ call' = [call EXCEPT ![t] = None]
        /\ clock' = clock
    BY <1>4 DEF Refuses
  <2>3. overtaken' \subseteq overtaken \cup {ip}
    BY <1>4 DEF Refuses, NotesOrder
  <2> HIDE DEF ip, now, left
  <2>4. buckets' \in [Ips -> Buckets \cup {None}]
    BY <2>1, <2>2 DEF TypeOK, Buckets
  <2>5. overtaken' \subseteq Ips
    BY <2>1, <2>3 DEF TypeOK
  <2> QED  BY <2>2, <2>4, <2>5 DEF TypeOK
<1>5. CASE UNCHANGED vars
  BY <1>5 DEF vars, TypeOK
<1> QED  BY <1>1, <1>2, <1>3, <1>4, <1>5 DEF Next

(***************************************************************************)
(* A bucket holds between nothing and Full, whatever order the clock       *)
(* readings reach it in (RateLimiter::allow).                              *)
(***************************************************************************)
THEOREM LimiterTypeCorrect == Spec => []TypeOK
<1>1. Init => TypeOK
  BY LimiterAssumption DEF Init, TypeOK
<1> QED  BY <1>1, TypeStep, PTL DEF Spec

-----------------------------------------------------------------------------
(* What an existing bucket offers: it is full, or it was refilled since its last reading. *)
LEMMA RefillOf ==
    ASSUME TypeOK, NEW t \in Threads, call[t] # None, buckets[call[t].ip] # None
    PROVE  LET b == buckets[call[t].ip]
               now == call[t].now
               a == Available(call[t].ip, now)
           IN  /\ b.tokens \in 0 .. Full /\ b.last \in Nat /\ now \in Nat /\ a \in Nat
               /\ a = Full \/ a = b.tokens + Elapsed(b.last, now) * Capacity
               /\ Elapsed(b.last, now) * Capacity \in Nat
               /\ a <= b.tokens + Elapsed(b.last, now) * Capacity
<1> DEFINE b == buckets[call[t].ip]
           now == call[t].now
           e == Elapsed(b.last, now)
           a == Available(call[t].ip, now)
<1>1. call[t].ip \in Ips /\ now \in Nat /\ a \in 0 .. Full
  BY AvailableRange
<1>2. b.tokens \in 0 .. Full /\ b.last \in Nat
  BY <1>1 DEF TypeOK, Buckets
<1>3. e \in Nat
  BY <1>1, <1>2 DEF Elapsed
<1>4. e * Capacity \in Nat
  BY <1>3, CapacityPositive, SMT
<1>5. a = AtMostFull(b.tokens + e * Capacity)
  BY DEF Available
<1>6. /\ a = Full \/ a = b.tokens + e * Capacity
      /\ a <= b.tokens + e * Capacity
  <2> HIDE DEF a, e, b
  <2> QED  BY <1>2, <1>4, <1>5, CapacityPositive DEF AtMostFull
<1> QED  BY <1>1, <1>2, <1>4, <1>6, CapacityPositive

(* A new bucket is full, and a full bucket refuses nobody. *)
LEMMA RefusedHasBucket ==
    ASSUME TypeOK, NEW t \in Threads, Refuses(t)
    PROVE  /\ buckets[call[t].ip] # None
           /\ Available(call[t].ip, call[t].now) # Full
<1>1. Available(call[t].ip, call[t].now) < Minute /\ call[t] # None
  BY DEF Refuses
<1>2. Available(call[t].ip, call[t].now) # Full
  BY <1>1, CapacityPositive, LimiterAssumption, AvailableRange
<1> QED  BY <1>2 DEF Available

(* What a request finds covers the refill since its address was last allowed. *)
LEMMA SpentRefill ==
    ASSUME TypeOK, SpentInv, NEW t \in Threads, call[t] # None, buckets[call[t].ip] # None
    PROVE  LET own == granted[call[t].ip]
               now == call[t].now
               a == Available(call[t].ip, now)
           IN  /\ own # <<>>
               /\ a = Full \/ Capacity * (now - own[Len(own)]) <= a
<1> DEFINE b == buckets[call[t].ip]
           now == call[t].now
           own == granted[call[t].ip]
           l == own[Len(own)]
           e == Elapsed(b.last, now)
           a == Available(call[t].ip, now)
<1>1. call[t].ip \in Ips
  BY AvailableRange
<1>2. own # <<>> /\ (b.tokens = Full \/ b.tokens >= Capacity * (b.last - l))
  BY <1>1 DEF SpentInv
<1>3. own \in Seq(0 .. Horizon)
  BY <1>1 DEF TypeOK
<1>4. l \in Nat
  BY <1>2, <1>3, LimiterAssumption
<1>5. /\ b.tokens \in 0 .. Full /\ b.last \in Nat /\ now \in Nat /\ a \in Nat
      /\ a = Full \/ a = b.tokens + e * Capacity
      /\ a <= b.tokens + e * Capacity
      /\ e * Capacity \in Nat
  BY RefillOf
<1>6. a \in 0 .. Full
  BY AvailableRange
<1>7. e \in Nat /\ now - b.last <= e
  BY <1>5 DEF Elapsed
<1> HIDE DEF b, now, own, l, e, a
<1>8. CASE b.tokens = Full
  BY <1>2, <1>5, <1>6, <1>8, CapacityPositive DEF a, own, now, l
<1>9. CASE a # Full /\ b.tokens >= Capacity * (b.last - l)
  <2>1. a = b.tokens + e * Capacity
    BY <1>5, <1>9
  <2>2. Capacity * (now - b.last) <= Capacity * e
    BY <1>5, <1>7, CapacityPositive, Monotone
  <2>3. Capacity * (now - l) = Capacity * (now - b.last) + Capacity * (b.last - l)
    <3>1. now - l = (now - b.last) + (b.last - l)
      BY <1>4, <1>5
    <3>2. QED
      BY <3>1, <1>4, <1>5, CapacityPositive, Distributes
  <2>4. Capacity * e = e * Capacity
    BY <1>7, CapacityPositive, SMT
  <2> DEFINE x == Capacity * (now - b.last)
             y == Capacity * (b.last - l)
             z == e * Capacity
  <2>5. x \in Int /\ y \in Int /\ z \in Int
    BY <1>4, <1>5, <1>7, CapacityPositive, SMT
  <2>6. x <= z /\ y <= b.tokens
    BY <2>2, <2>4, <1>9, <2>5, <1>5
  <2>7. x + y <= a
    <3> HIDE DEF x, y, z
    <3> QED  BY <2>1, <2>5, <2>6, <1>5 DEF z
  <2> QED  BY <1>2, <2>3, <2>7 DEF a, own, now, l
<1> QED  BY <1>2, <1>5, <1>8, <1>9 DEF a, own, now, l, b

LEMMA SpentStep == TypeOK /\ TypeOK' /\ SpentInv /\ [Next]_vars => SpentInv'
<1> SUFFICES ASSUME TypeOK, TypeOK', SpentInv, [Next]_vars PROVE SpentInv'
  OBVIOUS
<1>1. ASSUME UNCHANGED <<buckets, granted>> PROVE SpentInv'
  BY <1>1 DEF SpentInv
<1>2. ASSUME NEW t \in Threads, Allows(t) PROVE SpentInv'
  <2> DEFINE ip == call[t].ip
             now == call[t].now
             left == Available(ip, now) - Minute
  <2>1. ip \in Ips /\ now \in 0 .. Horizon /\ Available(ip, now) \in 0 .. Full
    BY <1>2, AvailableRange DEF Allows
  <2>2. /\ left \in Nat
        /\ buckets' = [buckets EXCEPT ![ip] = [tokens |-> left, last |-> now]]
        /\ granted' = [granted EXCEPT ![ip] = Append(@, now)]
    BY <1>2, <2>1, LimiterAssumption, CapacityPositive DEF Allows
  <2> HIDE DEF ip, now, left
  <2>3. ASSUME NEW a \in Ips, a # ip, buckets'[a] # None
        PROVE  LET own == granted'[a]
               IN  /\ own # <<>>
                   /\ \/ buckets'[a].tokens = Full
                      \/ buckets'[a].tokens >= Capacity * (buckets'[a].last - own[Len(own)])
    BY <2>2, <2>3 DEF TypeOK, SpentInv
  <2>4. granted[ip] \in Seq(0 .. Horizon)
    BY <2>1 DEF TypeOK
  <2>5. /\ granted'[ip] # <<>>
        /\ granted'[ip][Len(granted'[ip])] = now
    <3>1. granted'[ip] = Append(granted[ip], now)
      BY <2>1, <2>2 DEF TypeOK
    <3> QED  BY <2>1, <2>4, <3>1, LastOfAppend
  <2>6. buckets'[ip].tokens = left /\ buckets'[ip].last = now
    BY <2>1, <2>2 DEF TypeOK
  <2>7. Capacity * (now - now) = 0
    BY <2>1, CapacityPositive, SMT
  <2>8. buckets'[ip].tokens >= Capacity * (buckets'[ip].last - granted'[ip][Len(granted'[ip])])
    BY <2>2, <2>5, <2>6, <2>7
  <2> QED  BY <2>3, <2>5, <2>8 DEF SpentInv
<1>3. ASSUME NEW t \in Threads, Refuses(t) PROVE SpentInv'
  <2> DEFINE ip == call[t].ip
             now == call[t].now
             left == Available(ip, now)
  <2>1. ip \in Ips /\ now \in 0 .. Horizon /\ left \in 0 .. Full /\ call[t] # None
    BY <1>3, AvailableRange DEF Refuses
  <2>2. /\ buckets' = [buckets EXCEPT ![ip] = [tokens |-> left, last |-> now]]
        /\ granted' = granted
    BY <1>3 DEF Refuses
  <2>3. /\ granted[ip] # <<>>
        /\ left = Full \/ Capacity * (now - granted[ip][Len(granted[ip])]) <= left
    BY <1>3, <2>1, RefusedHasBucket, SpentRefill
  <2> HIDE DEF ip, now, left
  <2>4. ASSUME NEW a \in Ips, a # ip, buckets'[a] # None
        PROVE  LET own == granted'[a]
               IN  /\ own # <<>>
                   /\ \/ buckets'[a].tokens = Full
                      \/ buckets'[a].tokens >= Capacity * (buckets'[a].last - own[Len(own)])
    BY <2>2, <2>4 DEF TypeOK, SpentInv
  <2>5. buckets'[ip].tokens = left /\ buckets'[ip].last = now
    BY <2>1, <2>2 DEF TypeOK
  <2> DEFINE c == Capacity * (now - granted[ip][Len(granted[ip])])
  <2>6. c \in Int
    <3>1. granted[ip] \in Seq(0 .. Horizon)
      BY <2>1 DEF TypeOK
    <3>2. granted[ip][Len(granted[ip])] \in Int
      BY <2>3, <3>1, LastInRange
    <3> QED  BY <2>1, <3>2, CapacityPositive, SMT
  <2>7. left = Full \/ left >= c
    BY <2>1, <2>3, <2>6, CapacityPositive
  <2> QED  BY <2>2, <2>3, <2>4, <2>5, <2>7 DEF SpentInv
<1> QED  BY <1>1, <1>2, <1>3 DEF Next, Tick, ReadsClock, vars

(***************************************************************************)
(* Whatever other addresses and other threads do, a 429 means that the     *)
(* address was allowed a request less than a token's refill time before.   *)
(***************************************************************************)
THEOREM RefusalDeserved == Spec => RefusedOnlyWhenSpent
<1>1. Init => TypeOK /\ SpentInv
  BY LimiterAssumption DEF Init, TypeOK, SpentInv
<1>2. ASSUME TypeOK, SpentInv, [Next]_vars, NEW t \in Threads,
             call[t] # None, call'[t] = None, granted' = granted
      PROVE  LET own == granted[call[t].ip]
             IN  /\ own # <<>>
                 /\ Capacity * (call[t].now - own[Len(own)]) < Minute
  <2>1. ~ Tick /\ ~ UNCHANGED vars
    BY <1>2 DEF Tick, vars
  <2>2. ASSUME NEW s \in Threads, NEW ip \in Ips, ReadsClock(s, ip) PROVE FALSE
    BY <1>2, <2>2 DEF ReadsClock, TypeOK
  <2>3. ASSUME NEW s \in Threads, Allows(s) PROVE FALSE
    <3>1. call[s].ip \in Ips
      BY <2>3, <1>2, AvailableRange DEF Allows
    <3>2. granted' = [granted EXCEPT ![call[s].ip] = Append(@, call[s].now)]
      BY <2>3 DEF Allows
    <3>3. /\ granted[call[s].ip] \in Seq(0 .. Horizon)
          /\ granted'[call[s].ip] = Append(granted[call[s].ip], call[s].now)
      BY <3>1, <3>2, <1>2 DEF TypeOK
    <3>4. Len(granted'[call[s].ip]) = Len(granted[call[s].ip]) + 1
      BY <3>3
    <3> QED  BY <3>3, <3>4, <1>2
  <2>4. ASSUME NEW s \in Threads, Refuses(s) PROVE Refuses(t)
    <3>1. call' = [call EXCEPT ![s] = None]
      BY <2>4 DEF Refuses
    <3>2. s = t
      BY <1>2, <3>1 DEF TypeOK
    <3> QED  BY <2>4, <3>2
  <2>5. Refuses(t)
    BY <1>2, <2>1, <2>2, <2>3, <2>4 DEF Next
  <2>6. /\ granted[call[t].ip] # <<>>
        /\ Capacity * (call[t].now - granted[call[t].ip][Len(granted[call[t].ip])])
              <= Available(call[t].ip, call[t].now)
    BY <1>2, <2>5, RefusedHasBucket, SpentRefill
  <2>7. Available(call[t].ip, call[t].now) < Minute
    BY <2>5 DEF Refuses
  <2> DEFINE own == granted[call[t].ip]
             c == Capacity * (call[t].now - own[Len(own)])
             a == Available(call[t].ip, call[t].now)
  <2>8. call[t].ip \in Ips /\ call[t].now \in Int /\ a \in Int
    BY <1>2, AvailableRange
  <2>9. c \in Int
    <3>1. own \in Seq(0 .. Horizon)
      BY <2>8, <1>2 DEF TypeOK
    <3>2. own[Len(own)] \in Int
      BY <2>6, <3>1, LastInRange
    <3> QED  BY <2>8, <3>2, CapacityPositive, SMT
  <2>10. c < Minute
    <3>1. c <= a /\ a < Minute
      BY <2>6, <2>7
    <3> HIDE DEF c, a
    <3> QED  BY <3>1, <2>8, <2>9, LimiterAssumption DEF a
  <2> QED  BY <2>6, <2>10
<1>3. TypeOK /\ SpentInv /\ [Next]_vars => TypeOK' /\ SpentInv'
  BY TypeStep, SpentStep
<1>4. TypeOK /\ SpentInv /\ [Next]_vars =>
        [\A t \in Threads :
            call[t] # None /\ call'[t] = None /\ granted' = granted =>
                LET own == granted[call[t].ip]
                IN  /\ own # <<>>
                    /\ Capacity * (call[t].now - own[Len(own)]) < Minute]_vars
  BY <1>2
<1> QED  BY <1>1, <1>3, <1>4, PTL DEF Spec, RefusedOnlyWhenSpent

-----------------------------------------------------------------------------
(* Readings in order. *)

(* In order, a request finds no more than what was left and the refill since. *)
LEMMA InOrderRefill ==
    ASSUME TypeOK, NEW t \in Threads, call[t] # None, buckets[call[t].ip] # None,
           ~ (call[t].now < buckets[call[t].ip].last)
    PROVE  LET b == buckets[call[t].ip]
           IN  /\ b.last <= call[t].now
               /\ Available(call[t].ip, call[t].now)
                     <= b.tokens + Capacity * (call[t].now - b.last)
<1> DEFINE b == buckets[call[t].ip]
           now == call[t].now
           e == Elapsed(b.last, now)
<1>2. b.last \in Nat /\ now \in Nat /\ Available(call[t].ip, now) <= b.tokens + e * Capacity
  BY RefillOf
<1>1. b.last <= now
  BY <1>2
<1>3. e = now - b.last
  BY <1>1, <1>2 DEF Elapsed
<1>4. e * Capacity = Capacity * (now - b.last)
  <2>1. e \in Nat /\ Capacity \in Nat
    BY <1>1, <1>2, <1>3, CapacityPositive
  <2>2. e * Capacity = Capacity * e
    BY <2>1, SMT
  <2> QED  BY <2>2, <1>3
<1> QED  BY <1>1, <1>2, <1>4

(* A request spends from the budget of every request i allowed before it. *)
LEMMA BudgetKept ==
    ASSUME TypeOK, BudgetInv, NEW t \in Threads, call[t] # None,
           buckets[call[t].ip] # None, call[t].ip \notin overtaken,
           ~ (call[t].now < buckets[call[t].ip].last), NEW i \in 1 .. Len(granted[call[t].ip])
    PROVE  LET own == granted[call[t].ip]
               now == call[t].now
           IN  /\ own[i] <= now
               /\ (Len(own) - i + 1) * Minute + Available(call[t].ip, now)
                     <= Full + Capacity * (now - own[i])
<1> DEFINE b == buckets[call[t].ip]
           now == call[t].now
           own == granted[call[t].ip]
           a == Available(call[t].ip, now)
           spent == (Len(own) - i + 1) * Minute
<1>1. call[t].ip \in Ips /\ now \in Nat /\ a \in Nat
  BY AvailableRange, CapacityPositive
<1>2. own \in Seq(0 .. Horizon) /\ b \in Buckets
  BY <1>1 DEF TypeOK
<1>3. b.tokens \in Nat /\ b.last \in Nat /\ own[i] \in Nat
  <2>1. own[i] \in 0 .. Horizon
    BY <1>2, ElementInRange
  <2> HIDE DEF own, b
  <2> QED  BY <1>2, <2>1, CapacityPositive, LimiterAssumption DEF Buckets
<1>4. own[i] <= b.last /\ spent + b.tokens <= Full + Capacity * (b.last - own[i])
  BY <1>1 DEF BudgetInv
<1>5. b.last <= now /\ a <= b.tokens + Capacity * (now - b.last)
  BY InOrderRefill
<1>6. Capacity * (now - own[i]) = Capacity * (b.last - own[i]) + Capacity * (now - b.last)
  <2>1. now - own[i] = (b.last - own[i]) + (now - b.last)
    BY <1>1, <1>3
  <2>2. b.last - own[i] \in Int /\ now - b.last \in Int
    BY <1>1, <1>3
  <2>3. Capacity * ((b.last - own[i]) + (now - b.last))
           = Capacity * (b.last - own[i]) + Capacity * (now - b.last)
    <3> HIDE DEF b, own, now
    <3> QED  BY <2>2, CapacityPositive, Distributes
  <2> QED  BY <2>1, <2>3
<1>7. spent \in Int
  <2>1. Len(own) - i + 1 \in Int
    BY <1>2
  <2> QED  BY <2>1, LimiterAssumption, SMT
<1> DEFINE x == Capacity * (b.last - own[i])
           y == Capacity * (now - b.last)
<1>8. x \in Int /\ y \in Int
  <2>1. b.last - own[i] \in Int /\ now - b.last \in Int
    BY <1>1, <1>3
  <2> HIDE DEF b, own, now
  <2> QED  BY <2>1, CapacityPositive, ProductType
<1>9. spent + a <= Full + (x + y)
  <2>1. spent + b.tokens <= Full + x /\ a <= b.tokens + y
    BY <1>4, <1>5
  <2> HIDE DEF spent, a, x, y, b
  <2> QED  BY <2>1, <1>1, <1>3, <1>7, <1>8, CapacityPositive
<1>10. own[i] <= now
  BY <1>1, <1>3, <1>4, <1>5
<1> QED  BY <1>6, <1>9, <1>10

(* An address whose readings are still in order had them in order before. *)
LEMMA OrderKept ==
    ASSUME TypeOK, NEW t \in Threads, Allows(t) \/ Refuses(t)
    PROVE  /\ overtaken \subseteq overtaken'
           /\ call[t].ip \notin overtaken' =>
                /\ call[t].ip \notin overtaken
                /\ buckets[call[t].ip] # None => ~ (call[t].now < buckets[call[t].ip].last)
<1>1. NotesOrder(call[t].ip, call[t].now)
  BY DEF Allows, Refuses
<1> QED  BY <1>1 DEF NotesOrder

LEMMA BudgetStep ==
    ASSUME TypeOK, BudgetInv, [Next]_vars
    PROVE  BudgetInv'
<1>1. ASSUME UNCHANGED <<buckets, granted, overtaken>> PROVE BudgetInv'
  BY <1>1 DEF BudgetInv
<1>2. ASSUME NEW t \in Threads, Allows(t) PROVE BudgetInv'
  <2> DEFINE ip == call[t].ip
             now == call[t].now
             old == granted[ip]
             a == Available(ip, now)
  <2>1. ip \in Ips /\ now \in 0 .. Horizon /\ a \in 0 .. Full /\ call[t] # None
    BY <1>2, AvailableRange DEF Allows
  <2>2. /\ buckets' = [buckets EXCEPT ![ip] = [tokens |-> a - Minute, last |-> now]]
        /\ granted' = [granted EXCEPT ![ip] = Append(@, now)]
    BY <1>2 DEF Allows
  <2>3. old \in Seq(0 .. Horizon)
    BY <2>1 DEF TypeOK
  <2>4. /\ granted'[ip] = Append(old, now)
        /\ buckets'[ip] = [tokens |-> a - Minute, last |-> now]
        /\ \A o \in Ips \ {ip} : buckets'[o] = buckets[o] /\ granted'[o] = granted[o]
    BY <2>1, <2>2 DEF TypeOK
  <2>5. ASSUME ip \notin overtaken', NEW i \in 1 .. Len(old)
        PROVE  /\ old[i] <= now
               /\ (Len(old) - i + 1) * Minute + a <= Full + Capacity * (now - old[i])
    <3>1. ip \notin overtaken /\ (buckets[ip] # None => ~ (now < buckets[ip].last))
      BY <1>2, <2>5, OrderKept
    <3>2. buckets[ip] # None
      BY <2>1, <2>3, <2>5, <3>1 DEF BudgetInv
    <3> QED  BY <2>1, <2>5, <3>1, <3>2, BudgetKept
  <2> HIDE DEF ip, now, old, a
  <2>6. ASSUME ip \notin overtaken', NEW i \in 1 .. Len(granted'[ip])
        PROVE  /\ granted'[ip][i] <= buckets'[ip].last
               /\ (Len(granted'[ip]) - i + 1) * Minute + buckets'[ip].tokens
                     <= Full + Capacity * (buckets'[ip].last - granted'[ip][i])
    <3>1. Len(granted'[ip]) = Len(old) + 1
      BY <2>3, <2>4
    <3>2. CASE i = Len(old) + 1
      <4>1. granted'[ip][i] = now
        BY <2>1, <2>3, <2>4, <3>2
      <4>2. (Len(granted'[ip]) - i + 1) * Minute = Minute
        BY <3>1, <3>2, <2>3, LimiterAssumption
      <4>3. Capacity * (now - now) = 0
        BY <2>1, CapacityPositive, SMT
      <4> QED  BY <2>1, <2>4, <4>1, <4>2, <4>3, CapacityPositive, LimiterAssumption
    <3>3. CASE i \in 1 .. Len(old)
      <4>1. granted'[ip][i] = old[i] /\ old[i] \in Nat
        BY <2>1, <2>3, <2>4, <3>3, LimiterAssumption
      <4>2. (Len(granted'[ip]) - i + 1) * Minute = (Len(old) - i + 1) * Minute + Minute
        <5>1. Len(granted'[ip]) - i + 1 = (Len(old) - i + 1) + 1
          BY <2>3, <3>1, <3>3
        <5>2. Len(old) - i + 1 \in Int
          BY <2>3, <3>3
        <5> QED  BY <5>1, <5>2, LimiterAssumption, SMT
      <4> DEFINE spent == (Len(old) - i + 1) * Minute
                 refill == Capacity * (now - old[i])
      <4>3. spent \in Int /\ refill \in Int
        <5>1. Len(old) - i + 1 \in Int /\ now - old[i] \in Int
          BY <2>1, <2>3, <3>3, <4>1
        <5> QED  BY <5>1, CapacityPositive, LimiterAssumption, SMT
      <4>4. spent + a <= Full + refill /\ old[i] <= now
        BY <2>5, <2>6, <3>3
      <4>5. (spent + Minute) + (a - Minute) <= Full + refill
        <5> HIDE DEF spent, refill
        <5> QED  BY <4>3, <4>4, <2>1, LimiterAssumption, CapacityPositive
      <4> QED  BY <4>1, <4>2, <4>4, <4>5, <2>4
    <3> QED  BY <2>3, <3>1, <3>2, <3>3
  <2>7. ASSUME NEW o \in Ips \ overtaken', o # ip
        PROVE  /\ buckets'[o] = None => granted'[o] = <<>>
               /\ buckets'[o] # None => \A i \in 1 .. Len(granted'[o]) :
                     /\ granted'[o][i] <= buckets'[o].last
                     /\ (Len(granted'[o]) - i + 1) * Minute + buckets'[o].tokens
                           <= Full + Capacity * (buckets'[o].last - granted'[o][i])
    <3>1. o \in Ips \ overtaken
      BY <1>2, <2>7, OrderKept
    <3> QED  BY <2>4, <2>7, <3>1 DEF BudgetInv
  <2>8. buckets'[ip] # None
    <3>1. a - Minute \in 0 .. Full
      BY <1>2, <2>1, LimiterAssumption, CapacityPositive DEF Allows, a, ip, now
    <3>2. buckets'[ip] \in Buckets
      BY <2>1, <2>4, <3>1 DEF Buckets
    <3> QED  BY <3>2, LimiterAssumption
  <2> QED  BY <2>6, <2>7, <2>8 DEF BudgetInv
<1>3. ASSUME NEW t \in Threads, Refuses(t) PROVE BudgetInv'
  <2> DEFINE ip == call[t].ip
             now == call[t].now
             a == Available(ip, now)
  <2>1. ip \in Ips /\ call[t] # None /\ buckets[ip] # None
    BY <1>3, AvailableRange, RefusedHasBucket DEF Refuses
  <2>2. /\ buckets' = [buckets EXCEPT ![ip] = [tokens |-> a, last |-> now]]
        /\ granted' = granted
    BY <1>3 DEF Refuses
  <2>3. ip \notin overtaken' => \A i \in 1 .. Len(granted[ip]) :
          /\ granted[ip][i] <= now
          /\ (Len(granted[ip]) - i + 1) * Minute + a
                <= Full + Capacity * (now - granted[ip][i])
    BY <1>3, <2>1, OrderKept, BudgetKept
  <2> HIDE DEF ip, now, a
  <2>4. /\ buckets'[ip] = [tokens |-> a, last |-> now]
        /\ \A o \in Ips \ {ip} : buckets'[o] = buckets[o]
    BY <2>1, <2>2 DEF TypeOK
  <2>5. ASSUME NEW o \in Ips \ overtaken'
        PROVE  /\ buckets'[o] = None => granted'[o] = <<>>
               /\ buckets'[o] # None => \A i \in 1 .. Len(granted'[o]) :
                     /\ granted'[o][i] <= buckets'[o].last
                     /\ (Len(granted'[o]) - i + 1) * Minute + buckets'[o].tokens
                           <= Full + Capacity * (buckets'[o].last - granted'[o][i])
    <3>1. CASE o = ip
      <4>1. a \in 0 .. Full /\ now \in 0 .. Horizon
        BY <2>1, AvailableRange DEF a, ip, now
      <4>2. buckets'[ip] \in Buckets
        BY <2>4, <4>1 DEF Buckets
      <4>3. buckets'[ip] # None
        BY <4>2, LimiterAssumption
      <4> QED  BY <2>2, <2>3, <2>4, <2>5, <3>1, <4>3
    <3>2. CASE o # ip
      <4>1. o \in Ips \ overtaken
        BY <1>3, <2>5, OrderKept
      <4> QED  BY <2>2, <2>4, <3>2, <4>1 DEF BudgetInv
    <3> QED  BY <3>1, <3>2
  <2> QED  BY <2>5 DEF BudgetInv
<1> QED  BY <1>1, <1>2, <1>3 DEF Next, Tick, ReadsClock, vars

(* A newly allowed request is within the rate, by the budget after it. *)
LEMMA RateStep ==
    ASSUME TypeOK, TypeOK', BudgetInv', RateBounded, [Next]_vars
    PROVE  RateBounded'
<1>1. ASSUME granted' = granted, overtaken \subseteq overtaken' PROVE RateBounded'
  BY <1>1 DEF RateBounded, WithinRate
<1>2. ASSUME NEW t \in Threads, Allows(t) PROVE RateBounded'
  <2> DEFINE ip == call[t].ip
             now == call[t].now
             old == granted[ip]
             new == granted'[ip]
  <2>1. /\ ip \in Ips /\ now \in 0 .. Horizon
        /\ Available(ip, now) - Minute \in Nat
    BY <1>2, AvailableRange, CapacityPositive, LimiterAssumption DEF Allows
  <2>2. /\ buckets' = [buckets EXCEPT ![ip] =
                            [tokens |-> Available(ip, now) - Minute, last |-> now]]
        /\ granted' = [granted EXCEPT ![ip] = Append(@, now)]
    BY <1>2 DEF Allows
  <2>3. old \in Seq(0 .. Horizon) /\ new = Append(old, now)
    BY <2>1, <2>2 DEF TypeOK
  <2>4. \A o \in Ips \ {ip} : granted'[o] = granted[o]
    BY <2>2 DEF TypeOK
  <2>5. buckets'[ip].tokens \in Nat /\ buckets'[ip].last = now
    BY <2>1, <2>2 DEF TypeOK
  <2>6. Len(new) = Len(old) + 1 /\ new[Len(new)] = now
    BY <2>1, <2>3
  <2>7. ASSUME ip \notin overtaken', NEW i \in 1 .. Len(new)
        PROVE  (Len(new) - i + 1) * Minute <= Full + Capacity * (now - new[i])
    <3>1. buckets'[ip] # None => (Len(new) - i + 1) * Minute + buckets'[ip].tokens
             <= Full + Capacity * (now - new[i])
      BY <2>1, <2>5, <2>7 DEF BudgetInv
    <3>2. buckets'[ip] # None
      BY <2>1, <2>6, <2>3, <2>7 DEF BudgetInv
    <3>3. (Len(new) - i + 1) * Minute \in Int /\ Capacity * (now - new[i]) \in Int
      <4>1. new \in Seq(0 .. Horizon)
        BY <2>1, <2>3
      <4>2. Len(new) - i + 1 \in Int /\ now - new[i] \in Int
        <5>1. new[i] \in 0 .. Horizon
          BY <4>1, ElementInRange
        <5>2. Len(new) \in Nat
          BY <4>1
        <5>3. i \in Nat
          BY <5>2
        <5>4. new[i] \in Nat /\ now \in Nat
          BY <2>1, <5>1, LimiterAssumption
        <5> HIDE DEF new, now
        <5> QED  BY <5>2, <5>3, <5>4
      <4> QED  BY <4>2, CapacityPositive, LimiterAssumption, SMT
    <3> DEFINE x == (Len(new) - i + 1) * Minute
               y == Capacity * (now - new[i])
    <3> QED
      <4>1. x + buckets'[ip].tokens <= Full + y
        BY <3>1, <3>2
      <4> HIDE DEF x, y
      <4>2. x <= Full + y
        BY <3>3, <4>1, <2>5, CapacityPositive DEF x, y
      <4> QED  BY <4>2 DEF x, y
  <2>8. ASSUME ip \notin overtaken',
               NEW i \in 1 .. Len(new), NEW j \in 1 .. Len(new), i <= j
        PROVE  (j - i + 1) * Minute <= Full + Capacity * (new[j] - new[i])
    <3>1. CASE j = Len(new)
      BY <2>6, <2>7, <2>8, <3>1
    <3>2. CASE j # Len(new)
      <4>1. i \in 1 .. Len(old) /\ j \in 1 .. Len(old)
        BY <2>3, <2>6, <2>8, <3>2
      <4>2. new[i] = old[i] /\ new[j] = old[j]
        BY <2>1, <2>3, <4>1
      <4>3. ip \notin overtaken
        BY <1>2, <2>8, OrderKept
      <4> QED  BY <2>1, <2>8, <4>1, <4>2, <4>3 DEF RateBounded, WithinRate
    <3> QED  BY <3>1, <3>2
  <2>9. overtaken \subseteq overtaken'
    BY <1>2, OrderKept
  <2> HIDE DEF ip, now, old, new
  <2> QED  BY <2>4, <2>8, <2>9 DEF RateBounded, WithinRate, new
<1>3. ASSUME NEW t \in Threads, Refuses(t) PROVE RateBounded'
  <2>1. granted' = granted /\ overtaken \subseteq overtaken'
    BY <1>3, OrderKept DEF Refuses
  <2> QED  BY <1>1, <2>1
<1> QED  BY <1>1, <1>2, <1>3 DEF Next, Tick, ReadsClock, vars

(***************************************************************************)
(* No address whose clock readings came in order is ever allowed more than *)
(* a full bucket and the refill of the time that has passed, over any      *)
(* stretch of its requests.  Out of order it is: the bucket refills twice. *)
(***************************************************************************)
THEOREM RateHolds == Spec => []RateBounded
<1> DEFINE Inv == TypeOK /\ BudgetInv /\ RateBounded
<1>1. Init => Inv
  BY LimiterAssumption DEF Init, TypeOK, BudgetInv, RateBounded, WithinRate
<1>2. Inv /\ [Next]_vars => Inv'
  BY TypeStep, BudgetStep, RateStep
<1> QED  BY <1>1, <1>2, PTL DEF Spec
=============================================================================
