---------------------------- MODULE RateLimiter -----------------------------
(***************************************************************************)
(* The per-source-IP token bucket in front of every claim route.  Handlers *)
(* on several threads call allow(ip): each reads the clock BEFORE it takes *)
(* the buckets' Mutex, so the readings reach a bucket in any order.  Time  *)
(* is counted in ticks, Minute of them to a minute, and tokens in units,   *)
(* Minute of them to a token, so that a tick refills Capacity units: the   *)
(* code's fractional tokens without its rounding.                          *)
(***************************************************************************)
EXTENDS Integers, Sequences

CONSTANTS
    Threads,    \* handlers that may be inside allow() at one time
    Ips,        \* source addresses
    PerMinute,  \* capacity_per_minute, the argument of RateLimiter::new
    Minute,     \* ticks in a minute, and units in a token
    Horizon,    \* the clock stops there: a bound for TLC, Nat in the proofs
    None        \* no bucket yet, or no call in progress

VARIABLES
    clock,    \* Instant::now()
    buckets,  \* ip -> its Bucket, or None before its first request
    call,     \* thread -> the ip and the clock reading of its call, or None
    granted,  \* history: ip -> the readings of its allowed requests, in order
    overtaken \* history: the ips whose bucket has seen a reading older than its last

vars == <<clock, buckets, call, granted, overtaken>>

(* RateLimiter::new allows at least one request per minute. *)
Capacity == IF PerMinute < 1 THEN 1 ELSE PerMinute

Full == Capacity * Minute

Buckets == [tokens : 0 .. Full, last : 0 .. Horizon]

Calls == [ip : Ips, now : 0 .. Horizon]

ASSUME LimiterAssumption ==
    /\ PerMinute \in Nat
    /\ Minute \in Nat \ {0}
    /\ Horizon \in Nat
    /\ None \notin Buckets

Init ==
    /\ clock = 0
    /\ buckets = [ip \in Ips |-> None]
    /\ call = [t \in Threads |-> None]
    /\ granted = [ip \in Ips |-> <<>>]
    /\ overtaken = {}

(* Type invariant: a bucket never holds less than nothing or more than it can. *)
TypeOK ==
    /\ clock \in 0 .. Horizon
    /\ buckets \in [Ips -> Buckets \cup {None}]
    /\ call \in [Threads -> Calls \cup {None}]
    /\ \A t \in Threads : call[t] # None => call[t].now <= clock
    /\ granted \in [Ips -> Seq(0 .. Horizon)]
    /\ overtaken \subseteq Ips

-----------------------------------------------------------------------------
Tick ==
    /\ clock < Horizon
    /\ clock' = clock + 1
    /\ UNCHANGED <<buckets, call, granted, overtaken>>

(* allow() reads the clock; the Mutex is not taken yet. *)
ReadsClock(t, ip) ==
    /\ call[t] = None
    /\ call' = [call EXCEPT ![t] = [ip |-> ip, now |-> clock]]
    /\ UNCHANGED <<clock, buckets, granted, overtaken>>

(* saturating_duration_since: a reading older than the last counts as it. *)
Elapsed(last, now) == IF now < last THEN 0 ELSE now - last

(* Mutant: the refill is not capped. *)
AtMostFull_Uncapped(units) == units

AtMostFull(units) == IF units > Full THEN Full ELSE units

(* The tokens a request made at now finds: a new bucket is full. *)
Available(ip, now) ==
    IF buckets[ip] = None
    THEN Full
    ELSE AtMostFull(buckets[ip].tokens + Elapsed(buckets[ip].last, now) * Capacity)

(* last_refill is set to the reading of the call, be it older. *)
NotesOrder(ip, now) ==
    overtaken' = IF buckets[ip] # None /\ now < buckets[ip].last
                 THEN overtaken \cup {ip} ELSE overtaken

(* A whole token is there: it is consumed and the request goes on. *)
Allows(t) ==
    /\ call[t] # None
    /\ LET ip == call[t].ip
           now == call[t].now
       IN  /\ Available(ip, now) >= Minute
           /\ buckets' = [buckets EXCEPT ![ip] =
                             [tokens |-> Available(ip, now) - Minute, last |-> now]]
           /\ granted' = [granted EXCEPT ![ip] = Append(@, now)]
           /\ NotesOrder(ip, now)
    /\ call' = [call EXCEPT ![t] = None]
    /\ UNCHANGED clock

(* Mutant: a refusal returns before the refill is stored. *)
Refuses_DropsRefill(t) ==
    /\ call[t] # None
    /\ LET ip == call[t].ip
           now == call[t].now
       IN  /\ Available(ip, now) < Minute
           /\ buckets' = [buckets EXCEPT ![ip].last = now]
           /\ NotesOrder(ip, now)
    /\ call' = [call EXCEPT ![t] = None]
    /\ UNCHANGED <<clock, granted>>

(* Mutant: a refusal returns before the reading is stored. *)
Refuses_KeepsReading(t) ==
    /\ call[t] # None
    /\ LET ip == call[t].ip
           now == call[t].now
       IN  /\ Available(ip, now) < Minute
           /\ buckets' = [buckets EXCEPT ![ip].tokens = Available(ip, now)]
           /\ NotesOrder(ip, now)
    /\ call' = [call EXCEPT ![t] = None]
    /\ UNCHANGED <<clock, granted>>

(* There is none: the handler answers 429.  The refill is kept, and so is the reading. *)
Refuses(t) ==
    /\ call[t] # None
    /\ LET ip == call[t].ip
           now == call[t].now
       IN  /\ Available(ip, now) < Minute
           /\ buckets' = [buckets EXCEPT ![ip] =
                             [tokens |-> Available(ip, now), last |-> now]]
           /\ NotesOrder(ip, now)
    /\ call' = [call EXCEPT ![t] = None]
    /\ UNCHANGED <<clock, granted>>

Next ==
    \/ Tick
    \/ \E t \in Threads :
          \/ \E ip \in Ips : ReadsClock(t, ip)
          \/ Allows(t)
          \/ Refuses(t)

Spec == Init /\ [][Next]_vars

-----------------------------------------------------------------------------
(* The allowed requests of ip, from any of them to any later one, never    *)
(* exceed a full bucket and what time has refilled in between.             *)
WithinRate(ip) ==
    \A i, j \in 1 .. Len(granted[ip]) :
        i <= j =>
            (j - i + 1) * Minute
                <= Full + Capacity * (granted[ip][j] - granted[ip][i])

(***************************************************************************)
(* As long as the clock readings of an address reach its bucket in order,  *)
(* it stays within the rate, whatever the handlers of other addresses do.  *)
(* (RateLimiter::allow stores each reading as it comes: an older one sets  *)
(* last back and the time in between refills the bucket a second time.)    *)
(***************************************************************************)
RateBounded == \A ip \in Ips \ overtaken : WithinRate(ip)

(***************************************************************************)
(* A 429 is deserved: a request is refused only if its own address was     *)
(* allowed one less than a token's refill time before it, whatever other   *)
(* addresses do and in whatever order readings take the Mutex              *)
(* (RateLimiter::allow).                                                   *)
(***************************************************************************)
RefusedOnlyWhenSpent ==
    [][\A t \in Threads :
          call[t] # None /\ call'[t] = None /\ granted' = granted =>
              LET own == granted[call[t].ip]
              IN  /\ own # <<>>
                  /\ Capacity * (call[t].now - own[Len(own)]) < Minute]_vars
=============================================================================
