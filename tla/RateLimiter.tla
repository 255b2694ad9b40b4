---------------------------- MODULE RateLimiter ----------------------------
(***************************************************************************)
(* resolve_rate_limit: a counter in Redis per store, client and minute,    *)
(* raised by INCR and given 120 seconds to live by a second command when   *)
(* it was the first. A request keeps the minute it computed before it      *)
(* waited for Redis. The counters of one store and client.                 *)
(***************************************************************************)
EXTENDS Naturals

CONSTANTS
  Limit,    \* requests per window (20)
  MaxMinute \* BOUND: minutes

VARIABLES
  minute,   \* int(time.time() // 60)
  counter,  \* the value of each window's key, 0 when there is no key
  ttl,      \* the key has a time to live
  admitted, \* history: requests let through, by window
  spared,   \* history: those let through because Redis failed
  late,     \* history: those that found the key of their window expired
  leaked    \* history: windows whose first request never reached EXPIRE

limiterVars == <<minute, counter, ttl, admitted, spared, late, leaked>>

Window == 0 .. MaxMinute

ASSUME LimiterConstants == Limit \in Nat \ {0} /\ MaxMinute \in Nat

LimiterInit ==
  /\ minute = 0
  /\ counter = [w \in Window |-> 0] /\ ttl = [w \in Window |-> FALSE]
  /\ admitted = [w \in Window |-> 0] /\ spared = [w \in Window |-> 0]
  /\ late = [w \in Window |-> 0] /\ leaked = {}

Over(n) == n > Limit

\* INCR of window w.
Incr(w) ==
  /\ counter' = [counter EXCEPT ![w] = @ + 1]
  /\ admitted' = [admitted EXCEPT ![w] = IF Over(counter[w] + 1) THEN @ ELSE @ + 1]
  /\ late' = [late EXCEPT ![w] = IF minute >= w + 2 THEN @ + 1 ELSE @]
  /\ UNCHANGED <<minute, ttl, spared, leaked>>

\* EXPIRE key 120; on a key that is gone it does nothing.
Expire(w) ==
  /\ ttl' = [ttl EXCEPT ![w] = counter[w] > 0]
  /\ UNCHANGED <<minute, counter, admitted, spared, late, leaked>>

\* The request died, or Redis failed, between INCR and EXPIRE.
Leak(w) ==
  /\ leaked' = leaked \cup {w}
  /\ UNCHANGED <<minute, counter, ttl, admitted, spared, late>>

\* Redis does not answer INCR: the limiter lets the request through.
Spare(w) ==
  /\ admitted' = [admitted EXCEPT ![w] = @ + 1]
  /\ spared' = [spared EXCEPT ![w] = @ + 1]
  /\ UNCHANGED <<minute, counter, ttl, late, leaked>>

Tick ==
  /\ minute < MaxMinute
  /\ minute' = minute + 1
  /\ UNCHANGED <<counter, ttl, admitted, spared, late, leaked>>

\* Faulty variant: a time to live shorter than the window
EvictInWindow(w) ==
  /\ ttl[w] /\ minute >= w
  /\ counter' = [counter EXCEPT ![w] = 0]
  /\ ttl' = [ttl EXCEPT ![w] = FALSE]
  /\ UNCHANGED <<minute, admitted, spared, late, leaked>>

\* The 120 seconds began in the key's own minute, so they end after the next.
Evict(w) ==
  /\ ttl[w] /\ minute >= w + 2
  /\ counter' = [counter EXCEPT ![w] = 0]
  /\ ttl' = [ttl EXCEPT ![w] = FALSE]
  /\ UNCHANGED <<minute, admitted, spared, late, leaked>>

LimiterTypeOK ==
  /\ minute \in Window
  /\ counter \in [Window -> Nat] /\ ttl \in [Window -> BOOLEAN]
  /\ admitted \in [Window -> Nat] /\ spared \in [Window -> Nat]
  /\ late \in [Window -> Nat] /\ leaked \subseteq Window

\* However requests, minutes and expiries interleave, a client gets no more
\* than Limit requests of one window through, but for those Redis failed on
\* and those that came back to a window whose key had run out.
LimitHolds == \A w \in Window : admitted[w] <= Limit + spared[w] + late[w]
=============================================================================
