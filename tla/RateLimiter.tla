------------------------------ MODULE RateLimiter ------------------------------
(***************************************************************************)
(* The rate limiter in front of every route: per client address, a counter *)
(* and the end of the window it counts in.  A window begins with the first *)
(* request after the previous one is over; it does not roll.               *)
(*                                                                         *)
(* allow runs under a mutex, so that it is one step.  Time is counted in   *)
(* ticks.                                                                  *)
(***************************************************************************)
EXTENDS Integers, Sequences

CONSTANTS
    Addrs,              \* the addresses extractIP tells apart
    requestsPerMinute,  \* the limit, 60 in NewRouter
    Minute,             \* the length of a window
    NoRecord            \* an address without a record

ipRecord == [count: Nat, windowEnd: Nat]

ASSUME LimitAssumption == requestsPerMinute \in Nat \ {0} /\ Minute \in Nat
ASSUME NoRecordAssumption == NoRecord \notin ipRecord

VARIABLES
    now,        \* the clock
    records,    \* per address: its ipRecord
    admits      \* per address: when its latest requests were let through

limiterVars == <<records, admits>>

LimiterTypeOK ==
    /\ now \in Nat
    /\ records \in [Addrs -> ipRecord \cup {NoRecord}]
    /\ \A ip \in Addrs : records[ip] # NoRecord =>
                            records[ip].count \in 1..requestsPerMinute
    /\ admits \in [Addrs -> Seq(Nat)]

LimiterInit ==
    /\ now = 0
    /\ records = [ip \in Addrs |-> NoRecord]
    /\ admits = [ip \in Addrs |-> <<>>]

\* The history keeps as many requests as the properties look at.
Remember(s) ==
    IF Len(s) < 2 * requestsPerMinute THEN Append(s, now)
    ELSE Append(Tail(s), now)

NewWindow(ip) == records[ip] # NoRecord => now > records[ip].windowEnd

\* Mutant: the request that begins a window is not counted.
OpenedUncounted == [count |-> 0, windowEnd |-> now + Minute]

\* The record of a new window, which its first request opens.
Opened == [count |-> 1, windowEnd |-> now + Minute]

\* Mutant: a refused request prolongs the window.
RefuseAndProlong(ip) ==
    /\ ~NewWindow(ip)
    /\ records[ip].count >= requestsPerMinute
    /\ records' = [records EXCEPT ![ip].windowEnd = now + Minute]

\* The counter is at the limit: it stays.
Refuse(ip) ==
    /\ ~NewWindow(ip)
    /\ records[ip].count >= requestsPerMinute
    /\ UNCHANGED records

\* allow, with its result.
allow(ip, allowed) ==
    /\ \/ allowed /\ NewWindow(ip) /\ records' = [records EXCEPT ![ip] = Opened]
       \/ /\ allowed
          /\ ~NewWindow(ip)
          /\ records[ip].count < requestsPerMinute
          /\ records' = [records EXCEPT ![ip].count = @ + 1]
       \/ ~allowed /\ Refuse(ip)
    /\ admits' = [admits EXCEPT ![ip] = IF allowed THEN Remember(@) ELSE @]

--------------------------------------------------------------------------------
\* What the fixed windows guarantee of any span of a minute, wherever it begins:
\* fewer than twice the limit get through, since of two windows that it meets it
\* misses the request that began the first.  (The comment of NewRateLimiter
\* speaks of a rolling window, which would let through the limit.)
BurstBounded ==
    \A ip \in Addrs : \A i, j \in DOMAIN admits[ip] :
        j - i >= 2 * requestsPerMinute - 1
            => admits[ip][j] - admits[ip][i] > Minute

\* The limit's worth of requests got through within the last minute.
AtLimit(ip) ==
    LET n == Len(admits[ip])
    IN  /\ n >= requestsPerMinute
        /\ now - admits[ip][n - requestsPerMinute + 1] <= Minute
================================================================================
