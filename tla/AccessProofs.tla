----------------------------- MODULE AccessProofs ------------------------------
(***************************************************************************)
(* Theorems about the rate limiter and the tenant middleware, for any      *)
(* limit, window, cache lifetime and timeout, and any number of clients,   *)
(* tenants and requests being served.                                      *)
(***************************************************************************)
EXTENDS Access, SequenceTheorems, TLAPS

(* The limiter.                                                            *)

\* What the record of an address says of the requests it let through, the
\* earliest first: the last count of them belong to the open window, which the
\* first of these began, and whatever is a full limit or more before that one was
\* let through more than a minute before it.
Consistent(s, count, windowEnd) ==
    \E first \in 1..Len(s) :
        /\ first + count = Len(s) + 1
        /\ s[first] + Minute = windowEnd
        /\ \A i \in 1..Len(s) :
              i + requestsPerMinute <= first => s[i] + Minute < s[first]

\* The history of an address is in the order of time, and bounded.
Chronicle(s) ==
    /\ Len(s) <= 2 * requestsPerMinute
    /\ \A i, j \in 1..Len(s) : i <= j => s[i] <= s[j]
    /\ \A i \in 1..Len(s) : s[i] <= now

LimiterInv(ip) ==
    /\ Chronicle(admits[ip])
    /\ records[ip] = NoRecord => admits[ip] = <<>>
    /\ records[ip] # NoRecord =>
          Consistent(admits[ip], records[ip].count, records[ip].windowEnd)

\* What Remember does: the latest request comes last, the others keep their
\* order, and the earliest one may go.
LEMMA RememberEffect ==
    ASSUME NEW s \in Seq(Nat), now \in Nat, Len(s) <= 2 * requestsPerMinute
    PROVE  \E k \in {0, 1} :
              /\ k = 1 <=> Len(s) = 2 * requestsPerMinute
              /\ Remember(s) \in Seq(Nat)
              /\ Len(Remember(s)) = Len(s) + 1 - k
              /\ \A i \in 1..Len(s) - k : Remember(s)[i] = s[i + k]
              /\ Remember(s)[Len(s) + 1 - k] = now
<1>1. CASE Len(s) < 2 * requestsPerMinute
  <2>1. Remember(s) = Append(s, now)
    BY <1>1 DEF Remember
  <2>2. /\ Append(s, now) \in Seq(Nat)
        /\ Len(Append(s, now)) = Len(s) + 1
        /\ \A i \in 1..Len(s) : Append(s, now)[i] = s[i]
        /\ Append(s, now)[Len(s) + 1] = now
    BY AppendProperties
  <2>3. Len(s) \in Nat
    OBVIOUS
  <2> QED BY <1>1, <2>1, <2>2, <2>3, LimitAssumption
<1>2. CASE Len(s) = 2 * requestsPerMinute
  <2>1. Remember(s) = Append(Tail(s), now)
    BY <1>2, LimitAssumption DEF Remember
  <2>2. s # <<>> /\ Len(s) \in Nat
    BY <1>2, LimitAssumption
  <2>3. /\ Tail(s) \in Seq(Nat) /\ Len(Tail(s)) = Len(s) - 1
        /\ \A i \in 1..Len(Tail(s)) : Tail(s)[i] = s[i + 1]
    BY <2>2
  <2>4. /\ Append(Tail(s), now) \in Seq(Nat)
        /\ Len(Append(Tail(s), now)) = Len(Tail(s)) + 1
        /\ \A i \in 1..Len(Tail(s)) : Append(Tail(s), now)[i] = Tail(s)[i]
        /\ Append(Tail(s), now)[Len(Tail(s)) + 1] = now
    BY <2>3, AppendProperties
  <2>5. Len(Tail(s)) + 1 = Len(s) + 1 - 1
    BY <2>2, <2>3
  <2>6. \A i \in 1..Len(s) - 1 : Remember(s)[i] = s[i + 1]
    BY <2>1, <2>3, <2>4
  <2>7. Remember(s)[Len(s) + 1 - 1] = now
    BY <2>1, <2>4, <2>5
  <2> WITNESS 1 \in {0, 1}
  <2> QED BY <1>2, <2>1, <2>4, <2>5, <2>6, <2>7
<1>3. Len(s) \in Nat /\ 2 * requestsPerMinute \in Nat
    BY LimitAssumption
<1> QED BY <1>1, <1>2, <1>3

\* The history stays in order.
LEMMA RememberKeepsOrder ==
    ASSUME NEW s \in Seq(Nat), now \in Nat, Chronicle(s)
    PROVE  Chronicle(Remember(s))
<1> USE DEF Chronicle
<1>1. PICK k \in {0, 1} :
              /\ k = 1 <=> Len(s) = 2 * requestsPerMinute
              /\ Remember(s) \in Seq(Nat)
              /\ Len(Remember(s)) = Len(s) + 1 - k
              /\ \A i \in 1..Len(s) - k : Remember(s)[i] = s[i + k]
              /\ Remember(s)[Len(s) + 1 - k] = now
    BY RememberEffect
<1>2. Len(s) \in Nat /\ 2 * requestsPerMinute \in Nat
    BY LimitAssumption
<1> DEFINE t == Remember(s)
<1> HIDE DEF t
<1>3. \A i \in 1..Len(t) : \/ i <= Len(s) - k /\ t[i] = s[i + k]
                                              /\ i + k \in 1..Len(s)
                           \/ i = Len(t) /\ t[i] = now
  <2> TAKE i \in 1..Len(t)
  <2>1. i \in Nat /\ i >= 1 /\ i <= Len(s) + 1 - k
    BY <1>1, <1>2 DEF t
  <2>2. CASE i <= Len(s) - k
    BY <1>1, <1>2, <2>1, <2>2 DEF t
  <2>3. CASE i = Len(s) + 1 - k
    BY <1>1, <2>3 DEF t
  <2> QED BY <1>2, <2>1, <2>2, <2>3
<1>4. Len(t) <= 2 * requestsPerMinute /\ Len(t) = Len(s) + 1 - k
    BY <1>1, <1>2 DEF t
<1>5. \A i \in 1..Len(t) : t[i] <= now
  <2> TAKE i \in 1..Len(t)
  <2>1. CASE t[i] = now
    BY <2>1
  <2>2. CASE t[i] = s[i + k] /\ i + k \in 1..Len(s)
    BY <2>2
  <2> QED BY <1>3, <2>1, <2>2
<1>6. \A i \in 1..Len(t) : t[i] \in Nat
    BY <1>1 DEF t
<1>7. ASSUME NEW i \in 1..Len(t), NEW j \in 1..Len(t), i <= j
      PROVE  t[i] <= t[j]
  <2>1. CASE j = Len(t) /\ t[j] = now
    BY <1>5, <2>1
  <2>2. CASE j <= Len(s) - k /\ t[j] = s[j + k] /\ j + k \in 1..Len(s)
    <3>1. i <= Len(s) - k /\ i # Len(t)
      BY <1>2, <1>4, <1>7, <2>2
    <3>2. t[i] = s[i + k] /\ i + k \in 1..Len(s) /\ i + k <= j + k
      BY <1>3, <1>7, <3>1
    <3> QED BY <2>2, <3>2
  <2> QED BY <1>3, <2>1, <2>2
<1> QED BY <1>4, <1>5, <1>7 DEF t

\* A request that opens a window.
LEMMA OpensWindow ==
    ASSUME NEW s \in Seq(Nat), now \in Nat, Chronicle(s),
           \/ s = <<>>
           \/ \E count \in 1..requestsPerMinute, windowEnd \in Nat :
                 Consistent(s, count, windowEnd) /\ now > windowEnd
    PROVE  Consistent(Remember(s), 1, now + Minute)
<1>1. PICK k \in {0, 1} :
              /\ k = 1 <=> Len(s) = 2 * requestsPerMinute
              /\ Remember(s) \in Seq(Nat)
              /\ Len(Remember(s)) = Len(s) + 1 - k
              /\ \A i \in 1..Len(s) - k : Remember(s)[i] = s[i + k]
              /\ Remember(s)[Len(s) + 1 - k] = now
    BY RememberEffect DEF Chronicle
<1>2. PICK t \in Seq(Nat) : t = Remember(s)
    BY <1>1
<1>3. PICK n \in Nat : n = Len(s)
    OBVIOUS
<1>4. /\ Len(t) = n + 1 - k /\ t[Len(t)] = now
      /\ \A i \in 1..n - k : t[i] = s[i + k]
      /\ k = 1 => n = 2 * requestsPerMinute
    BY <1>1, <1>2, <1>3
<1>5. \A i \in 1..Len(t) : i + requestsPerMinute <= Len(t) =>
                                t[i] + Minute < t[Len(t)]
  <2> SUFFICES ASSUME NEW i \in 1..Len(t), i + requestsPerMinute <= Len(t)
               PROVE  t[i] + Minute < now
    BY <1>4
  <2>1. i + k \in 1..n /\ i \in 1..n - k /\ i + k + requestsPerMinute <= n + 1
    BY <1>4, LimitAssumption
  <2>2. s # <<>>
    BY <1>3, <2>1
  <2>3. PICK count \in 1..requestsPerMinute, windowEnd \in Nat :
           Consistent(s, count, windowEnd) /\ now > windowEnd
    BY <2>2
  <2>4. PICK first \in 1..n : /\ first + count = n + 1
                              /\ s[first] + Minute = windowEnd
    BY <1>3, <2>3 DEF Consistent
  <2>5. i + k <= first
    BY <2>1, <2>4, LimitAssumption
  <2>6. s[i + k] <= s[first] /\ s[i + k] \in Nat /\ s[first] \in Nat
    <3>1. \A p \in 1..n : s[p] \in Nat
      BY <1>3
    <3>2. \A p, q \in 1..n : p <= q => s[p] <= s[q]
      BY <1>3 DEF Chronicle
    <3> QED BY <2>1, <2>5, <3>1, <3>2
  <2>7. \A x, y \in Nat : x <= y /\ y + Minute = windowEnd => x + Minute < now
    BY <2>3, LimitAssumption
  <2>8. s[i + k] + Minute < now
    BY <2>4, <2>6, <2>7
  <2> QED BY <1>4, <2>1, <2>8
<1>6. Len(t) \in 1..Len(t)
    BY <1>4, LimitAssumption
<1>7. Consistent(t, 1, now + Minute)
    BY <1>4, <1>5, <1>6 DEF Consistent
<1> QED BY <1>2, <1>7

\* A request that is counted in the open window.
LEMMA CountsInWindow ==
    ASSUME NEW s \in Seq(Nat), now \in Nat, Chronicle(s),
           NEW count \in 1..requestsPerMinute - 1, NEW windowEnd \in Nat,
           Consistent(s, count, windowEnd)
    PROVE  Consistent(Remember(s), count + 1, windowEnd)
<1>1. PICK k \in {0, 1} :
              /\ k = 1 <=> Len(s) = 2 * requestsPerMinute
              /\ Remember(s) \in Seq(Nat)
              /\ Len(Remember(s)) = Len(s) + 1 - k
              /\ \A i \in 1..Len(s) - k : Remember(s)[i] = s[i + k]
              /\ Remember(s)[Len(s) + 1 - k] = now
    BY RememberEffect DEF Chronicle
<1>2. PICK t \in Seq(Nat) : t = Remember(s)
    BY <1>1
<1>3. PICK n \in Nat : n = Len(s)
    OBVIOUS
<1>4. /\ Len(t) = n + 1 - k
      /\ \A i \in 1..n - k : t[i] = s[i + k]
      /\ k = 1 => n = 2 * requestsPerMinute
    BY <1>1, <1>2, <1>3
<1>5. PICK first \in 1..n :
         /\ first + count = n + 1
         /\ s[first] + Minute = windowEnd
         /\ \A i \in 1..n :
               i + requestsPerMinute <= first => s[i] + Minute < s[first]
    BY <1>3 DEF Consistent
<1>6. PICK f \in 1..Len(t) : f + k = first
  <2>1. first - k \in 1..Len(t) /\ (first - k) + k = first
    BY <1>4, <1>5, LimitAssumption
  <2> QED BY <2>1
<1>7. f + (count + 1) = Len(t) + 1 /\ f \in 1..n - k
    BY <1>4, <1>5, <1>6
<1>8. t[f] = s[first]
    BY <1>4, <1>6, <1>7
<1>9. ASSUME NEW i \in 1..Len(t), i + requestsPerMinute <= f
      PROVE  t[i] + Minute < t[f]
  <2>1. i \in 1..n - k /\ i + k \in 1..n /\ (i + k) + requestsPerMinute <= first
    BY <1>4, <1>6, <1>7, <1>9, LimitAssumption
  <2>2. s[i + k] + Minute < s[first]
    BY <1>5, <2>1
  <2> QED BY <1>4, <1>8, <2>1, <2>2
<1>10. Consistent(t, count + 1, windowEnd)
    BY <1>5, <1>7, <1>8, <1>9 DEF Consistent
<1> QED BY <1>2, <1>10

\* Of two windows that a minute meets it misses the request that began the
\* first: the history of an address never shows twice the limit within a minute.
LEMMA BurstOfAddress ==
    ASSUME NEW s \in Seq(Nat), Chronicle(s),
           \/ s = <<>>
           \/ \E count \in 1..requestsPerMinute, windowEnd \in Nat :
                 Consistent(s, count, windowEnd),
           NEW i \in DOMAIN s, NEW j \in DOMAIN s,
           j - i >= 2 * requestsPerMinute - 1
    PROVE  s[j] - s[i] > Minute
<1>1. PICK n \in Nat : n = Len(s)
    OBVIOUS
<1>2. i \in 1..n /\ j \in 1..n /\ s # <<>> /\ n <= 2 * requestsPerMinute
    BY <1>1 DEF Chronicle
<1>3. i = 1 /\ j = n /\ n = 2 * requestsPerMinute
    BY <1>2, LimitAssumption
<1>4. PICK count \in 1..requestsPerMinute, windowEnd \in Nat :
         Consistent(s, count, windowEnd)
    BY <1>2
<1>5. PICK first \in 1..n :
         /\ first + count = n + 1
         /\ \A p \in 1..n :
               p + requestsPerMinute <= first => s[p] + Minute < s[first]
    BY <1>1, <1>4 DEF Consistent
<1>6. 1 + requestsPerMinute <= first
    BY <1>3, <1>5, LimitAssumption
<1>7. s[i] + Minute < s[first]
    BY <1>2, <1>3, <1>5, <1>6
<1>8. s[first] <= s[j] /\ s[i] \in Nat /\ s[first] \in Nat /\ s[j] \in Nat
    BY <1>1, <1>2, <1>3 DEF Chronicle
<1>9. \A a, b, c \in Nat : a + Minute < b /\ b <= c => c - a > Minute
    BY LimitAssumption
<1> QED BY <1>7, <1>8, <1>9

\* An address that allow refuses had the limit's worth of requests within the
\* last minute.
LEMMA FullWindow ==
    ASSUME NEW s \in Seq(Nat), now \in Nat, NEW windowEnd \in Nat,
           Consistent(s, requestsPerMinute, windowEnd), now <= windowEnd
    PROVE  /\ Len(s) >= requestsPerMinute
           /\ now - s[Len(s) - requestsPerMinute + 1] <= Minute
<1>1. PICK n \in Nat : n = Len(s)
    OBVIOUS
<1>2. PICK first \in 1..n : /\ first + requestsPerMinute = n + 1
                            /\ s[first] + Minute = windowEnd
    BY <1>1 DEF Consistent
<1>3. n >= requestsPerMinute /\ n - requestsPerMinute + 1 = first
    BY <1>2, LimitAssumption
<1>4. s[first] \in Nat
    BY <1>1
<1>5. now - s[first] <= Minute
    BY <1>2, <1>4, LimitAssumption
<1> QED BY <1>1, <1>3, <1>5

--------------------------------------------------------------------------------
(* The middleware.                                                         *)

\* The status a cache entry stands for.
StatusOf(isActive) == IF isActive THEN "active" ELSE "inactive"

\* An entry tells the status of its tenant, or the status has changed since the
\* lookup that cached it began.
CacheInv(t) ==
    cache[t] # NoEntry =>
        /\ cache[t].cachedAt <= now
        /\ \/ tenants[t] = StatusOf(cache[t].isActive)
           \/ /\ tenants[t] # "absent" /\ was[t] = StatusOf(cache[t].isActive)
              /\ changedAt[t] >= cache[t].cachedAt - LookupTimeout

\* So does what the query of a request found.
RequestInv(r) ==
    LET q == req[r]
    IN  /\ q.pc \in {"free", "register"} <=> q.key = NoTenant
        /\ q.since <= now
        /\ q.pc = "result" =>
              /\ q.found = "absent" => \/ tenants[q.key] = "absent"
                                       \/ changedAt[q.key] >= q.since
              /\ q.found # "absent" => \/ tenants[q.key] = q.found
                                       \/ /\ tenants[q.key] # "absent"
                                          /\ was[q.key] = q.found
                                          /\ changedAt[q.key] >= q.since

\* The inductive invariant.
AccessInv ==
    /\ AccessTypeOK
    /\ \A ip \in Addrs : LimiterInv(ip)
    /\ \A t \in Tenants : CacheInv(t)
    /\ \A r \in Requests : RequestInv(r)

\* A new request is well-formed.
LEMMA FreshTypes ==
    /\ Free \in Request /\ Free.pc = "free" /\ Free.key = NoTenant
    /\ Free.since = 0
    /\ \A t \in Tenants : LET q == Fresh("auth", t)
                          IN  /\ q \in Request /\ q.pc = "auth" /\ q.key = t
                              /\ q.since = 0
    /\ LET q == Fresh("register", NoTenant)
       IN  /\ q \in Request /\ q.pc = "register" /\ q.key = NoTenant
           /\ q.since = 0
    BY DEF Free, Fresh, Request, TenantStatuses

\* A key that is looked up is that of a tenant.
LEMMA KeyOfTenant ==
    ASSUME AccessInv, NEW r \in Requests, req[r].pc \notin {"free", "register"}
    PROVE  req[r].key \in Tenants
<1>1. req[r] \in Request /\ RequestInv(r)
    BY DEF AccessInv, AccessTypeOK
<1> QED BY <1>1 DEF RequestInv, Request

--------------------------------------------------------------------------------
(* allow keeps what is said of its address.                                *)

\* The record and the history of an address after allow.
LEMMA AllowEffect ==
    ASSUME LimiterTypeOK, NEW ip \in Addrs, LimiterInv(ip),
           NEW allowed \in BOOLEAN, allow(ip, allowed), now' = now
    PROVE  /\ LimiterTypeOK' /\ LimiterInv(ip)'
           /\ \A a \in Addrs \ {ip} : records'[a] = records[a]
                                      /\ admits'[a] = admits[a]
<1> USE LimitAssumption, NoRecordAssumption
<1>1. /\ admits[ip] \in Seq(Nat) /\ now \in Nat /\ Chronicle(admits[ip])
      /\ records \in [Addrs -> ipRecord \cup {NoRecord}]
      /\ admits \in [Addrs -> Seq(Nat)]
    BY DEF LimiterTypeOK, LimiterInv
<1>2. Remember(admits[ip]) \in Seq(Nat) /\ Chronicle(Remember(admits[ip]))
    BY <1>1, RememberEffect, RememberKeepsOrder DEF Chronicle
<1>3. CASE /\ NewWindow(ip)
           /\ records' = [records EXCEPT ![ip] = Opened]
           /\ admits' = [admits EXCEPT ![ip] = Remember(@)]
  <2>1. /\ Opened \in ipRecord /\ Opened.count = 1
        /\ Opened.windowEnd = now + Minute
    BY <1>1 DEF Opened, ipRecord
  <2>2. \/ admits[ip] = <<>>
        \/ \E count \in 1..requestsPerMinute, windowEnd \in Nat :
              Consistent(admits[ip], count, windowEnd) /\ now > windowEnd
    BY <1>1, <1>3 DEF NewWindow, LimiterTypeOK, LimiterInv, ipRecord
  <2>3. Consistent(Remember(admits[ip]), 1, now + Minute)
    BY <1>1, <2>2, OpensWindow
  <2>4. records'[ip] = Opened /\ admits'[ip] = Remember(admits[ip])
    BY <1>1, <1>3
  <2>5. LimiterTypeOK'
    BY <1>1, <1>2, <1>3, <2>1 DEF LimiterTypeOK
  <2>6. LimiterInv(ip)'
    BY <1>2, <2>1, <2>3, <2>4 DEF LimiterInv, Chronicle, Consistent
  <2> QED BY <1>1, <1>3, <2>5, <2>6
<1>4. CASE /\ ~NewWindow(ip)
           /\ records[ip].count < requestsPerMinute
           /\ records' = [records EXCEPT ![ip].count = @ + 1]
           /\ admits' = [admits EXCEPT ![ip] = Remember(@)]
  <2>1. /\ records[ip] \in ipRecord /\ records[ip] # NoRecord
        /\ records[ip].count \in 1..requestsPerMinute - 1
        /\ records[ip].windowEnd \in Nat
    BY <1>1, <1>4 DEF NewWindow, LimiterTypeOK, ipRecord
  <2>2. Consistent(admits[ip], records[ip].count, records[ip].windowEnd)
    BY <2>1 DEF LimiterInv
  <2>3. Consistent(Remember(admits[ip]), records[ip].count + 1,
                   records[ip].windowEnd)
    BY <1>1, <2>1, <2>2, CountsInWindow
  <2>4. /\ records'[ip] \in ipRecord
        /\ records'[ip].count = records[ip].count + 1
        /\ records'[ip].windowEnd = records[ip].windowEnd
        /\ admits'[ip] = Remember(admits[ip])
    BY <1>1, <1>4, <2>1 DEF ipRecord
  <2>5. \A a \in Addrs \ {ip} : records'[a] = records[a] /\ admits'[a] = admits[a]
    BY <1>1, <1>4
  <2>6. /\ records' \in [Addrs -> ipRecord \cup {NoRecord}]
        /\ admits' \in [Addrs -> Seq(Nat)]
    BY <1>1, <1>2, <1>4, <2>4, <2>5
  <2>7. LimiterTypeOK'
    <3>1. ASSUME NEW a \in Addrs, records'[a] # NoRecord
          PROVE  records'[a].count \in 1..requestsPerMinute
      <4>1. CASE a = ip
        BY <2>1, <2>4, <4>1
      <4>2. CASE a # ip
        BY <2>5, <3>1, <4>2 DEF LimiterTypeOK
      <4> QED BY <4>1, <4>2
    <3> QED BY <1>1, <2>6, <3>1 DEF LimiterTypeOK
  <2>8. LimiterInv(ip)'
    BY <1>2, <2>1, <2>3, <2>4 DEF LimiterInv, Chronicle, Consistent
  <2> QED BY <2>5, <2>7, <2>8
<1>5. CASE UNCHANGED <<records, admits>>
    BY <1>5 DEF LimiterTypeOK, LimiterInv, Chronicle, Consistent
<1>6. CASE allowed = TRUE
    BY <1>3, <1>4, <1>6 DEF allow
<1>7. CASE allowed = FALSE
  <2>1. admits' = admits /\ records' = records
    BY <1>1, <1>7 DEF allow, Refuse
  <2> QED BY <1>5, <2>1
<1> QED BY <1>6, <1>7

--------------------------------------------------------------------------------
\* A row of the tenants table stays, or is written now.
TableStep ==
    \A t \in Tenants :
        \/ UNCHANGED <<tenants[t], was[t], changedAt[t]>>
        \/ /\ tenants'[t] \in {"active", "inactive"} \ {tenants[t]}
           /\ was'[t] = tenants[t] /\ changedAt'[t] = now

\* Time and writes to the table do no harm to the entries and requests that a
\* step leaves alone.
LEMMA Persists ==
    ASSUME AccessInv, now' \in Nat, now' >= now, TableStep
    PROVE  /\ \A t \in Tenants : cache'[t] = cache[t] => CacheInv(t)'
           /\ \A r \in Requests : req'[r] = req[r] => RequestInv(r)'
<1>1. ASSUME NEW t \in Tenants, cache'[t] = cache[t] PROVE CacheInv(t)'
  <2> SUFFICES ASSUME cache[t] # NoEntry PROVE CacheInv(t)'
    BY <1>1 DEF CacheInv
  <2>1. /\ CacheInv(t) /\ now \in Nat /\ cache[t].cachedAt \in Nat
        /\ LookupTimeout \in Nat /\ changedAt[t] \in Nat
        /\ tenants[t] \in TenantStatuses
    BY AccessAssumption
       DEF AccessInv, AccessTypeOK, LimiterTypeOK, tenantCacheEntry
  <2>2. StatusOf(cache[t].isActive) \in {"active", "inactive"}
    BY DEF StatusOf
  <2>3. CASE UNCHANGED <<tenants[t], was[t], changedAt[t]>>
    BY <1>1, <2>1, <2>3 DEF CacheInv
  <2>4. CASE /\ tenants'[t] \in {"active", "inactive"} \ {tenants[t]}
             /\ was'[t] = tenants[t] /\ changedAt'[t] = now
    <3>1. \/ tenants'[t] = StatusOf(cache[t].isActive)
          \/ was'[t] = StatusOf(cache[t].isActive) /\ tenants'[t] # "absent"
      BY <1>1, <2>1, <2>2, <2>4 DEF CacheInv, TenantStatuses
    <3> QED BY <1>1, <2>1, <2>4, <3>1 DEF CacheInv
  <2> QED BY <2>3, <2>4 DEF TableStep
<1>2. ASSUME NEW r \in Requests, req'[r] = req[r] PROVE RequestInv(r)'
  <2>1. /\ RequestInv(r) /\ now \in Nat /\ req[r].since \in Nat
        /\ req[r].pc = "result" => req[r].key \in Tenants
        /\ req[r].found \in TenantStatuses
    BY KeyOfTenant DEF AccessInv, AccessTypeOK, LimiterTypeOK, Request
  <2>2. CASE req[r].pc # "result"
    BY <1>2, <2>1, <2>2 DEF RequestInv
  <2>3. CASE req[r].pc = "result"
    <3>1. PICK t \in Tenants : t = req[r].key
      BY <2>1, <2>3
    <3>2. tenants[t] \in TenantStatuses /\ changedAt[t] \in Nat
      BY DEF AccessInv, AccessTypeOK
    <3>3. CASE UNCHANGED <<tenants[t], was[t], changedAt[t]>>
      BY <1>2, <2>1, <2>3, <3>1, <3>3 DEF RequestInv
    <3>4. CASE /\ tenants'[t] \in {"active", "inactive"} \ {tenants[t]}
               /\ was'[t] = tenants[t] /\ changedAt'[t] = now
      <4>1. req[r].found # "absent" =>
               \/ tenants'[t] = req[r].found
               \/ was'[t] = req[r].found /\ tenants'[t] # "absent"
        BY <2>1, <2>3, <3>1, <3>2, <3>4 DEF RequestInv, TenantStatuses
      <4> QED BY <1>2, <2>1, <2>3, <3>1, <3>4, <4>1 DEF RequestInv
    <3> QED BY <3>3, <3>4 DEF TableStep
  <2> QED BY <2>2, <2>3
<1> QED BY <1>1, <1>2

\* What Respond and GoesOn do to the slots.
LEMMA SlotEffect ==
    ASSUME AccessTypeOK, NEW r \in Requests, NEW q \in Request,
           req' = [req EXCEPT ![r] = q]
    PROVE  /\ req' \in [Requests -> Request] /\ req'[r] = q
           /\ \A p \in Requests \ {r} : req'[p] = req[p]
    BY DEF AccessTypeOK

\* A whole step on the slot of one request that leaves the limiter alone, from
\* what it does to that slot and to the cache.
LEMMA SlotStep ==
    ASSUME AccessInv, NEW r \in Requests, NEW q \in Request,
           req' = [req EXCEPT ![r] = q], RequestInv(r)',
           now' = now, UNCHANGED limiterVars, answer' \in Answers,
           tenants' \in [Tenants -> TenantStatuses],
           was' \in [Tenants -> TenantStatuses],
           changedAt' \in [Tenants -> Nat], TableStep,
           cache' \in [Tenants -> tenantCacheEntry \cup {NoEntry}],
           \A t \in Tenants : cache'[t] = cache[t] \/ CacheInv(t)'
    PROVE  AccessInv'
<1>1. AccessTypeOK /\ now \in Nat
    BY DEF AccessInv, AccessTypeOK, LimiterTypeOK
<1>2. /\ req' \in [Requests -> Request]
      /\ \A p \in Requests \ {r} : req'[p] = req[p]
    BY <1>1, SlotEffect
<1>3. AccessTypeOK'
    BY <1>1, <1>2 DEF AccessTypeOK, LimiterTypeOK, limiterVars
<1>4. \A ip \in Addrs : LimiterInv(ip)'
    BY DEF AccessInv, LimiterInv, Chronicle, Consistent, limiterVars
<1>5. \A t \in Tenants : CacheInv(t)'
    BY <1>1, Persists
<1>6. ASSUME NEW p \in Requests PROVE RequestInv(p)'
    BY <1>1, <1>2, Persists
<1> QED BY <1>3, <1>4, <1>5, <1>6 DEF AccessInv

\* The same, for a step after which the slot is free and the cache as before.
LEMMA AnswerStep ==
    ASSUME AccessInv, NEW r \in Requests, NEW a \in Answers, Respond(r, a),
           now' = now, UNCHANGED <<limiterVars, cache>>,
           tenants' \in [Tenants -> TenantStatuses],
           was' \in [Tenants -> TenantStatuses],
           changedAt' \in [Tenants -> Nat], TableStep
    PROVE  AccessInv'
<1>1. AccessTypeOK /\ now \in Nat
    BY DEF AccessInv, AccessTypeOK, LimiterTypeOK
<1>2. Free \in Request /\ req' = [req EXCEPT ![r] = Free] /\ answer' = a
    BY FreshTypes DEF Respond
<1>3. req'[r] = Free
    BY <1>1, <1>2, SlotEffect
<1>4. RequestInv(r)'
    BY <1>1, <1>3, FreshTypes DEF RequestInv
<1> QED BY <1>1, <1>2, <1>4, SlotStep DEF AccessTypeOK

--------------------------------------------------------------------------------
\* Every step keeps the inductive invariant.
LEMMA AccessInvStep == AccessInv /\ [AccessNext]_accessVars => AccessInv'
<1> SUFFICES ASSUME AccessInv, [AccessNext]_accessVars PROVE AccessInv'
    OBVIOUS
<1>0. /\ AccessTypeOK /\ now \in Nat /\ LimiterTypeOK
      /\ req \in [Requests -> Request] /\ answer \in Answers
      /\ tenants \in [Tenants -> TenantStatuses]
      /\ was \in [Tenants -> TenantStatuses]
      /\ changedAt \in [Tenants -> Nat]
      /\ cache \in [Tenants -> tenantCacheEntry \cup {NoEntry}]
    BY DEF AccessInv, AccessTypeOK, LimiterTypeOK
<1>a. UNCHANGED tenantVars => TableStep
    BY DEF tenantVars, TableStep
<1>1. ASSUME NEW r \in Requests, NEW ip \in Addrs, Arrive(r, ip) PROVE AccessInv'
  <2>1. UNCHANGED <<now, tenants, was, changedAt, cache>>
    BY <1>1 DEF Arrive, tenantVars
  <2>2. PICK allowed \in BOOLEAN : allow(ip, allowed)
    BY <1>1 DEF Arrive, Limited
  <2>3. /\ LimiterTypeOK' /\ LimiterInv(ip)'
        /\ \A a \in Addrs \ {ip} : records'[a] = records[a]
                                   /\ admits'[a] = admits[a]
    BY <1>0, <2>1, <2>2, AllowEffect DEF AccessInv
  <2>4. ASSUME NEW a \in Addrs PROVE LimiterInv(a)'
    <3>1. CASE a = ip
      BY <2>3, <3>1
    <3>2. CASE a # ip
      <4>1. /\ LimiterInv(a) /\ records'[a] = records[a] /\ admits'[a] = admits[a]
            /\ now' = now
        BY <2>1, <2>3, <3>2 DEF AccessInv
      <4> QED BY <4>1 DEF LimiterInv, Chronicle, Consistent
    <3> QED BY <3>1, <3>2
  <2>5. answer' \in Answers
    BY <1>0, <1>1 DEF Arrive, Limited, Respond, GoesOn, Answers
  <2>6. PICK q \in Request : /\ req' = [req EXCEPT ![r] = q]
                             /\ q.pc \in {"free", "register"} <=> q.key = NoTenant
                             /\ q.since = 0 /\ q.pc # "result"
    <3>1. PICK q : /\ req' = [req EXCEPT ![r] = q]
                   /\ \/ q = Free \/ q = Fresh("register", NoTenant)
                      \/ \E t \in Tenants : q = Fresh("auth", t)
      BY <1>1 DEF Arrive, Limited, Respond, GoesOn
    <3>2. /\ q \in Request /\ q.since = 0
          /\ \/ q.pc \in {"free", "register"} /\ q.key = NoTenant
             \/ q.pc = "auth" /\ q.key \in Tenants
      BY <3>1, FreshTypes
    <3>3. q.pc \in {"free", "register"} <=> q.key = NoTenant
      BY <3>2, AccessAssumption
    <3>4. q.pc # "result"
      BY <3>2
    <3> QED BY <3>1, <3>2, <3>3, <3>4
  <2>7. /\ req' \in [Requests -> Request] /\ req'[r] = q
        /\ \A p \in Requests \ {r} : req'[p] = req[p]
    BY <1>0, <2>6, SlotEffect
  <2>8. RequestInv(r)'
    BY <1>0, <2>1, <2>6, <2>7 DEF RequestInv
  <2>9. \A p \in Requests : RequestInv(p)'
    BY <1>0, <1>a, <2>1, <2>7, <2>8, Persists DEF tenantVars
  <2>10. \A t \in Tenants : CacheInv(t)'
    BY <1>0, <1>a, <2>1, Persists DEF tenantVars
  <2>11. AccessTypeOK'
    BY <1>0, <2>1, <2>3, <2>5, <2>7 DEF AccessTypeOK
  <2> QED BY <2>4, <2>9, <2>10, <2>11 DEF AccessInv
<1>2. ASSUME NEW r \in Requests, CheckCache(r) PROVE AccessInv'
  <2>1. UNCHANGED <<now, limiterVars, tenants, was, changedAt, cache>>
    BY <1>2 DEF CheckCache, tenantVars
  <2>2. CASE Respond(r, Verdict(cache[req[r].key].isActive))
    <3>1. Verdict(cache[req[r].key].isActive) \in Answers
      BY DEF Verdict, Answers
    <3> QED BY <1>0, <1>a, <2>1, <2>2, <3>1, AnswerStep DEF tenantVars
  <2>3. CASE GoesOn(r, [req[r] EXCEPT !.pc = "query", !.since = now])
    <3>1. PICK q \in Request : q = [req[r] EXCEPT !.pc = "query", !.since = now]
      BY <1>0 DEF Request
    <3>2. /\ req' = [req EXCEPT ![r] = q] /\ req'[r] = q /\ answer' = answer
          /\ q.pc = "query" /\ q.since = now /\ q.key = req[r].key
      BY <1>0, <2>3, <3>1 DEF GoesOn, Request
    <3>3. q.key \in Tenants
      BY <1>2, <3>2, KeyOfTenant DEF CheckCache
    <3>4. RequestInv(r)'
      BY <1>0, <2>1, <3>2, <3>3, AccessAssumption DEF RequestInv
    <3> QED BY <1>0, <1>a, <2>1, <3>2, <3>4, SlotStep DEF tenantVars
  <2> QED BY <1>2, <2>2, <2>3 DEF CheckCache
<1>3. ASSUME NEW r \in Requests, lookupTenant(r) PROVE AccessInv'
  <2>1. UNCHANGED <<now, limiterVars, tenants, was, changedAt, cache>>
    BY <1>3 DEF lookupTenant, tenantVars
  <2>2. /\ req[r].key \in Tenants /\ req[r] \in Request /\ RequestInv(r)
        /\ tenants[req[r].key] \in TenantStatuses
    BY <1>0, <1>3, KeyOfTenant DEF lookupTenant, AccessInv
  <2>3. PICK q \in Request :
           q = [req[r] EXCEPT !.pc = "result", !.found = tenants[req[r].key]]
    BY <2>2 DEF Request
  <2>4. /\ req' = [req EXCEPT ![r] = q] /\ req'[r] = q /\ answer' = answer
        /\ q.pc = "result" /\ q.since = req[r].since /\ q.key = req[r].key
        /\ q.found = tenants[req[r].key]
    BY <1>0, <1>3, <2>2, <2>3 DEF lookupTenant, GoesOn, Request
  <2>5. RequestInv(r)'
    BY <2>1, <2>2, <2>4, AccessAssumption DEF RequestInv
  <2> QED BY <1>0, <1>a, <2>1, <2>4, <2>5, SlotStep DEF tenantVars
<1>4. ASSUME NEW r \in Requests, LookupFinds(r) PROVE AccessInv'
  <2>1. UNCHANGED <<now, limiterVars, tenants, was, changedAt>>
    BY <1>4 DEF LookupFinds, tenantVars
  <2>2. PICK t \in Tenants : t = req[r].key
    BY <1>4, KeyOfTenant DEF LookupFinds
  <2>3. /\ req[r] \in Request /\ RequestInv(r) /\ changedAt[t] \in Nat
        /\ req[r].since \in Nat /\ LookupTimeout \in Nat
        /\ req[r].found \in {"active", "inactive"}
    BY <1>0, <1>4, AccessAssumption
       DEF LookupFinds, AccessInv, Request, TenantStatuses
  <2>4. PICK e \in tenantCacheEntry :
           /\ e = [isActive |-> req[r].found = "active", cachedAt |-> now]
           /\ cache' = [cache EXCEPT ![t] = e]
    BY <1>0, <1>4, <2>2 DEF LookupFinds, setCache, tenantCacheEntry
  <2>5. /\ cache'[t] = e /\ e.cachedAt = now /\ StatusOf(e.isActive) = req[r].found
        /\ \A u \in Tenants \ {t} : cache'[u] = cache[u]
        /\ cache' \in [Tenants -> tenantCacheEntry \cup {NoEntry}]
    BY <1>0, <2>3, <2>4 DEF StatusOf
  <2>6. \/ tenants[t] = req[r].found
        \/ /\ tenants[t] # "absent" /\ was[t] = req[r].found
           /\ changedAt[t] >= now - LookupTimeout
    BY <1>0, <1>4, <2>2, <2>3 DEF LookupFinds, RequestInv
  <2>7. CacheInv(t)'
    BY <1>0, <2>1, <2>5, <2>6 DEF CacheInv
  <2>8. Free \in Request /\ req' = [req EXCEPT ![r] = Free] /\ answer' \in Answers
    BY <1>4, FreshTypes DEF LookupFinds, Respond, Verdict, Answers
  <2>9. RequestInv(r)'
    BY <1>0, <2>1, <2>8, SlotEffect, FreshTypes DEF RequestInv
  <2> QED BY <1>0, <1>a, <2>1, <2>5, <2>7, <2>8, <2>9, SlotStep DEF tenantVars
<1>5. ASSUME NEW r \in Requests, LookupFindsNone(r) \/ LookupFails(r)
      PROVE  AccessInv'
  <2>1. /\ UNCHANGED <<now, limiterVars, tenants, was, changedAt, cache>>
        /\ Respond(r, "unauthorized")
    BY <1>5 DEF LookupFindsNone, LookupFails, tenantVars
  <2>2. "unauthorized" \in Answers
    BY DEF Answers
  <2> QED BY <1>0, <1>a, <2>1, <2>2, AnswerStep DEF tenantVars
<1>b. ASSUME NEW t \in Tenants, NEW status \in {"active", "inactive"},
             SetTenant(t, status), status # tenants[t]
      PROVE  /\ tenants' \in [Tenants -> TenantStatuses]
             /\ was' \in [Tenants -> TenantStatuses]
             /\ changedAt' \in [Tenants -> Nat] /\ TableStep
    BY <1>0, <1>b DEF SetTenant, TableStep, TenantStatuses
<1>6. ASSUME NEW r \in Requests, Register(r) PROVE AccessInv'
  <2>1. UNCHANGED <<now, limiterVars, cache>>
    BY <1>6 DEF Register
  <2>2. PICK a \in Answers : Respond(r, a)
    BY <1>6 DEF Register, Answers
  <2>3. UNCHANGED tenantVars \/ insertTenant
    BY <1>6 DEF Register
  <2>4. /\ tenants' \in [Tenants -> TenantStatuses]
        /\ was' \in [Tenants -> TenantStatuses]
        /\ changedAt' \in [Tenants -> Nat] /\ TableStep
    <3>1. CASE UNCHANGED tenantVars
      BY <1>0, <1>a, <3>1 DEF tenantVars
    <3>2. CASE insertTenant
      <4>1. PICK t \in Tenants : tenants[t] = "absent" /\ SetTenant(t, "active")
        BY <3>2 DEF insertTenant
      <4> QED BY <1>b, <4>1
    <3> QED BY <2>3, <3>1, <3>2
  <2> QED BY <2>1, <2>2, <2>4, AnswerStep
<1>7. ASSUME NEW t \in Tenants, OperatorUpdates(t) PROVE AccessInv'
  <2>1. UNCHANGED <<now, limiterVars, cache, req, answer>>
    BY <1>7 DEF OperatorUpdates
  <2>2. /\ tenants' \in [Tenants -> TenantStatuses]
        /\ was' \in [Tenants -> TenantStatuses]
        /\ changedAt' \in [Tenants -> Nat] /\ TableStep
    BY <1>7, <1>b DEF OperatorUpdates
  <2>3. AccessTypeOK'
    BY <1>0, <2>1, <2>2 DEF AccessTypeOK, LimiterTypeOK, limiterVars
  <2>4. \A ip \in Addrs : LimiterInv(ip)'
    BY <2>1 DEF AccessInv, LimiterInv, Chronicle, Consistent, limiterVars
  <2>5. /\ \A u \in Tenants : CacheInv(u)'
        /\ \A r \in Requests : RequestInv(r)'
    BY <1>0, <2>1, <2>2, Persists
  <2> QED BY <2>3, <2>4, <2>5 DEF AccessInv
<1>8. ASSUME now' \in {now, now + 1},
             UNCHANGED <<limiterVars, tenantVars, cache, req, answer>>
      PROVE  AccessInv'
  <2>1. now' \in Nat /\ now' >= now
    BY <1>0, <1>8
  <2>2. AccessTypeOK'
    BY <1>0, <1>8, <2>1 DEF AccessTypeOK, LimiterTypeOK, limiterVars, tenantVars
  <2>3. ASSUME NEW ip \in Addrs PROVE LimiterInv(ip)'
    <3>1. \A i \in 1..Len(admits[ip]) : admits[ip][i] \in Nat
      BY <1>0 DEF LimiterTypeOK
    <3>2. Chronicle(admits[ip])'
      <4>1. Chronicle(admits[ip]) /\ admits' = admits
        BY <1>8 DEF AccessInv, LimiterInv, limiterVars
      <4>2. \A i \in 1..Len(admits[ip]) : admits[ip][i] <= now
        BY <4>1 DEF Chronicle
      <4>3. \A i \in 1..Len(admits[ip]) : admits[ip][i] <= now'
        BY <1>0, <2>1, <3>1, <4>2
      <4> QED BY <4>1, <4>3 DEF Chronicle
    <3> QED BY <1>8, <3>2 DEF AccessInv, LimiterInv, Consistent, limiterVars
  <2>4. /\ \A u \in Tenants : CacheInv(u)'
        /\ \A r \in Requests : RequestInv(r)'
    BY <1>8, <1>a, <2>1, Persists
  <2> QED BY <2>2, <2>3, <2>4 DEF AccessInv
<1>9. CASE Tick
    BY <1>8, <1>9 DEF Tick
<1>10. CASE UNCHANGED accessVars
    BY <1>8, <1>10 DEF accessVars
<1> QED BY <1>1, <1>2, <1>3, <1>4, <1>5, <1>6, <1>7, <1>9, <1>10 DEF AccessNext

\* A process that has just started satisfies the inductive invariant.
LEMMA AccessInvInit == AccessInit => AccessInv
<1> SUFFICES ASSUME AccessInit PROVE AccessInv
    OBVIOUS
<1>1. LimiterTypeOK
    BY LimitAssumption DEF AccessInit, LimiterInit, LimiterTypeOK
<1>2. AccessTypeOK
    BY <1>1, FreshTypes DEF AccessInit, AccessTypeOK, Answers
<1>3. ASSUME NEW ip \in Addrs PROVE LimiterInv(ip)
  <2>1. records[ip] = NoRecord /\ admits[ip] = <<>> /\ Len(admits[ip]) = 0
    BY DEF AccessInit, LimiterInit
  <2>2. Chronicle(admits[ip])
    BY <2>1, LimitAssumption DEF Chronicle
  <2> QED BY <2>1, <2>2 DEF LimiterInv
<1>4. /\ \A t \in Tenants : CacheInv(t)
      /\ \A r \in Requests : RequestInv(r)
    BY FreshTypes DEF AccessInit, LimiterInit, CacheInv, RequestInv
<1> QED BY <1>2, <1>3, <1>4 DEF AccessInv

\* The inductive invariant holds throughout.
LEMMA AccessInvHolds == AccessSpec => []AccessInv
    BY AccessInvInit, AccessInvStep, PTL DEF AccessSpec

--------------------------------------------------------------------------------
\* Every variable keeps its type, and no counter of the limiter passes the limit.
THEOREM AccessTypeCorrect == AccessSpec => []AccessTypeOK
<1>1. AccessInv => AccessTypeOK
    BY DEF AccessInv
<1> QED BY <1>1, AccessInvHolds, PTL

\* allow lets fewer than twice the limit through in any minute, wherever it
\* begins.
THEOREM BurstBoundedHolds == AccessSpec => []BurstBounded
<1>1. ASSUME AccessInv PROVE BurstBounded
  <2> SUFFICES ASSUME NEW ip \in Addrs,
                      NEW i \in DOMAIN admits[ip], NEW j \in DOMAIN admits[ip],
                      j - i >= 2 * requestsPerMinute - 1
               PROVE  admits[ip][j] - admits[ip][i] > Minute
    BY DEF BurstBounded
  <2>1. admits[ip] \in Seq(Nat) /\ Chronicle(admits[ip])
    BY <1>1 DEF AccessInv, AccessTypeOK, LimiterTypeOK, LimiterInv
  <2>2. \/ admits[ip] = <<>>
        \/ \E count \in 1..requestsPerMinute, windowEnd \in Nat :
              Consistent(admits[ip], count, windowEnd)
    BY <1>1 DEF AccessInv, AccessTypeOK, LimiterTypeOK, LimiterInv, ipRecord
  <2> QED BY <2>1, <2>2, BurstOfAddress
<1> QED BY <1>1, AccessInvHolds, PTL

\* The limiter answers 429 only to an address that had the limit's worth of
\* requests within the last minute, however often it was refused before.
THEOREM RefusedAtLimitHolds == AccessSpec => RefusedAtLimit
<1> DEFINE Justified == \A r \in Requests, ip \in Addrs :
              Arrive(r, ip) /\ req'[r] = Free /\ answer' = "limited"
                  => AtLimit(ip)
<1>1. ASSUME AccessInv PROVE Justified
  <2> SUFFICES ASSUME NEW r \in Requests, NEW ip \in Addrs, Arrive(r, ip),
                      req'[r] = Free, answer' = "limited"
               PROVE  AtLimit(ip)
    OBVIOUS
  <2>1. req \in [Requests -> Request]
    BY <1>1 DEF AccessInv, AccessTypeOK
  <2>2. ~\E q : GoesOn(r, q) /\ q.pc # "free"
    BY <2>1, FreshTypes DEF GoesOn
  <2>3. Limited(r, ip)
    BY <2>2, FreshTypes DEF Arrive, Respond
  <2>4. /\ ~NewWindow(ip) /\ records[ip].count >= requestsPerMinute
    BY <2>3 DEF Limited, allow, Refuse
  <2>5. /\ admits[ip] \in Seq(Nat) /\ now \in Nat /\ records[ip] # NoRecord
        /\ records[ip] \in ipRecord
        /\ records[ip].count \in 1..requestsPerMinute
    BY <1>1, <2>4
       DEF AccessInv, AccessTypeOK, LimiterTypeOK, NewWindow
  <2>6. /\ records[ip].windowEnd \in Nat /\ now <= records[ip].windowEnd
        /\ records[ip].count = requestsPerMinute
    BY <2>4, <2>5, LimitAssumption DEF NewWindow, ipRecord
  <2>7. Consistent(admits[ip], requestsPerMinute, records[ip].windowEnd)
    BY <1>1, <2>5, <2>6 DEF AccessInv, LimiterInv
  <2> QED BY <2>5, <2>6, <2>7, FullWindow DEF AtLimit
<1>2. ASSUME AccessInv, [AccessNext]_accessVars PROVE [Justified]_accessVars
    BY <1>1, <1>2
<1> QED BY <1>2, AccessInvHolds, PTL DEF AccessSpec, RefusedAtLimit

\* A request past the limiter is served by one of these steps of its own.
LEMMA WhoFreesASlot ==
    ASSUME AccessInv, AccessNext, NEW r \in Requests,
           req[r].key # NoTenant, req'[r] = Free
    PROVE  CheckCache(r) \/ LookupFinds(r) \/ LookupFindsNone(r) \/ LookupFails(r)
<1>1. req \in [Requests -> Request] /\ RequestInv(r)
    BY DEF AccessInv, AccessTypeOK
<1>2. /\ req[r] # Free /\ req[r].pc \notin {"free", "register"}
    BY <1>1, FreshTypes DEF RequestInv
<1>3. ASSUME NEW p \in Requests, NEW q, req' = [req EXCEPT ![p] = q]
      PROVE  p = r /\ q = Free
    BY <1>1, <1>2, <1>3
<1>4. PICK p \in Requests :
         \/ \E ip \in Addrs : Arrive(p, ip)
         \/ CheckCache(p) \/ lookupTenant(p) \/ LookupFinds(p)
         \/ LookupFindsNone(p) \/ LookupFails(p) \/ Register(p)
    BY <1>1, <1>2 DEF AccessNext, OperatorUpdates, Tick
<1>5. \E q : req' = [req EXCEPT ![p] = q]
    BY <1>4 DEF Arrive, Limited, CheckCache, lookupTenant, LookupFinds,
       LookupFindsNone, LookupFails, Register, Respond, GoesOn
<1>6. p = r
    BY <1>3, <1>5
<1>7. ~lookupTenant(r)
  <2>1. [req[r] EXCEPT !.pc = "result", !.found = tenants[req[r].key]].pc = "result"
    BY <1>1 DEF Request
  <2> QED BY <1>3, <2>1, FreshTypes DEF lookupTenant, GoesOn
<1> QED BY <1>2, <1>4, <1>6, <1>7, FreshTypes DEF Arrive, Register

\* A verdict of the middleware is at most cacheTTL and one lookup old, in whatever
\* order concurrent lookups overwrite each other's entries.
THEOREM VerdictsAreRecentHolds == AccessSpec => VerdictsAreRecent
<1> DEFINE Recent(r) ==
              LET t == req[r].key
              IN  t # NoTenant /\ req'[r] = Free =>
                  /\ answer' = "accepted" => Recently(t, "active")
                  /\ answer' = "forbidden" => Recently(t, "inactive")
                  /\ LookupFindsNone(r) => \/ tenants[t] = "absent"
                                           \/ changedAt[t] >= req[r].since
<1>1. ASSUME AccessInv, AccessNext, NEW r \in Requests PROVE Recent(r)
  <2> SUFFICES ASSUME req[r].key # NoTenant, req'[r] = Free
               PROVE  /\ answer' = "accepted" => Recently(req[r].key, "active")
                      /\ answer' = "forbidden" => Recently(req[r].key, "inactive")
                      /\ LookupFindsNone(r) =>
                            \/ tenants[req[r].key] = "absent"
                            \/ changedAt[req[r].key] >= req[r].since
    OBVIOUS
  <2>1. /\ req \in [Requests -> Request] /\ RequestInv(r)
        /\ cache \in [Tenants -> tenantCacheEntry \cup {NoEntry}]
        /\ changedAt \in [Tenants -> Nat] /\ now \in Nat
        /\ cacheTTL \in Nat /\ LookupTimeout \in Nat
    BY <1>1, AccessAssumption DEF AccessInv, AccessTypeOK, LimiterTypeOK
  <2>2. PICK t \in Tenants : t = req[r].key
    BY <1>1, <2>1 DEF RequestInv, Request
  <2>3. changedAt[t] \in Nat /\ req[r].since \in Nat
    BY <2>1 DEF Request
  <2>4. LookupFindsNone(r) => \/ tenants[t] = "absent"
                              \/ changedAt[t] >= req[r].since
    BY <2>1, <2>2 DEF LookupFindsNone, RequestInv
  <2>5. CASE CheckCache(r)
    <3>1. getFromCache(t) /\ answer' = Verdict(cache[t].isActive)
      <4>1. [req[r] EXCEPT !.pc = "query", !.since = now].pc = "query"
        BY <2>1 DEF Request
      <4>2. ~GoesOn(r, [req[r] EXCEPT !.pc = "query", !.since = now])
        BY <2>1, <4>1, FreshTypes DEF GoesOn
      <4> QED BY <2>2, <2>5, <4>2 DEF CheckCache, Respond
    <3>2. /\ cache[t] \in tenantCacheEntry /\ cache[t].cachedAt \in Nat
          /\ now - cache[t].cachedAt <= cacheTTL /\ CacheInv(t)
      BY <1>1, <2>1, <3>1 DEF getFromCache, tenantCacheEntry, AccessInv
    <3>3. Recently(t, StatusOf(cache[t].isActive))
      BY <2>1, <2>3, <3>1, <3>2 DEF getFromCache, CacheInv, Recently
    <3> QED BY <2>2, <2>4, <3>1, <3>3 DEF Verdict, StatusOf
  <2>6. CASE LookupFinds(r)
    <3>1. /\ answer' = Verdict(req[r].found = "active")
          /\ now - req[r].since <= LookupTimeout
          /\ req[r].found \in {"active", "inactive"}
      BY <2>1, <2>6 DEF LookupFinds, Respond, Request, TenantStatuses
    <3>2. Recently(t, req[r].found)
      BY <2>1, <2>2, <2>3, <2>6, <3>1 DEF LookupFinds, RequestInv, Recently
    <3> QED BY <2>2, <2>4, <3>1, <3>2 DEF Verdict
  <2>7. CASE LookupFindsNone(r) \/ LookupFails(r)
    BY <2>2, <2>4, <2>7 DEF LookupFindsNone, LookupFails, Respond
  <2> QED BY <1>1, <2>5, <2>6, <2>7, WhoFreesASlot
<1>2. ASSUME AccessInv, [AccessNext]_accessVars
      PROVE  [\A r \in Requests : Recent(r)]_accessVars
    BY <1>1, <1>2
<1> QED BY <1>2, AccessInvHolds, PTL DEF AccessSpec, VerdictsAreRecent
================================================================================
