--------------------------- MODULE RateLimitProofs ---------------------------
(***************************************************************************)
(* A theorem about the rate limiter, for every value of the constants.     *)
(***************************************************************************)
EXTENDS RateLimit, SumTheorems

-----------------------------------------------------------------------------
(***************************************************************************)
(* The queue of a key, h, beside the ticks at which its last hits were     *)
(* recorded, a, at tick c.  The queue is the end of a, each hit dated at   *)
(* most Stall before it was recorded; what is no longer in the queue was   *)
(* recorded a window, less Stall, ago.                                     *)
(***************************************************************************)
Recent(h, a, c) ==
  /\ Len(h) <= Limit /\ Len(h) <= Len(a) /\ Len(a) <= Limit + 1
  /\ \A i \in 1 .. Len(h) : a[Len(a) - Len(h) + i] - Stall <= h[i]
  /\ \A i \in 1 .. Len(a) - Len(h) : a[i] + Window - Stall <= c
  /\ \A i \in 1 .. Len(a) : a[i] <= c
  /\ \A i, j \in 1 .. Len(a) : i <= j => a[i] <= a[j]
  /\ Len(a) = Limit + 1 => a[Limit + 1] - a[1] >= Window - Stall

Prompt == \A t \in Threads :
  checking[t].keys # {} => checking[t].now <= clock /\ clock <= checking[t].now + Stall

LimiterInv ==
  /\ RateLimitTypeOK
  /\ Prompt
  /\ \A k \in Callers : Recent(hits[k], admitted[k], clock)

-----------------------------------------------------------------------------
LEMMA TimesFacts ==
  /\ \A t \in Times : t \in Nat
  /\ \A s \in Seq(Times) : Len(s) \in Nat /\ \A i \in 1 .. Len(s) : s[i] \in Nat
<1>1. \A t \in Times : t \in Nat
  BY DEF Times
<1>2. \A s \in Seq(Times) : Len(s) \in Nat /\ \A i \in 1 .. Len(s) : s[i] \in Times
  OBVIOUS
<1>3. QED
  BY <1>1, <1>2

\* The loop pops a beginning of the queue, all of it expired.
LEMMA PurgedFacts ==
  ASSUME NEW q \in Seq(Times), NEW now \in Int
  PROVE  LET p == Purged(q, now) IN
         /\ p \in Seq(Times) /\ Len(p) <= Len(q)
         /\ \A i \in 1 .. Len(p) : p[i] = q[Len(q) - Len(p) + i]
         /\ \A i \in 1 .. Len(q) - Len(p) : Expired(now, q[i])
<1> DEFINE n == Len(q)
           kept == {i \in DOMAIN q : \E j \in 1 .. i : ~Expired(now, q[j])}
           live == {i \in 1 .. n : ~Expired(now, q[i])}
<1>1. n \in Nat /\ DOMAIN q = 1 .. n
  OBVIOUS
<1>2. \E f \in 1 .. n + 1 : kept = f .. n /\ \A i \in 1 .. f - 1 : Expired(now, q[i])
  <2>1. CASE live = {}
    <3>1. \A i \in 1 .. n : Expired(now, q[i])
      BY <2>1
    <3>2. kept = {}
      BY <1>1, <3>1
    <3>3. kept = n + 1 .. n /\ (n + 1) - 1 = n /\ n + 1 \in 1 .. n + 1
      BY <1>1, <3>2
    <3>4. QED
      BY <3>1, <3>3
  <2>2. CASE live # {}
    <3>1. live \subseteq Nat
      BY <1>1
    <3>2. PICK f \in live : \A m \in live : f <= m
      BY <2>2, <3>1, LeastNumber
    <3>3. f \in 1 .. n /\ ~Expired(now, q[f])
      BY <3>2
    <3>4. \A i \in 1 .. f - 1 : Expired(now, q[i])
      BY <1>1, <3>2, <3>3
    <3>5. kept = f .. n
      BY <1>1, <3>3, <3>4
    <3> HIDE DEF kept, n
    <3>6. f \in 1 .. n + 1
      BY <1>1, <3>3
    <3>7. QED
      BY <3>4, <3>5, <3>6
  <2>3. QED
    BY <2>1, <2>2
<1>3. PICK f \in 1 .. n + 1 : kept = f .. n /\ \A i \in 1 .. f - 1 : Expired(now, q[i])
  BY <1>2
<1>4. Cardinality(kept) = n - f + 1
  <2>0. f \in Int /\ n \in Int
    BY <1>1
  <2> HIDE DEF kept, n
  <2>1. Cardinality(f .. n) = IF f <= n THEN n - f + 1 ELSE 0
    BY <2>0, FS_Interval
  <2>2. QED
    BY <1>1, <1>3, <2>1
<1>5. Purged(q, now) = SubSeq(q, f, n)
  <2>1. Purged(q, now) = SubSeq(q, n - Cardinality(kept) + 1, n)
    BY DEF Purged
  <2>2. n - Cardinality(kept) + 1 = f
    <3> HIDE DEF kept, n
    <3>1. QED
      BY <1>1, <1>4
  <2>3. QED
    BY <2>1, <2>2
<1>6. /\ SubSeq(q, f, n) \in Seq(Times)
      /\ Len(SubSeq(q, f, n)) = n - f + 1
      /\ \A i \in 1 .. n - f + 1 : SubSeq(q, f, n)[i] = q[f + i - 1]
  BY <1>1
<1>7. QED
  BY <1>1, <1>3, <1>5, <1>6

\* A queue loses a beginning that expired.
LEMMA RecentPurged ==
  ASSUME NEW h \in Seq(Times), NEW a \in Seq(Times), NEW c \in Times, Recent(h, a, c),
         NEW now \in Int, now <= c
  PROVE  Recent(Purged(h, now), a, c)
<1> DEFINE p == Purged(h, now)
           m == Len(a)
           n == Len(h)
           l == Len(p)
<1>1. /\ p \in Seq(Times) /\ l <= n
      /\ \A i \in 1 .. l : p[i] = h[n - l + i]
      /\ \A i \in 1 .. n - l : Expired(now, h[i])
  BY PurgedFacts
<1>2. /\ l \in Nat /\ n \in Nat /\ m \in Nat
      /\ Limit \in Nat /\ Window \in Nat /\ Stall \in Nat /\ c \in Nat
  BY <1>1, RateLimitAssumption DEF Times
<1>3. /\ \A i \in 1 .. m : a[i] \in Nat
      /\ \A i \in 1 .. n : h[i] \in Nat
  BY TimesFacts
<1>4. /\ n <= Limit /\ n <= m /\ m <= Limit + 1
      /\ \A i \in 1 .. n : a[m - n + i] - Stall <= h[i]
      /\ \A i \in 1 .. m - n : a[i] + Window - Stall <= c
  BY DEF Recent
<1> HIDE DEF p, m, n, l
<1>5. \A i \in 1 .. l : a[m - l + i] - Stall <= p[i]
  <2>1. \A i \in 1 .. l : n - l + i \in 1 .. n /\ m - n + (n - l + i) = m - l + i
    BY <1>1, <1>2, <1>4
  <2>2. QED
    BY <1>1, <1>4, <2>1
<1>6. \A i \in 1 .. m - l : a[i] + Window - Stall <= c
  <2>1. ASSUME NEW i \in 1 .. m - l, ~(i \in 1 .. m - n)
        PROVE  a[i] + Window - Stall <= c
    <3> DEFINE j == i - (m - n)
    <3>1. j \in 1 .. n - l /\ m - n + j = i /\ j \in 1 .. n /\ i \in 1 .. m
      BY <1>1, <1>2, <1>4, <2>1
    <3> HIDE DEF j
    <3>2. now - h[j] >= Window
      BY <1>1, <3>1 DEF Expired
    <3>3. a[i] - Stall <= h[j]
      BY <1>4, <3>1
    <3>4. a[i] \in Nat /\ h[j] \in Nat
      BY <1>3, <3>1
    <3>5. QED
      BY <1>2, <3>2, <3>3, <3>4
  <2>2. QED
    BY <1>4, <2>1
<1>7. l <= Limit /\ l <= m
  BY <1>1, <1>2, <1>4
<1>8. QED
  BY <1>4, <1>5, <1>6, <1>7 DEF Recent, p, m, l

\* A key whose last hit expired has none that a window still needs.
LEMMA RecentPruned ==
  ASSUME NEW h \in Seq(Times), NEW a \in Seq(Times), NEW c \in Times, Recent(h, a, c),
         h # <<>>, NEW now \in Int, now <= c, Expired(now, h[Len(h)])
  PROVE  Recent(<<>>, a, c)
<1> DEFINE m == Len(a)
           n == Len(h)
<1>1. /\ n \in Nat /\ m \in Nat /\ n \in 1 .. n /\ m \in 1 .. m /\ m - n + n = m
      /\ Limit \in Nat /\ Window \in Nat /\ Stall \in Nat /\ c \in Nat
  BY RateLimitAssumption DEF Times, Recent
<1>2. /\ \A i \in 1 .. m : a[i] \in Nat
      /\ h[n] \in Nat
  BY <1>1, TimesFacts
<1>3. a[m] - Stall <= h[n] /\ \A i \in 1 .. m : a[i] <= a[m]
  <2>1. /\ \A i \in 1 .. n : a[m - n + i] - Stall <= h[i]
        /\ \A i, j \in 1 .. m : i <= j => a[i] <= a[j]
    BY DEF Recent
  <2>2. \A i \in 1 .. m : i <= m
    BY <1>1
  <2> HIDE DEF m, n
  <2>3. a[m - n + n] - Stall <= h[n]
    BY <1>1, <2>1
  <2>4. QED
    BY <1>1, <2>1, <2>2, <2>3
<1>4. now - h[n] >= Window
  BY DEF Expired
<1>5. ASSUME NEW i \in 1 .. m
      PROVE  a[i] + Window - Stall <= c
  <2> DEFINE hit == a[i]
             newest == a[m]
             last == h[n]
  <2>1. hit \in Nat /\ newest \in Nat /\ last \in Nat
    BY <1>1, <1>2
  <2>2. hit <= newest /\ newest - Stall <= last /\ now - last >= Window
    BY <1>3, <1>4
  <2> HIDE DEF hit, newest, last
  <2>3. hit + Window - Stall <= c
    BY <1>1, <2>1, <2>2
  <2>4. QED
    BY <2>3 DEF hit
<1>6. /\ m <= Limit + 1
      /\ \A i \in 1 .. m : a[i] <= c
      /\ \A i, j \in 1 .. m : i <= j => a[i] <= a[j]
      /\ m = Limit + 1 => a[Limit + 1] - a[1] >= Window - Stall
  BY DEF Recent
<1>7. Len(<<>>) = 0 /\ 1 .. 0 = {} /\ m - 0 = m /\ 0 <= Limit /\ 0 <= m
  BY <1>1
<1> HIDE DEF n
<1>8. QED
  BY <1>5, <1>6, <1>7 DEF Recent

\* Time only takes requests out of the window.
LEMMA RecentLater ==
  ASSUME NEW h \in Seq(Times), NEW a \in Seq(Times), NEW c \in Times, Recent(h, a, c)
  PROVE  Recent(h, a, c + 1)
<1>1. \A i \in 1 .. Len(a) : a[i] \in Nat
  BY TimesFacts
<1>2. \A i \in 1 .. Len(a) - Len(h) : a[i] + Window - Stall <= c + 1
  <2>1. Len(a) \in Nat /\ Len(h) \in Nat /\ c \in Nat /\ Window \in Nat /\ Stall \in Nat
    BY RateLimitAssumption DEF Times
  <2>2. \A i \in 1 .. Len(a) - Len(h) : i \in 1 .. Len(a) /\ a[i] + Window - Stall <= c
    BY <2>1 DEF Recent
  <2>3. QED
    BY <1>1, <2>1, <2>2
<1>3. \A i \in 1 .. Len(a) : a[i] <= c + 1
  BY <1>1 DEF Recent, Times
<1>4. QED
  BY <1>2, <1>3 DEF Recent

\* A request that is admitted is recorded at the end of both; if it is one too many
\* for a window, the first of them is out of the queue, and so out of the window.
LEMMA RecentAppended ==
  ASSUME NEW h \in Seq(Times), NEW a \in Seq(Times), NEW c \in Times, Recent(h, a, c),
         ~Full(h), NEW now \in Times, c <= now + Stall
  PROVE  /\ Remembered(Append(a, c)) \in Seq(Times)
         /\ Recent(Append(h, now), Remembered(Append(a, c)), c)
<1> DEFINE m == Len(a)
           n == Len(h)
           b == Append(a, c)
           g == Append(h, now)
           d == IF m = Limit + 1 THEN 1 ELSE 0
           r == Remembered(b)
<1>1. /\ n \in Nat /\ m \in Nat /\ Limit \in Nat /\ Limit >= 1
      /\ Window \in Nat /\ Stall \in Nat /\ c \in Nat /\ now \in Nat
      /\ n < Limit /\ n <= m /\ m <= Limit + 1
  BY RateLimitAssumption DEF Times, Recent, Full
<1>2. /\ b \in Seq(Times) /\ Len(b) = m + 1
      /\ \A i \in 1 .. m : b[i] = a[i] /\ a[i] \in Nat
      /\ b[m + 1] = c
  BY TimesFacts
<1>3. /\ Len(g) = n + 1
      /\ \A i \in 1 .. n : g[i] = h[i] /\ h[i] \in Nat
      /\ g[n + 1] = now
  BY TimesFacts
<1>4. /\ r \in Seq(Times) /\ Len(r) = m + 1 - d
      /\ \A i \in 1 .. m + 1 - d : r[i] = b[i + d]
  <2>1. CASE m = Limit + 1
    <3>1. r = Tail(b) /\ b # <<>>
      <4> HIDE DEF b
      <4>1. Len(b) > Limit + 1
        BY <1>1, <1>2, <2>1
      <4>2. b # <<>>
        BY <1>1, <4>1
      <4>3. QED
        BY <4>1, <4>2 DEF Remembered
    <3>2. Tail(b) \in Seq(Times) /\ Len(Tail(b)) = m /\ \A i \in 1 .. m : Tail(b)[i] = b[i + 1]
      <4> HIDE DEF b
      <4>1. QED
        BY <1>1, <1>2, <3>1
    <3>3. QED
      BY <1>1, <2>1, <3>1, <3>2
  <2>2. CASE m # Limit + 1
    <3>1. ~(Len(b) > Limit + 1)
      <4> HIDE DEF b
      <4>1. QED
        BY <1>1, <1>2, <2>2
    <3>2. r = b
      BY <3>1 DEF Remembered
    <3>3. d = 0 /\ m + 1 - d = m + 1 /\ \A i \in 1 .. m + 1 : i + d = i
      BY <1>1, <2>2
    <3>4. QED
      BY <1>2, <3>2, <3>3
  <2>3. QED
    BY <2>1, <2>2
<1>5. /\ \A i \in 1 .. n : a[m - n + i] - Stall <= h[i]
      /\ \A i \in 1 .. m - n : a[i] + Window - Stall <= c
      /\ \A i \in 1 .. m : a[i] <= c
      /\ \A i, j \in 1 .. m : i <= j => a[i] <= a[j]
  BY DEF Recent
<1>6. d \in {0, 1} /\ (d = 1 <=> m = Limit + 1)
  OBVIOUS
<1> HIDE DEF m, n, b, g, d, r
<1> DEFINE k == m + 1 - d
           l == n + 1
<1>7. k \in Nat /\ l \in Nat /\ l <= Limit /\ l <= k /\ k <= Limit + 1
  BY <1>1, <1>6
<1>8. \A i \in 1 .. k : i + d \in 1 .. m + 1 /\ r[i] = b[i + d] /\ (i # k => i + d \in 1 .. m)
  BY <1>1, <1>4, <1>6
<1>9. r[k] = c
  BY <1>2, <1>4, <1>6, <1>7, <1>1
<1>10. \A i \in 1 .. k : i # k => r[i] = a[i + d] /\ r[i] \in Nat /\ r[i] <= c
  BY <1>2, <1>5, <1>8
<1>11. \A i \in 1 .. k : r[i] <= c /\ r[i] \in Nat
  BY <1>1, <1>9, <1>10
<1>12. \A i \in 1 .. l : r[k - l + i] - Stall <= g[i]
  <2>1. ASSUME NEW i \in 1 .. l, i # l
        PROVE  r[k - l + i] - Stall <= g[i]
    <3>1. /\ i \in 1 .. n /\ k - l + i \in 1 .. k /\ k - l + i # k
          /\ (k - l + i) + d = m - n + i
      BY <1>1, <1>6, <1>7, <2>1
    <3>2. r[k - l + i] = a[m - n + i]
      BY <1>10, <3>1
    <3>3. QED
      BY <1>3, <1>5, <3>1, <3>2
  <2>2. k - l + l = k /\ g[l] = now
    BY <1>3, <1>7
  <2>3. r[k] - Stall <= now
    BY <1>1, <1>9
  <2>4. QED
    BY <2>1, <2>2, <2>3
<1>13. \A i \in 1 .. k - l : r[i] + Window - Stall <= c
  <2>1. ASSUME NEW i \in 1 .. k - l
        PROVE  r[i] + Window - Stall <= c
    <3>1. i \in 1 .. k /\ i # k /\ i + d \in 1 .. m - n
      BY <1>1, <1>6, <1>7
    <3>2. QED
      BY <1>5, <1>10, <3>1
  <2>2. QED
    BY <2>1
<1>14. \A i, j \in 1 .. k : i <= j => r[i] <= r[j]
  <2>1. ASSUME NEW i \in 1 .. k, NEW j \in 1 .. k, i <= j
        PROVE  r[i] <= r[j]
    <3>1. CASE j = k
      BY <1>9, <1>11, <3>1
    <3>2. CASE j # k
      <4>1. i # k
        BY <1>7, <2>1, <3>2
      <4>2. i + d \in 1 .. m /\ j + d \in 1 .. m /\ i + d <= j + d
        BY <1>6, <1>8, <2>1, <3>2, <4>1
      <4>3. QED
        BY <1>5, <1>10, <3>2, <4>1, <4>2
    <3>3. QED
      BY <3>1, <3>2
  <2>2. QED
    BY <2>1
<1>15. ASSUME k = Limit + 1
       PROVE  r[Limit + 1] - r[1] >= Window - Stall
  <2>1. 1 \in 1 .. k - l /\ 1 \in 1 .. k
    BY <1>1, <1>7, <1>15
  <2>2. r[1] + Window - Stall <= c /\ r[1] \in Nat
    BY <1>11, <1>13, <2>1
  <2>3. QED
    BY <1>1, <1>9, <1>15, <2>2
<1>16. Len(r) = k /\ Len(g) = l
  BY <1>3, <1>4
<1>17. Recent(g, r, c)
  <2> HIDE DEF k, l
  <2>1. QED
    BY <1>7, <1>11, <1>12, <1>13, <1>14, <1>15, <1>16 DEF Recent
<1>18. QED
  BY <1>4, <1>17 DEF r, g, b

-----------------------------------------------------------------------------
LEMMA LimiterInit == RateLimitInit => LimiterInv
<1> SUFFICES ASSUME RateLimitInit PROVE LimiterInv
  OBVIOUS
<1>1. <<>> \in Seq(Times) /\ Len(<<>>) = 0 /\ 0 \in Times
  BY RateLimitAssumption DEF Times
<1>2. RateLimitTypeOK /\ Prompt
  BY <1>1, RateLimitAssumption DEF RateLimitInit, RateLimitTypeOK, Prompt, NotChecking
<1>3. Recent(<<>>, <<>>, 0)
  BY <1>1, RateLimitAssumption DEF Recent
<1>4. QED
  BY <1>2, <1>3 DEF RateLimitInit, LimiterInv

LEMMA LimiterCheck ==
  ASSUME LimiterInv, NEW t \in Threads, Check(t)
  PROVE  LimiterInv'
<1> DEFINE now == checking[t].now
<1>0. /\ clock \in Times /\ clock \in Int
      /\ hits \in [Callers -> Seq(Times)]
      /\ \A k \in Callers : Len(hits[k]) <= Limit
      /\ checking \in [Threads -> [keys : SUBSET Callers, now : Times]]
      /\ admitted \in [Callers -> Seq(Times)]
  BY DEF LimiterInv, RateLimitTypeOK, Times
<1>1. PICK k \in checking[t].keys :
        LET q == Purged(hits[k], now) IN
        /\ IF Full(q)
           THEN /\ hits' = [hits EXCEPT ![k] = q]
                /\ UNCHANGED admitted
           ELSE /\ hits' = Pruned([hits EXCEPT ![k] = Append(q, now)], now)
                /\ admitted' = [admitted EXCEPT ![k] = Remembered(Append(@, clock))]
        /\ checking' = [checking EXCEPT ![t] = NotChecking]
        /\ UNCHANGED clock
  BY DEF Check
<1>2. k \in Callers /\ now \in Times /\ now \in Int /\ now <= clock /\ clock <= now + Stall
  BY <1>0, <1>1 DEF LimiterInv, Prompt, Times
<1> DEFINE q == Purged(hits[k], now)
<1>3. q \in Seq(Times) /\ Recent(q, admitted[k], clock)
  BY <1>0, <1>2, PurgedFacts, RecentPurged DEF LimiterInv
<1>4. /\ checking' \in [Threads -> [keys : SUBSET Callers, now : Times]]
      /\ Prompt' /\ clock' = clock
  <2>1. NotChecking \in [keys : SUBSET Callers, now : Times]
    BY RateLimitAssumption DEF NotChecking, Times
  <2>2. checking' = [checking EXCEPT ![t] = NotChecking] /\ clock' = clock
    BY <1>1
  <2>3. QED
    BY <1>0, <2>1, <2>2 DEF Prompt, LimiterInv, NotChecking
<1>5. ASSUME NEW h \in [Callers -> Seq(Times)], NEW a \in [Callers -> Seq(Times)],
             hits' = h, admitted' = a, \A j \in Callers : Recent(h[j], a[j], clock)
      PROVE  LimiterInv'
  <2>1. \A j \in Callers : Len(h[j]) <= Limit
    BY <1>5 DEF Recent
  <2>2. QED
    BY <1>0, <1>4, <1>5, <2>1 DEF LimiterInv, RateLimitTypeOK
<1> HIDE DEF now, q
<1>6. CASE Full(q)
  <2> DEFINE h == [hits EXCEPT ![k] = q]
  <2>1. h \in [Callers -> Seq(Times)] /\ \A j \in Callers : Recent(h[j], admitted[j], clock)
    BY <1>0, <1>3 DEF LimiterInv
  <2>2. hits' = h /\ admitted' = admitted
    BY <1>1, <1>6 DEF q
  <2> HIDE DEF h
  <2>3. QED
    BY <1>0, <1>5, <2>1, <2>2
<1>7. CASE ~Full(q)
  <2> DEFINE g == [hits EXCEPT ![k] = Append(q, now)]
             a == [admitted EXCEPT ![k] = Remembered(Append(@, clock))]
             h == Pruned(g, now)
  <2>1. /\ Remembered(Append(admitted[k], clock)) \in Seq(Times)
        /\ Recent(Append(q, now), Remembered(Append(admitted[k], clock)), clock)
    BY <1>0, <1>2, <1>3, <1>7, RecentAppended
  <2>2. g \in [Callers -> Seq(Times)] /\ a \in [Callers -> Seq(Times)]
    BY <1>0, <1>2, <1>3, <2>1
  <2>3. \A j \in Callers : Recent(g[j], a[j], clock)
    BY <1>0, <1>2, <2>1 DEF LimiterInv
  <2>4. hits' = h /\ admitted' = a
    BY <1>1, <1>7 DEF q
  <2> HIDE DEF g, a
  <2>5. ASSUME NEW j \in Callers, g[j] # <<>> /\ Expired(now, g[j][Len(g[j])])
        PROVE  Recent(<<>>, a[j], clock)
    BY <1>0, <1>2, <2>2, <2>3, <2>5, RecentPruned
  <2>6. h \in [Callers -> Seq(Times)] /\ \A j \in Callers : Recent(h[j], a[j], clock)
    <3>1. CASE h = g
      BY <2>2, <2>3, <3>1
    <3>2. CASE h = [j \in Callers |-> IF g[j] # <<>> /\ Expired(now, g[j][Len(g[j])])
                                      THEN <<>> ELSE g[j]]
      BY <2>2, <2>3, <2>5, <3>2
    <3>3. QED
      BY <3>1, <3>2 DEF Pruned
  <2> HIDE DEF h
  <2>7. QED
    BY <1>5, <2>2, <2>4, <2>6
<1>8. QED
  BY <1>6, <1>7

LEMMA LimiterStep == LimiterInv /\ [RateLimitNext]_limitVars => LimiterInv'
<1> SUFFICES ASSUME LimiterInv, [RateLimitNext]_limitVars PROVE LimiterInv'
  OBVIOUS
<1>1. ASSUME NEW t \in Threads, ReadClock(t) PROVE LimiterInv'
  <2>1. PICK k \in Callers :
          /\ checking' = [checking EXCEPT ![t] = [keys |-> {k}, now |-> clock]]
          /\ UNCHANGED <<clock, hits, admitted>>
    BY <1>1 DEF ReadClock
  <2>2. clock \in Int /\ clock <= clock /\ clock <= clock + Stall
    BY RateLimitAssumption DEF LimiterInv, RateLimitTypeOK, Times
  <2>3. RateLimitTypeOK'
    BY <2>1 DEF LimiterInv, RateLimitTypeOK
  <2>4. Prompt'
    BY <2>1, <2>2 DEF LimiterInv, RateLimitTypeOK, Prompt
  <2>5. QED
    BY <2>1, <2>3, <2>4 DEF LimiterInv
<1>2. ASSUME NEW t \in Threads, Check(t) PROVE LimiterInv'
  BY <1>2, LimiterCheck
<1>3. CASE ClockTick
  <2>1. /\ clock \in Times /\ clock \in Int /\ clock < EndOfTime /\ clock' = clock + 1
        /\ hits' = hits /\ admitted' = admitted /\ checking' = checking
    BY <1>3 DEF ClockTick, LimiterInv, RateLimitTypeOK, Times
  <2>2. clock' \in Times
    BY <2>1, RateLimitAssumption DEF Times
  <2>3. RateLimitTypeOK'
    BY <2>1, <2>2 DEF LimiterInv, RateLimitTypeOK
  <2>4. Prompt'
    <3>1. ASSUME NEW t \in Threads, checking[t].keys # {}
          PROVE  checking[t].now <= clock + 1 /\ clock + 1 <= checking[t].now + Stall
      <4>1. clock < checking[t].now + Stall /\ checking[t].now <= clock
        BY <1>3, <3>1 DEF ClockTick, LimiterInv, Prompt
      <4>2. checking[t].now \in Int
        BY DEF LimiterInv, RateLimitTypeOK, Times
      <4>3. QED
        BY <2>1, <4>1, <4>2, RateLimitAssumption
    <3>2. QED
      BY <2>1, <3>1 DEF Prompt
  <2>5. \A k \in Callers : Recent(hits[k], admitted[k], clock + 1)
    BY <2>1, RecentLater DEF LimiterInv, RateLimitTypeOK
  <2>6. QED
    BY <2>1, <2>3, <2>4, <2>5 DEF LimiterInv
<1>4. CASE UNCHANGED limitVars
  BY <1>4 DEF limitVars, LimiterInv, RateLimitTypeOK, Prompt
<1>5. QED
  BY <1>1, <1>2, <1>3, <1>4 DEF RateLimitNext

\* Whatever the limits and the interleaving, any Limit + 1 requests of a user that
\* are admitted take at least Window - Stall: neither the unsorted queue nor the
\* dropping of idle keys lets one more through.
THEOREM LimitHolds == RateLimitSpec => []AtMostLimitPerWindow
<1>1. LimiterInv => AtMostLimitPerWindow
  BY DEF LimiterInv, Recent, AtMostLimitPerWindow
<1>2. QED
  BY <1>1, LimiterInit, LimiterStep, PTL DEF RateLimitSpec
=============================================================================
