-------------------------- MODULE RateLimitProofs ---------------------------
(***************************************************************************)
(* The rate limiter keeps to its budget, for any users, requests, burst,   *)
(* rate and order of events.                                               *)
(***************************************************************************)
EXTENDS RateLimitProperties, FiniteSetTheorems, TLAPS

\* What a bucket has to do with the admissions it was charged for: it was last
\* touched by the latest, and none of them was made from more tokens than the
\* burst and the refill since, the tokens it still holds included.
Charged ==
    \A u \in Users :
        LET h == admitted[u]
            b == limiters[u]
        IN  IF h = <<>>
            THEN b # NoLimiter => b.level <= Full
            ELSE /\ b # NoLimiter
                 /\ b.last = h[Len(h)].at
                 /\ \A i \in DOMAIN h :
                       Worth(Len(h) - i + 1) + b.level
                           <= Full + (b.last - h[i].at) + (h[Len(h)].back - h[i].back)

RateInv == RateTypeOK /\ Charged /\ WindowBudget

USE IntervalAssumption, RateLimitAssumption

-----------------------------------------------------------------------------
(* The bucket.                                                             *)

\* One more token is worth one interval more.
LEMMA OneMore ==
    ASSUME NEW n \in Int
    PROVE  Worth(n) \in Int /\ Worth(n + 1) = Worth(n) + Interval
BY DEF Worth

LEMMA WorthOfOne == Worth(1) = Interval
BY DEF Worth

LEMMA FullIsNat == Full \in Nat
BY DEF Full, Worth

LEMMA AccruedBounds ==
    ASSUME NEW b \in Buckets, NEW t \in Nat
    PROVE  /\ Accrued(b, t, Burst) \in Int
           /\ Accrued(b, t, Burst) <= Full
           /\ t < b.last => Accrued(b, t, Burst) <= b.level
           /\ ~(t < b.last) => Accrued(b, t, Burst) <= b.level + (t - b.last)
BY FullIsNat DEF Accrued, Buckets, Full

-----------------------------------------------------------------------------
(* Type correctness.                                                       *)

LEMMA RateTypeInit == RateInit => RateTypeOK
BY DEF RateInit, LimitInit, RateTypeOK

LEMMA NewBucketIsFull ==
    NewBucket(Burst) \in Buckets /\ NewBucket(Burst).level = Full /\ Full \in Nat
BY FullIsNat DEF NewBucket, Buckets, Full

\* What Take leaves is a bucket that is not in debt, if there was a token.
LEMMA TakeIsBucket ==
    ASSUME NEW b \in Buckets, NEW t \in Nat, Accrued(b, t, Burst) >= Interval
    PROVE  /\ Take(b, t, Burst) \in Buckets
           /\ Take(b, t, Burst).level = Accrued(b, t, Burst) - Interval
           /\ Take(b, t, Burst).last = t
           /\ Take(b, t, Burst).level \in 0..Full
<1>1. Accrued(b, t, Burst) \in Int /\ Accrued(b, t, Burst) <= Full
  BY AccruedBounds
<1> DEFINE a == Accrued(b, t, Burst)
<1>2. Take(b, t, Burst) = [level |-> a - Interval, last |-> t]
  BY DEF Take
<1>3. a \in Int /\ a <= Full /\ Full \in Int /\ a >= Interval
  BY <1>1, FullIsNat
<1> HIDE DEF a
<1>4. a - Interval \in 0..Full
  BY <1>3
<1>5. QED
  BY <1>2, <1>3, <1>4 DEF Buckets, a

LEMMA AdmitOf ==
    ASSUME RateTypeOK, NEW r \in Requests, Admit(r)
    PROVE  /\ user[r] \in Users
           /\ limiters[user[r]] \in Buckets
           /\ seen[r] \in Nat
           /\ admitted[user[r]] \in Seq(Admissions)
           /\ Backwards(user[r]) \in Nat
<1>1. pc[r] = "allow" /\ user[r] \in Users /\ limiters[user[r]] # NoLimiter
  BY DEF RateTypeOK, Admit, Goto
<1>2. limiters[user[r]] \in Buckets /\ admitted[user[r]] \in Seq(Admissions)
  BY <1>1 DEF RateTypeOK
<1>3. Backwards(user[r]) \in Nat
  <2> DEFINE h == admitted[user[r]]
  <2>1. CASE h = <<>>
    BY <2>1 DEF Backwards
  <2>2. CASE h # <<>>
    <3>1. Len(h) \in DOMAIN h
      BY <1>2, <2>2
    <3>2. h[Len(h)] \in Admissions
      BY <1>2, <3>1
    <3>3. QED
      BY <2>2, <3>2 DEF Backwards, Admissions
  <2>3. QED
    BY <2>1, <2>2
<1>4. QED
  BY <1>1, <1>2, <1>3 DEF RateTypeOK

LEMMA RateTypeAdmit ==
    ASSUME RateTypeOK, NEW r \in Requests, Admit(r)
    PROVE  RateTypeOK'
<1> DEFINE u == user[r]
           b == limiters[u]
           entry == [at |-> seen[r],
                     back |-> Backwards(u) + IF seen[r] < b.last THEN b.last - seen[r] ELSE 0]
<1>1. /\ u \in Users /\ b \in Buckets /\ seen[r] \in Nat
      /\ admitted[u] \in Seq(Admissions) /\ Backwards(u) \in Nat
  BY AdmitOf
<1>2. /\ Take(b, seen[r], Burst) \in Buckets
      /\ Take(b, seen[r], Burst).level \in 0..Full
  BY <1>1, TakeIsBucket DEF Admit
<1>3. entry \in Admissions
  BY <1>1 DEF Admissions, Buckets
<1>4. limiters' = [limiters EXCEPT ![u] = Take(b, seen[r], Burst)]
  BY DEF Admit
<1>5. admitted' = [admitted EXCEPT ![u] = Append(admitted[u], entry)]
  BY DEF Admit
<1>6. UNCHANGED <<user, now, seen>> /\ pc' = [pc EXCEPT ![r] = "handler"]
  BY DEF Admit, Goto
<1> HIDE DEF entry
<1>7. admitted' \in [Users -> Seq(Admissions)]
  BY <1>1, <1>3, <1>5 DEF RateTypeOK
<1>8. /\ limiters' \in [Users -> Buckets \cup {NoLimiter}]
      /\ \A v \in Users : limiters'[v] # NoLimiter => limiters'[v].level \in 0..Full
      /\ \A v \in Users : limiters[v] # NoLimiter => limiters'[v] # NoLimiter
  BY <1>1, <1>2, <1>4 DEF RateTypeOK
<1>9. QED
  BY <1>6, <1>7, <1>8 DEF RateTypeOK

LEMMA RateTypeLookup ==
    ASSUME RateTypeOK, NEW r \in Requests, Lookup(r)
    PROVE  RateTypeOK'
<1>1. user[r] \in Users /\ pc' = [pc EXCEPT ![r] = "clock"] /\ UNCHANGED <<user, now, seen, admitted>>
  BY DEF Lookup, Goto, RateTypeOK
<1>2. NewBucket(Burst) \in Buckets /\ NewBucket(Burst).level \in 0..Full
  BY NewBucketIsFull
<1>3. /\ limiters' \in [Users -> Buckets \cup {NoLimiter}]
      /\ limiters'[user[r]] # NoLimiter
      /\ \A v \in Users : /\ limiters'[v] # NoLimiter => limiters'[v].level \in 0..Full
                          /\ limiters[v] # NoLimiter => limiters'[v] # NoLimiter
  BY <1>1, <1>2 DEF Lookup, RateTypeOK
<1>4. QED
  BY <1>1, <1>3 DEF RateTypeOK

LEMMA RateTypeStep == RateTypeOK /\ [RateNext]_rateVars => RateTypeOK'
<1> SUFFICES ASSUME RateTypeOK, [RateNext]_rateVars PROVE RateTypeOK'
  OBVIOUS
<1>1. ASSUME NEW r \in Requests, NEW u \in Users \cup {NoUser}, Arrive(r, u)
      PROVE  RateTypeOK'
  BY <1>1 DEF Arrive, Goto, RateTypeOK
<1>2. ASSUME NEW r \in Requests, Extract(r)
      PROVE  RateTypeOK'
  BY <1>2 DEF Extract, Goto, RateTypeOK, limitVars
<1>3. ASSUME NEW r \in Requests, ReadClock(r)
      PROVE  RateTypeOK'
  BY <1>3 DEF ReadClock, Goto, RateTypeOK
<1>4. ASSUME NEW r \in Requests, Refuse(r)
      PROVE  RateTypeOK'
  BY <1>4 DEF Refuse, Goto, RateTypeOK, limitVars
<1>5. CASE Tick
  BY <1>5 DEF Tick, RateTypeOK
<1>6. CASE UNCHANGED rateVars
  BY <1>6 DEF rateVars, limitVars, RateTypeOK
<1>7. QED
  BY <1>1, <1>2, <1>3, <1>4, <1>5, <1>6, RateTypeAdmit, RateTypeLookup DEF RateNext, Allow

-----------------------------------------------------------------------------
(* The budget.                                                             *)

LEMMA RateInvInit == RateInit => RateInv
<1> SUFFICES ASSUME RateInit PROVE RateInv
  OBVIOUS
<1>1. RateTypeOK
  BY RateTypeInit
<1>2. Charged /\ WindowBudget
  BY DEF RateInit, LimitInit, Charged, WindowBudget
<1>3. QED
  BY <1>1, <1>2 DEF RateInv

LEMMA RefillArith ==
    ASSUME NEW m \in Int, NEW level \in Int, NEW full \in Int, NEW last \in Int,
           NEW at \in Int, NEW before \in Int, NEW back \in Int, NEW a \in Int,
           NEW t \in Int, NEW step \in Int,
           m + level <= full + (last - at) + (before - back),
           a + last <= level + t + step
    PROVE  m + Interval + (a - Interval) <= full + (t - at) + (before + step - back)
OBVIOUS

LEMMA AdvanceArith ==
    ASSUME NEW a \in Int, NEW level \in Int, NEW last \in Int, NEW t \in Int,
           t < last => a <= level, ~(t < last) => a <= level + (t - last)
    PROVE  a + last <= level + t + (IF t < last THEN last - t ELSE 0)
OBVIOUS

LEMMA SpentArith ==
    ASSUME NEW m \in Int, NEW a \in Int, NEW x \in Int,
           a >= Interval, m + (a - Interval) <= x
    PROVE  m <= x
OBVIOUS

\* One admission more, of a user whose bucket covers those before.
LEMMA ChargedAdmit ==
    ASSUME RateInv, NEW r \in Requests, Admit(r)
    PROVE  Charged' /\ WindowBudget'
<1> DEFINE u == user[r]
           b == limiters[u]
           h == admitted[u]
           t == seen[r]
           n == Len(h)
           a == Accrued(b, t, Burst)
           step == IF t < b.last THEN b.last - t ELSE 0
           entry == [at |-> t, back |-> Backwards(u) + step]
           g == Append(h, entry)
<1>1. /\ u \in Users /\ b \in Buckets /\ t \in Nat
      /\ h \in Seq(Admissions) /\ Backwards(u) \in Nat
  BY AdmitOf DEF RateInv
<1>2. /\ limiters' = [limiters EXCEPT ![u] = Take(b, t, Burst)]
      /\ admitted' = [admitted EXCEPT ![u] = g]
      /\ a >= Interval
  BY DEF Admit
<1>3. /\ a \in Int /\ a <= Full
      /\ t < b.last => a <= b.level
      /\ ~(t < b.last) => a <= b.level + (t - b.last)
  BY <1>1, AccruedBounds
<1>4. /\ limiters'[u].level = a - Interval /\ limiters'[u].last = t
      /\ limiters'[u] # NoLimiter
      /\ admitted'[u] = g
      /\ \A v \in Users \ {u} : limiters'[v] = limiters[v] /\ admitted'[v] = admitted[v]
  <2>1. Take(b, t, Burst) \in Buckets
    BY <1>1, <1>2, TakeIsBucket
  <2>2. QED
    BY <1>1, <1>2, <2>1, TakeIsBucket DEF RateInv, RateTypeOK
<1>5. /\ n \in Nat /\ DOMAIN h = 1..n /\ Len(g) = n + 1 /\ DOMAIN g = 1..n + 1
      /\ g[n + 1] = entry
      /\ \A i \in 1..n : g[i] = h[i] /\ h[i] \in Admissions
  BY <1>1
<1>6. /\ entry.at = t /\ entry.back = Backwards(u) + step
      /\ Full \in Int /\ b.level \in Int /\ b.last \in Nat /\ step \in Nat
      /\ \A i \in 1..n : h[i].at \in Nat /\ h[i].back \in Nat
  <2>1. entry.at = t /\ entry.back = Backwards(u) + step
    OBVIOUS
  <2>2. Full \in Int /\ b.level \in Int /\ b.last \in Nat
    BY <1>1, FullIsNat DEF Buckets
  <2>3. step \in Nat
    BY <2>2, <1>1
  <2>4. \A i \in 1..n : h[i].at \in Nat /\ h[i].back \in Nat
    BY <1>5 DEF Admissions
  <2>5. QED
    BY <2>1, <2>2, <2>3, <2>4
<1>14. g[n + 1].at = t /\ g[n + 1].back = Backwards(u) + step /\ entry.back \in Nat
      /\ \A i \in 1..n + 1 : g[i].at \in Nat /\ g[i].back \in Nat
  <2>1. g[n + 1].at = t /\ g[n + 1].back = Backwards(u) + step
    BY <1>5, <1>6
  <2>2. Backwards(u) + step \in Nat
    BY <1>1, <1>6
  <2>3. \A i \in 1..n : g[i].at \in Nat /\ g[i].back \in Nat
    BY <1>5, <1>6
  <2>4. \A i \in 1..n + 1 : i \in 1..n \/ i = n + 1
    BY <1>5
  <2>5. QED
    BY <2>1, <2>2, <2>3, <2>4, <1>1, <1>6
<1>7. ASSUME NEW i \in 1..n
      PROVE  Worth(n - i + 1) + b.level
                <= Full + (b.last - h[i].at) + (Backwards(u) - h[i].back)
  <2>1. h # <<>>
    BY <1>5
  <2>2. b.last = h[n].at /\ Backwards(u) = h[n].back
    BY <1>1, <2>1 DEF RateInv, Charged, Backwards
  <2>3. Worth(n - i + 1) + b.level <= Full + (b.last - h[i].at) + (h[n].back - h[i].back)
    BY <1>1, <1>5, <2>1 DEF RateInv, Charged
  <2>4. QED
    BY <2>2, <2>3
<1>8. ASSUME NEW i \in 1..n + 1
      PROVE  Worth((n + 1) - i + 1) + (a - Interval)
                <= Full + (t - g[i].at) + (entry.back - g[i].back)
  <2>1. CASE i = n + 1
    <3>1. Worth((n + 1) - i + 1) = Interval
      <4>1. (n + 1) - i + 1 = 1
        BY <2>1, <1>5
      <4>2. QED
        BY <4>1, WorthOfOne
    <3>2. t - g[i].at = 0 /\ entry.back - g[i].back = 0
      BY <2>1, <1>1, <1>5, <1>6
    <3> HIDE DEF a, entry, g
    <3>3. QED
      BY <3>1, <3>2, <1>3, <1>6
  <2>2. CASE i \in 1..n
    <3> DEFINE m == Worth(n - i + 1)
               at == h[i].at
               back == h[i].back
    <3>1. Worth((n + 1) - i + 1) = m + Interval
      <4>1. n \in Int /\ i \in Int
        BY <1>5, <2>2
      <4> HIDE DEF n, m
      <4>2. n - i + 1 \in Int /\ (n + 1) - i + 1 = (n - i + 1) + 1
        BY <4>1
      <4> USE DEF m
      <4>3. QED
        BY <4>2, OneMore
    <3>2. m + b.level <= Full + (b.last - at) + (Backwards(u) - back)
      BY <1>7, <2>2
    <3>3. m \in Int
      <4>1. n - i + 1 \in Int
        BY <1>5, <2>2
      <4> HIDE DEF n
      <4>2. Worth(n - i + 1) \in Int
        BY <4>1, OneMore
      <4>3. QED
        BY <4>2
    <3>4. at \in Nat /\ back \in Nat /\ g[i].at = at /\ g[i].back = back
      BY <1>5, <1>6, <2>2
    <3>5. a + b.last <= b.level + t + step
      <4> HIDE DEF a, b, t
      <4>1. a + b.last <= b.level + t + (IF t < b.last THEN b.last - t ELSE 0)
        BY <1>1, <1>3, <1>6, AdvanceArith
      <4>2. QED
        BY <4>1
    <3>6. Interval \in Int /\ Backwards(u) \in Int /\ t \in Int /\ step \in Int
      BY <1>1, <1>6
    <3>7. m + Interval + (a - Interval) <= Full + (t - at) + (Backwards(u) + step - back)
      <4> HIDE DEF m, at, back, a, entry, g, b, t, step, n
      <4>1. QED
        BY <3>2, <3>3, <3>4, <3>5, <3>6, <1>3, <1>6, RefillArith
    <3>8. Worth((n + 1) - i + 1) + (a - Interval)
             <= Full + (t - at) + (entry.back - back)
      <4> HIDE DEF m, at, back, a, entry, g, b, t, step, n
      <4>1. /\ m \in Int /\ a \in Int /\ Interval \in Int /\ Full \in Int /\ t \in Int
            /\ at \in Int /\ back \in Int /\ step \in Int /\ Backwards(u) \in Int
        BY <1>1, <1>3, <1>6, <3>3, <3>4
      <4>2. entry.back = Backwards(u) + step
        BY <1>6
      <4>3. QED
        BY <3>1, <3>7, <4>1, <4>2
    <3>9. QED
      BY <3>4, <3>8
  <2>3. QED
    BY <2>1, <2>2, <1>5
<1>9. Charged'
  <2> SUFFICES ASSUME NEW v \in Users
               PROVE  LET k == admitted'[v]
                          c == limiters'[v]
                      IN  IF k = <<>>
                          THEN c # NoLimiter => c.level <= Full
                          ELSE /\ c # NoLimiter
                               /\ c.last = k[Len(k)].at
                               /\ \A i \in DOMAIN k :
                                     Worth(Len(k) - i + 1) + c.level
                                         <= Full + (c.last - k[i].at)
                                              + (k[Len(k)].back - k[i].back)
    BY DEF Charged
  <2>1. CASE v # u
    BY <2>1, <1>4 DEF RateInv, Charged
  <2>2. CASE v = u
    <3>1. g # <<>>
      BY <1>1
    <3>2. limiters'[v].last = g[Len(g)].at
      BY <1>4, <1>5, <1>6, <2>2
    <3>3. ASSUME NEW i \in DOMAIN g
          PROVE  Worth(Len(g) - i + 1) + limiters'[v].level
                     <= Full + (limiters'[v].last - g[i].at) + (g[Len(g)].back - g[i].back)
      <4>1. i \in 1..n + 1 /\ Len(g) = n + 1 /\ g[Len(g)].back = entry.back
        BY <1>5
      <4>2. limiters'[v].level = a - Interval /\ limiters'[v].last = t
        BY <1>4, <2>2
      <4>3. Worth((n + 1) - i + 1) + (a - Interval)
               <= Full + (t - g[i].at) + (entry.back - g[i].back)
        BY <1>8, <4>1
      <4>6. Len(g) = n + 1
        BY <1>5
      <4> HIDE DEF a, entry, g, t, n
      <4>4. Worth(Len(g) - i + 1) = Worth((n + 1) - i + 1)
        BY <4>6
      <4>5. QED
        BY <4>1, <4>2, <4>3, <4>4
    <3>4. QED
      BY <1>4, <2>2, <3>1, <3>2, <3>3
  <2>3. QED
    BY <2>1, <2>2
<1>10. WindowBudget'
  <2> SUFFICES ASSUME NEW v \in Users, NEW i \in DOMAIN admitted'[v],
                      NEW j \in DOMAIN admitted'[v], i <= j
               PROVE  Worth(j - i + 1)
                        <= Full + (admitted'[v][j].at - admitted'[v][i].at)
                             + (admitted'[v][j].back - admitted'[v][i].back)
    BY DEF WindowBudget
  <2>1. CASE v # u
    BY <2>1, <1>4 DEF RateInv, WindowBudget
  <2>2. CASE v = u /\ j \in 1..n
    <3>1. i \in 1..n
      BY <2>2, <1>4, <1>5
    <3>2. g[i] = h[i] /\ g[j] = h[j]
      BY <1>5, <2>2, <3>1
    <3>3. Worth(j - i + 1)
             <= Full + (h[j].at - h[i].at) + (h[j].back - h[i].back)
      BY <1>1, <1>5, <2>2, <3>1 DEF RateInv, WindowBudget
    <3>4. QED
      BY <2>2, <3>2, <3>3, <1>4
  <2>3. CASE v = u /\ j = n + 1
    <3>1. i \in 1..n + 1
      BY <2>3, <1>4, <1>5
    <3>2. Worth((n + 1) - i + 1) + (a - Interval)
             <= Full + (t - g[i].at) + (entry.back - g[i].back)
      BY <1>8, <3>1
    <3>3. Worth((n + 1) - i + 1) \in Int
      <4>1. (n + 1) - i + 1 \in Int
        BY <1>5, <3>1
      <4> HIDE DEF n
      <4>2. QED
        BY <4>1, OneMore
    <3>4. Full + (t - g[i].at) + (entry.back - g[i].back) \in Int
      <4>1. g[i].at \in Nat /\ g[i].back \in Nat /\ entry.back \in Nat
        BY <1>14, <3>1
      <4> HIDE DEF a, entry, g, t, n
      <4>2. t \in Nat /\ Full \in Int
        BY <1>1, <1>6
      <4>3. QED
        BY <4>1, <4>2
    <3>5. Worth((n + 1) - i + 1) <= Full + (t - g[i].at) + (entry.back - g[i].back)
      <4> DEFINE m == Worth((n + 1) - i + 1)
                 x == Full + (t - g[i].at) + (entry.back - g[i].back)
      <4>1. m \in Int /\ x \in Int /\ a \in Int /\ a >= Interval /\ m + (a - Interval) <= x
        BY <3>2, <3>3, <3>4, <1>2, <1>3
      <4> HIDE DEF m, x, a
      <4>2. m <= x
        BY <4>1, SpentArith
      <4> QED
        BY <4>2 DEF m, x
    <3>6. admitted'[v] = g /\ g[n + 1].at = t /\ g[n + 1].back = entry.back
      BY <2>3, <1>4, <1>5, <1>6
    <3>7. QED
      <4>1. Worth(j - i + 1) = Worth((n + 1) - i + 1)
        <5>1. j = n + 1
          BY <2>3
        <5> HIDE DEF n
        <5>2. QED
          BY <5>1
      <4>2. /\ admitted'[v][j].at = t /\ admitted'[v][j].back = entry.back
            /\ admitted'[v][i] = g[i]
        BY <2>3, <3>6
      <4> HIDE DEF entry, g, t, n
      <4>3. QED
        BY <3>5, <4>1, <4>2
  <2>4. v = u => j \in 1..n \/ j = n + 1
    <3>1. v = u => j \in 1..n + 1
      BY <1>4, <1>5
    <3> HIDE DEF n
    <3>2. QED
      BY <3>1, <1>5
  <2>5. QED
    BY <2>1, <2>2, <2>3, <2>4
<1>11. QED
  BY <1>9, <1>10

\* The other steps leave the admissions alone; limiterFor makes a bucket only
\* for a user who has not been admitted yet.
LEMMA ChargedLookup ==
    ASSUME RateInv, NEW r \in Requests, Lookup(r)
    PROVE  Charged' /\ WindowBudget'
<1>1. user[r] \in Users /\ UNCHANGED admitted
  BY DEF Lookup, Goto, RateInv, RateTypeOK
<1>2. WindowBudget'
  BY <1>1 DEF WindowBudget, RateInv
<1>3. CASE limiters[user[r]] = NoLimiter
  <2>1. limiters' = [limiters EXCEPT ![user[r]] = NewBucket(Burst)]
    BY <1>3 DEF Lookup
  <2>2. admitted[user[r]] = <<>>
    BY <1>1, <1>3 DEF RateInv, Charged
  <2>3. NewBucket(Burst).level <= Full
    BY NewBucketIsFull
  <2>4. \A v \in Users : IF v = user[r] THEN limiters'[v] = NewBucket(Burst)
                                        ELSE limiters'[v] = limiters[v]
    BY <1>1, <2>1 DEF RateInv, RateTypeOK
  <2>5. Charged'
    <3> SUFFICES ASSUME NEW v \in Users
                 PROVE  LET k == admitted[v]
                            c == limiters'[v]
                        IN  IF k = <<>>
                            THEN c # NoLimiter => c.level <= Full
                            ELSE /\ c # NoLimiter
                                 /\ c.last = k[Len(k)].at
                                 /\ \A i \in DOMAIN k :
                                       Worth(Len(k) - i + 1) + c.level
                                           <= Full + (c.last - k[i].at)
                                                + (k[Len(k)].back - k[i].back)
      BY <1>1 DEF Charged
    <3>1. CASE v = user[r]
      BY <3>1, <2>2, <2>3, <2>4
    <3>2. CASE v # user[r]
      BY <3>2, <2>4 DEF RateInv, Charged
    <3>3. QED
      BY <3>1, <3>2
  <2>6. QED
    BY <1>2, <2>5
<1>4. CASE limiters[user[r]] # NoLimiter
  BY <1>1, <1>2, <1>4 DEF Lookup, RateInv, Charged
<1>5. QED
  BY <1>3, <1>4

LEMMA RateInvStep == RateInv /\ [RateNext]_rateVars => RateInv'
<1> SUFFICES ASSUME RateInv, [RateNext]_rateVars PROVE RateInv'
  OBVIOUS
<1>1. RateTypeOK'
  BY RateTypeStep DEF RateInv
<1>2. limiters' = limiters /\ admitted' = admitted => Charged' /\ WindowBudget'
  BY DEF RateInv, Charged, WindowBudget
<1>3. ASSUME NEW r \in Requests, NEW u \in Users \cup {NoUser}, Arrive(r, u)
      PROVE  Charged' /\ WindowBudget'
  BY <1>2, <1>3 DEF Arrive
<1>4. ASSUME NEW r \in Requests, Extract(r) \/ ReadClock(r) \/ Refuse(r)
      PROVE  Charged' /\ WindowBudget'
  BY <1>2, <1>4 DEF Extract, ReadClock, Refuse, limitVars
<1>5. ASSUME Tick
      PROVE  Charged' /\ WindowBudget'
  BY <1>2, <1>5 DEF Tick
<1>6. ASSUME UNCHANGED rateVars
      PROVE  Charged' /\ WindowBudget'
  BY <1>2, <1>6 DEF rateVars, limitVars
<1>7. Charged' /\ WindowBudget'
  BY <1>3, <1>4, <1>5, <1>6, ChargedAdmit, ChargedLookup DEF RateNext, Allow
<1>8. QED
  BY <1>1, <1>7 DEF RateInv

-----------------------------------------------------------------------------
(* Refusals.                                                               *)

\* Since some admission a user's bucket has been full for, it has given out
\* all that it lacks now: what it holds and what the admissions since were
\* worth make up the burst and the refill in between.
GivenOut(h, b, i) == b.level + Worth(Len(h) - i + 1) >= Full + (b.last - h[i].at)

Drained ==
    \A u \in Users :
        IF admitted[u] = <<>>
        THEN limiters[u] # NoLimiter => limiters[u].level = Full
        ELSE \E i \in DOMAIN admitted[u] : GivenOut(admitted[u], limiters[u], i)

\* What a bucket accrues at t is capped only at its burst.
LEMMA AccruedExactly ==
    ASSUME NEW b \in Buckets, NEW t \in Nat, b.level <= Full
    PROVE  LET a == Accrued(b, t, Burst)
           IN  /\ a = Full \/ a = b.level + (IF t < b.last THEN 0 ELSE t - b.last)
               /\ b.level = Full => a = Full
BY FullIsNat DEF Accrued, Buckets, Full

\* Only a limiter without a burst is full and has no token.
LEMMA FullHasToken == Full < Interval => Burst = 0
<1> SUFFICES ASSUME Burst # 0 PROVE Full >= Interval
  BY FullIsNat
<1>1. Burst - 1 \in Nat /\ (Burst - 1) + 1 = Burst
  OBVIOUS
<1>2. Worth(Burst - 1) \in Nat
  BY <1>1 DEF Worth
<1>3. Full = Worth(Burst - 1) + Interval
  BY <1>1, OneMore DEF Full
<1>4. QED
  BY <1>2, <1>3

LEMMA DrainArith ==
    ASSUME NEW m \in Int, NEW level \in Int, NEW full \in Int, NEW last \in Int,
           NEW at \in Int, NEW t \in Int, NEW a \in Int,
           level + m >= full + (last - at),
           a = level + (IF t < last THEN 0 ELSE t - last)
    PROVE  /\ (a - Interval) + (m + Interval) >= full + (t - at)
           /\ a < Interval => m + Interval > full + (IF t < last THEN last ELSE t) - at
OBVIOUS

\* The bucket an admission leaves has been drained since that admission, if it
\* was full, and since the one that it was drained since before, if not.
LEMMA DrainedAdmit ==
    ASSUME RateInv, Drained, NEW r \in Requests, Admit(r)
    PROVE  Drained'
<1> DEFINE u == user[r]
           b == limiters[u]
           h == admitted[u]
           t == seen[r]
           n == Len(h)
           a == Accrued(b, t, Burst)
           c == Take(b, t, Burst)
           entry == [at |-> t, back |-> Backwards(u)
                                 + IF t < b.last THEN b.last - t ELSE 0]
           g == Append(h, entry)
<1>1. /\ u \in Users /\ b \in Buckets /\ t \in Nat /\ h \in Seq(Admissions)
      /\ Backwards(u) \in Nat
  BY AdmitOf DEF RateInv
<1>2. /\ limiters' = [limiters EXCEPT ![u] = c]
      /\ admitted' = [admitted EXCEPT ![u] = g]
      /\ a >= Interval
  BY DEF Admit
<1>3. c.level = a - Interval /\ c.last = t
  BY <1>1, <1>2, TakeIsBucket
<1>4. /\ b.level \in Int /\ b.level <= Full /\ b.last \in Nat /\ Full \in Int
      /\ a \in Int /\ Interval \in Int
  <2>1. b # NoLimiter
    BY <1>1
  <2>2. b.level \in 0..Full
    BY <1>1, <2>1 DEF RateInv, RateTypeOK
  <2>3. b.level \in Int /\ b.last \in Nat
    BY <1>1 DEF Buckets
  <2>4. a \in Int
    BY <1>1, AccruedBounds
  <2> HIDE DEF a, b
  <2>5. QED
    BY <2>2, <2>3, <2>4, FullIsNat
<1>5. /\ n \in Nat /\ DOMAIN h = 1..n /\ Len(g) = n + 1 /\ DOMAIN g = 1..n + 1
      /\ g[n + 1].at = t /\ g # <<>>
      /\ \A i \in 1..n : g[i] = h[i] /\ h[i].at \in Nat
  <2>1. /\ n \in Nat /\ DOMAIN h = 1..n /\ Len(g) = n + 1 /\ DOMAIN g = 1..n + 1
        /\ g[n + 1] = entry /\ \A i \in 1..n : g[i] = h[i] /\ h[i] \in Admissions
    BY <1>1
  <2>2. \A i \in 1..n : h[i].at \in Nat
    BY <2>1 DEF Admissions
  <2>3. entry.at = t /\ g # <<>>
    BY <1>1
  <2> HIDE DEF n, h, g, entry, t
  <2>4. QED
    BY <2>1, <2>2, <2>3
<1>6. a = Full \/ a = b.level + (IF t < b.last THEN 0 ELSE t - b.last)
  BY <1>1, <1>4, AccruedExactly
<1>7. \E i \in 1..n + 1 : GivenOut(g, c, i)
  <2>1. CASE a = Full
    <3>1. (n + 1) - (n + 1) + 1 = 1 /\ n + 1 \in 1..n + 1
      <4>1. n \in Nat
        BY <1>5
      <4> HIDE DEF n
      <4>2. QED
        BY <4>1
    <3>2. Worth(Len(g) - (n + 1) + 1) = Interval
      BY <1>5, <3>1, WorthOfOne
    <3>3. c.level + Interval >= Full + (c.last - g[n + 1].at)
      <4> HIDE DEF a, b, c, g, t, n
      <4>1. QED
        BY <1>1, <1>3, <1>4, <1>5, <2>1
    <3>4. QED
      BY <3>1, <3>2, <3>3 DEF GivenOut
  <2>2. CASE a # Full
    <3>1. h # <<>>
      <4>1. h = <<>> => b.level = Full
        BY <1>1 DEF Drained
      <4>2. QED
        BY <1>1, <1>4, <2>2, <4>1, AccruedExactly
    <3>2. PICK i \in 1..n : GivenOut(h, b, i)
      BY <1>1, <1>5, <3>1 DEF Drained
    <3> DEFINE m == Worth(n - i + 1)
               at == h[i].at
    <3>3. m \in Int /\ Worth((n + 1) - i + 1) = m + Interval /\ i \in 1..n + 1
      <4>1. n \in Nat /\ i \in 1..n
        BY <1>5
      <4> HIDE DEF n, m
      <4>2. n - i + 1 \in Int /\ (n + 1) - i + 1 = (n - i + 1) + 1 /\ i \in 1..n + 1
        BY <4>1
      <4>3. Worth(n - i + 1) \in Int /\ Worth((n - i + 1) + 1) = Worth(n - i + 1) + Interval
        BY <4>2, OneMore
      <4>4. QED
        BY <4>2, <4>3 DEF m
    <3>4. at \in Int /\ g[i].at = at /\ t \in Int /\ b.last \in Int
      <4>1. g[i] = h[i] /\ h[i].at \in Nat
        BY <1>5
      <4>2. t \in Nat /\ b.last \in Nat
        BY <1>1, <1>4
      <4> HIDE DEF b, g, h, t
      <4>3. QED
        BY <4>1, <4>2
    <3>5. b.level + m >= Full + (b.last - at)
      BY <3>2 DEF GivenOut
    <3>6. a = b.level + (IF t < b.last THEN 0 ELSE t - b.last)
      BY <1>6, <2>2
    <3>7. (a - Interval) + (m + Interval) >= Full + (t - at)
      <4>1. b.level \in Int /\ Full \in Int /\ a \in Int /\ m \in Int
        BY <1>4, <3>3
      <4> HIDE DEF a, b, c, entry, g, h, n, t, m, at
      <4>2. QED
        BY <4>1, <3>4, <3>5, <3>6, DrainArith
    <3>8. GivenOut(g, c, i)
      <4>1. Worth(Len(g) - i + 1) = m + Interval
        BY <1>5, <3>3
      <4>2. c.level = a - Interval /\ c.last = t /\ g[i].at = at
        BY <1>3, <3>4
      <4> HIDE DEF a, b, c, g, t, m, at, h
      <4>3. QED
        BY <3>7, <4>1, <4>2 DEF GivenOut
    <3>9. QED
      BY <3>3, <3>8
  <2>3. QED
    BY <2>1, <2>2
<1>8. ASSUME NEW v \in Users
      PROVE  IF admitted'[v] = <<>>
             THEN limiters'[v] # NoLimiter => limiters'[v].level = Full
             ELSE \E i \in DOMAIN admitted'[v] : GivenOut(admitted'[v], limiters'[v], i)
  <2>1. CASE v = u
    <3>1. admitted'[v] = g /\ limiters'[v] = c
      BY <1>1, <1>2, <2>1 DEF RateInv, RateTypeOK
    <3> HIDE DEF g, c
    <3>2. QED
      BY <1>5, <1>7, <3>1
  <2>2. CASE v # u
    <3>1. admitted'[v] = admitted[v] /\ limiters'[v] = limiters[v]
      BY <1>1, <1>2, <2>2 DEF RateInv, RateTypeOK
    <3>2. QED
      BY <3>1 DEF Drained
  <2>3. QED
    BY <2>1, <2>2
<1>9. QED
  BY <1>8 DEF Drained, GivenOut

LEMMA DrainedLookup ==
    ASSUME RateInv, Drained, NEW r \in Requests, Lookup(r)
    PROVE  Drained'
<1>1. user[r] \in Users /\ UNCHANGED admitted
  BY DEF Lookup, Goto, RateInv, RateTypeOK
<1>2. limiters[user[r]] = NoLimiter => admitted[user[r]] = <<>>
  BY <1>1 DEF RateInv, Charged
<1>3. \A v \in Users :
        \/ limiters'[v] = limiters[v]
        \/ admitted[v] = <<>> /\ limiters'[v] = NewBucket(Burst)
  BY <1>1, <1>2 DEF Lookup, RateInv, RateTypeOK
<1>4. NewBucket(Burst).level = Full
  BY NewBucketIsFull
<1>5. QED
  BY <1>1, <1>3, <1>4 DEF Drained, GivenOut

LEMMA DrainedStep == RateInv /\ Drained /\ [RateNext]_rateVars => Drained'
<1> SUFFICES ASSUME RateInv, Drained, [RateNext]_rateVars PROVE Drained'
  OBVIOUS
<1>1. limiters' = limiters /\ admitted' = admitted => Drained'
  BY DEF Drained, GivenOut
<1>2. ASSUME NEW r \in Requests, NEW u \in Users \cup {NoUser}, Arrive(r, u)
      PROVE  Drained'
  BY <1>1, <1>2 DEF Arrive
<1>3. ASSUME NEW r \in Requests, Extract(r) \/ ReadClock(r) \/ Refuse(r)
      PROVE  Drained'
  BY <1>1, <1>3 DEF Extract, ReadClock, Refuse, limitVars
<1>4. ASSUME Tick \/ UNCHANGED rateVars
      PROVE  Drained'
  BY <1>1, <1>4 DEF Tick, rateVars, limitVars
<1>5. QED
  BY <1>2, <1>3, <1>4, DrainedAdmit, DrainedLookup DEF RateNext, Allow

\* A bucket that is drained has no token only if one more admission would
\* have been over the burst and the refill.
LEMMA RefuseDrained ==
    ASSUME RateInv, Drained, NEW r \in Requests, Refuse(r), Burst # 0
    PROVE  LET past == admitted[user[r]]
               Upto(x) == IF seen[r] < x THEN x ELSE seen[r]
           IN  \E i \in DOMAIN past :
                  Worth(Len(past) - i + 2)
                      > Full + Upto(past[Len(past)].at) - past[i].at
<1> DEFINE u == user[r]
           b == limiters[u]
           h == admitted[u]
           t == seen[r]
           n == Len(h)
           a == Accrued(b, t, Burst)
<1>1. /\ u \in Users /\ b \in Buckets /\ t \in Nat /\ h \in Seq(Admissions)
      /\ b # NoLimiter /\ a < Interval
  BY DEF Refuse, Goto, RateInv, RateTypeOK
<1>2. /\ b.level \in Int /\ b.level <= Full /\ b.last \in Nat /\ Full \in Int
      /\ a \in Int /\ Interval \in Int
  <2>1. b.level \in 0..Full
    BY <1>1 DEF RateInv, RateTypeOK
  <2>2. b.level \in Int /\ b.last \in Nat
    BY <1>1 DEF Buckets
  <2>3. a \in Int
    BY <1>1, AccruedBounds
  <2> HIDE DEF a, b
  <2>4. QED
    BY <2>1, <2>2, <2>3, FullIsNat
<1>3. a # Full
  BY <1>1, <1>2, FullHasToken
<1>4. /\ a = b.level + (IF t < b.last THEN 0 ELSE t - b.last)
      /\ b.level # Full
  BY <1>1, <1>2, <1>3, AccruedExactly
<1>5. h # <<>>
  BY <1>1, <1>4 DEF Drained
<1>6. n \in Nat /\ DOMAIN h = 1..n /\ b.last = h[n].at
  <2>1. n \in Nat /\ DOMAIN h = 1..n
    BY <1>1
  <2>2. b.last = h[n].at
    BY <1>1, <1>5 DEF RateInv, Charged
  <2>3. QED
    BY <2>1, <2>2
<1>7. PICK i \in 1..n : GivenOut(h, b, i)
  BY <1>1, <1>5, <1>6 DEF Drained
<1> DEFINE m == Worth(n - i + 1)
           at == h[i].at
<1>8. at \in Int /\ t \in Int /\ b.last \in Int
  <2>1. \A j \in DOMAIN h : h[j] \in Admissions
    BY <1>1
  <2>2. h[i] \in Admissions
    BY <1>6, <2>1
  <2>3. at \in Nat
    BY <2>2 DEF Admissions
  <2>4. QED
    BY <1>1, <1>2, <2>3
<1>9. m \in Int /\ Worth(n - i + 2) = m + Interval
  <2>1. n \in Nat /\ i \in 1..n
    BY <1>6
  <2> HIDE DEF n, m
  <2>2. n - i + 1 \in Int /\ n - i + 2 = (n - i + 1) + 1
    BY <2>1
  <2>3. Worth(n - i + 1) \in Int /\ Worth((n - i + 1) + 1) = Worth(n - i + 1) + Interval
    BY <2>2, OneMore
  <2>4. QED
    BY <2>2, <2>3 DEF m
<1>10. b.level + m >= Full + (b.last - at)
  BY <1>7 DEF GivenOut
<1>11. m + Interval > Full + (IF t < b.last THEN b.last ELSE t) - at
  <2>1. a < Interval
    BY <1>1
  <2>2. b.level \in Int /\ Full \in Int /\ a \in Int /\ m \in Int
    BY <1>2, <1>9
  <2>3. a = b.level + (IF t < b.last THEN 0 ELSE t - b.last)
    BY <1>4
  <2> HIDE DEF a, b, h, n, u, t, m, at
  <2>4. QED
    BY <1>8, <1>10, <2>1, <2>2, <2>3, DrainArith
<1>12. Worth(n - i + 2) > Full + (IF t < h[n].at THEN h[n].at ELSE t) - at
  BY <1>6, <1>9, <1>11
<1>13. QED
  BY <1>6, <1>7, <1>12

\* Of the steps, only Refuse turns a request away.
LEMMA RefusalStep ==
    ASSUME RateInv, Drained, RateNext, NEW r \in Requests,
           pc[r] = "allow", pc'[r] = "refused"
    PROVE  Refuse(r)
<1>1. pc = [q \in Requests |-> pc[q]]
  BY DEF RateInv, RateTypeOK
<1>2. ASSUME NEW q \in Requests, NEW u \in Users \cup {NoUser}, Arrive(q, u)
      PROVE  FALSE
  BY <1>1, <1>2 DEF Arrive, Goto
<1>3. ASSUME NEW q \in Requests, Extract(q) \/ Lookup(q) \/ ReadClock(q) \/ Admit(q)
      PROVE  FALSE
  BY <1>1, <1>3 DEF Extract, Lookup, ReadClock, Admit, Goto
<1>4. ASSUME NEW q \in Requests, Refuse(q)
      PROVE  q = r
  BY <1>1, <1>4 DEF Refuse, Goto
<1>5. ~Tick /\ ~(UNCHANGED rateVars)
  BY DEF Tick, rateVars
<1>6. QED
  BY <1>2, <1>3, <1>4, <1>5 DEF RateNext, Allow

-----------------------------------------------------------------------------
(* Tokens and handlers.                                                    *)

\* The requests of u that the interceptor has passed on to their handlers.
PassedOn(u) == {r \in Requests : pc[r] = "handler" /\ user[r] = u}

\* Each has had an admission of its own: nobody goes on another one's token.
OneTokenEach ==
    \A u \in Users : /\ IsFiniteSet(PassedOn(u))
                     /\ Cardinality(PassedOn(u)) <= Len(admitted[u])

LEMMA OneTokenInit == RateInit => OneTokenEach
<1> SUFFICES ASSUME RateInit, NEW u \in Users
             PROVE  IsFiniteSet(PassedOn(u)) /\ Cardinality(PassedOn(u)) <= Len(admitted[u])
  BY DEF OneTokenEach
<1>1. PassedOn(u) = {}
  BY DEF RateInit, PassedOn
<1>2. Len(admitted[u]) = 0
  BY DEF RateInit, LimitInit
<1>3. QED
  BY <1>1, <1>2, FS_EmptySet

LEMMA OneTokenAdmit ==
    ASSUME RateTypeOK, OneTokenEach, NEW r \in Requests, Admit(r)
    PROVE  OneTokenEach'
<1> SUFFICES ASSUME NEW u \in Users
             PROVE  /\ IsFiniteSet(PassedOn(u)')
                    /\ Cardinality(PassedOn(u)') <= Len(admitted'[u])
  BY DEF OneTokenEach
<1>1. /\ pc' = [pc EXCEPT ![r] = "handler"] /\ user' = user
      /\ user[r] \in Users /\ admitted[user[r]] \in Seq(Admissions)
      /\ pc = [q \in Requests |-> pc[q]]
  BY AdmitOf DEF Admit, Goto, RateTypeOK
<1>2. IsFiniteSet(PassedOn(u)) /\ Cardinality(PassedOn(u)) <= Len(admitted[u])
  BY DEF OneTokenEach
<1>3. CASE u = user[r]
  <2>1. PassedOn(u)' = PassedOn(u) \cup {r}
    BY <1>1, <1>3 DEF PassedOn
  <2>2. Len(admitted'[u]) = Len(admitted[u]) + 1
    BY <1>1, <1>3 DEF Admit, RateTypeOK
  <2>3. /\ IsFiniteSet(PassedOn(u) \cup {r})
        /\ Cardinality(PassedOn(u) \cup {r}) \in {Cardinality(PassedOn(u)), Cardinality(PassedOn(u)) + 1}
    BY <1>2, FS_AddElement
  <2>4. Cardinality(PassedOn(u)) \in Nat /\ Len(admitted[u]) \in Nat
    BY <1>1, <1>2, <1>3, FS_CardinalityType
  <2>5. QED
    BY <1>2, <2>1, <2>2, <2>3, <2>4
<1>4. CASE u # user[r]
  <2>1. PassedOn(u)' = PassedOn(u)
    BY <1>1, <1>4 DEF PassedOn
  <2>2. admitted'[u] = admitted[u]
    BY <1>1, <1>4 DEF Admit, RateTypeOK
  <2>3. QED
    BY <1>2, <2>1, <2>2
<1>5. QED
  BY <1>3, <1>4

LEMMA OneTokenStep == RateTypeOK /\ OneTokenEach /\ [RateNext]_rateVars => OneTokenEach'
<1> SUFFICES ASSUME RateTypeOK, OneTokenEach, [RateNext]_rateVars PROVE OneTokenEach'
  OBVIOUS
<1>1. /\ pc = [q \in Requests |-> pc[q]] /\ user = [q \in Requests |-> user[q]]
      /\ NoUser \notin Users
  BY DEF RateTypeOK
<1>2. ASSUME admitted' = admitted, \A u \in Users : PassedOn(u)' = PassedOn(u)
      PROVE  OneTokenEach'
  BY <1>2 DEF OneTokenEach
<1>3. ASSUME NEW r \in Requests, NEW u \in Users \cup {NoUser}, Arrive(r, u)
      PROVE  OneTokenEach'
  <2>1. \A v \in Users : PassedOn(v)' = PassedOn(v)
    BY <1>1, <1>3 DEF Arrive, Goto, PassedOn
  <2>2. QED
    BY <1>2, <1>3, <2>1 DEF Arrive
<1>4. ASSUME NEW r \in Requests, Extract(r)
      PROVE  OneTokenEach'
  <2>1. \A v \in Users : PassedOn(v)' = PassedOn(v)
    BY <1>1, <1>4 DEF Extract, Goto, PassedOn, limitVars
  <2>2. QED
    BY <1>2, <1>4, <2>1 DEF Extract, limitVars
<1>5. ASSUME NEW r \in Requests, Lookup(r) \/ ReadClock(r) \/ Refuse(r)
      PROVE  OneTokenEach'
  <2>1. admitted' = admitted /\ user' = user
    BY <1>5 DEF Lookup, ReadClock, Refuse, limitVars
  <2>2. \A q \in Requests : pc'[q] = "handler" <=> pc[q] = "handler"
    BY <1>1, <1>5 DEF Lookup, ReadClock, Refuse, Goto
  <2>3. QED
    BY <1>2, <2>1, <2>2 DEF PassedOn
<1>6. ASSUME Tick \/ UNCHANGED rateVars
      PROVE  OneTokenEach'
  BY <1>2, <1>6 DEF Tick, rateVars, limitVars, PassedOn
<1>7. QED
  BY <1>3, <1>4, <1>5, <1>6, OneTokenAdmit DEF RateNext, Allow

-----------------------------------------------------------------------------
\* The variables keep their types, no bucket is over its burst or in debt, and
\* whoever is past limiterFor has one.
THEOREM RateTypeCorrect == RateSpec => []RateTypeOK
<1>1. QED
  BY RateTypeInit, RateTypeStep, PTL DEF RateSpec

\* No user gets more than the burst and the refill in any window of
\* admissions, but for the time that goes through the bucket twice because
\* Allow reads the clock outside its lock.
THEOREM WindowBudgetCorrect == RateSpec => []WindowBudget
<1>1. RateInv => WindowBudget
  BY DEF RateInv
<1>2. QED
  BY <1>1, RateInvInit, RateInvStep, PTL DEF RateSpec

\* Of each user no more requests get past the interceptor than tokens were
\* taken from his bucket.
THEOREM OneTokenEachCorrect == RateSpec => []OneTokenEach
<1>1. QED
  BY RateTypeInit, RateTypeStep, OneTokenInit, OneTokenStep, PTL DEF RateSpec

\* Nobody is refused who has not been admitted so often, since some earlier
\* instant, that one more would exceed the burst and the refill.
THEOREM RefusalDeservedCorrect == RateSpec => RefusalDeserved
<1>1. RateInit => Drained
  BY DEF RateInit, LimitInit, Drained
<1>2. RateInv /\ Drained /\ [RateNext]_rateVars =>
          [\A r \in Requests :
              (pc[r] = "allow" /\ pc'[r] = "refused") =>
                  LET past == admitted[user[r]]
                      Upto(t) == IF seen[r] < t THEN t ELSE seen[r]
                  IN  \/ Burst = 0
                      \/ \E i \in DOMAIN past :
                            Worth(Len(past) - i + 2)
                                > Full + Upto(past[Len(past)].at) - past[i].at]_rateVars
  BY RefusalStep, RefuseDrained
<1>3. QED
  BY <1>1, <1>2, RateInvInit, RateInvStep, DrainedStep, PTL DEF RateSpec, RefusalDeserved
=============================================================================
