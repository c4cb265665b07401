--------------------------- MODULE LimiterProofs ---------------------------
(***************************************************************************)
(* Proofs that the rate limiter keeps its map bounded and its promise, for *)
(* every capacity, refill rate, cost, bound and number of peers.           *)
(***************************************************************************)
EXTENDS RateLimiter, FiniteSetTheorems, TLAPS

LEMMA MinPair ==
  ASSUME NEW a \in Int, NEW b \in Int
  PROVE  Min({a, b}) = IF a <= b THEN a ELSE b
BY DEF Min

LEMMA RefillNat ==
  ASSUME NEW n \in Nat
  PROVE  n * Refill \in Nat
BY LimiterAssumption

\* What is refilled in two intervals is what is refilled in their union.
LEMMA RefillAdds ==
  ASSUME NEW l \in Int, NEW m \in Int, NEW c \in Int, m <= l, l <= c
  PROVE  (c - m) * Refill = (l - m) * Refill + (c - l) * Refill
BY LimiterAssumption

\* The inductive invariant: what a peer was granted in the interval and what
\* is left in its bucket together are no more than a full bucket and the
\* refill up to the bucket's last request.  A bucket last used before the
\* interval has granted nothing in it.
Granted(p) ==
  IF p \notin DOMAIN buckets \/ buckets[p].last < mark THEN spent[p] = 0
  ELSE spent[p] + buckets[p].tokens
         <= Capacity + (buckets[p].last - mark) * Refill

LimiterInv == LimiterTypeOK /\ \A p \in Peer : Granted(p)

LEMMA TokensType ==
  ASSUME LimiterTypeOK, NEW p \in Peer
  PROVE  /\ Tokens(p) \in 0 .. Capacity
         /\ p \in DOMAIN buckets =>
              Tokens(p) <= buckets[p].tokens + (clock - buckets[p].last) * Refill
<1>1. CASE p \notin DOMAIN buckets
  BY <1>1, LimiterAssumption DEF Tokens
<1>2. CASE p \in DOMAIN buckets
  <2>1. /\ buckets[p].tokens \in Int /\ buckets[p].tokens >= 0
        /\ buckets[p].last \in Int /\ buckets[p].last <= clock /\ clock \in Int
    BY <1>2 DEF LimiterTypeOK
  <2>2. (clock - buckets[p].last) * Refill \in Nat
    <3>1. clock - buckets[p].last \in Nat
      BY <2>1
    <3> QED
      BY <3>1, RefillNat
  <2>3. Tokens(p) = Min({buckets[p].tokens + (clock - buckets[p].last) * Refill,
                         Capacity})
    BY <1>2 DEF Tokens, Refilled
  <2> QED
    BY <2>1, <2>2, <2>3, MinPair, LimiterAssumption
<1> QED
  BY <1>1, <1>2

\* Trimming keeps some of the buckets, and not too many.
LEMMA KeptBounded ==
  ASSUME NEW bs, NEW now, NEW K \in Kept(bs, now),
         Cardinality(DOMAIN bs) \in Nat,
         Cardinality(NotIdle(bs, now)) \in Nat
  PROVE  K \subseteq DOMAIN bs /\ Cardinality(K) <= MaxBuckets
BY LimiterAssumption DEF Kept, NotIdle, kSubset

LEMMA ChargedType ==
  ASSUME LimiterTypeOK, NEW p \in Peer
  PROVE  /\ DOMAIN Charged(p) = DOMAIN buckets \cup {p}
         /\ Charged(p)[p].last = clock
         /\ Charged(p)[p].tokens =
              IF Allowed(p) THEN Tokens(p) - Cost ELSE Tokens(p)
         /\ Charged(p)[p].tokens \in 0 .. Capacity
         /\ \A q \in DOMAIN buckets : q # p => Charged(p)[q] = buckets[q]
BY TokensType, LimiterAssumption DEF Charged, Allowed

LEMMA AllowType ==
  ASSUME LimiterTypeOK, NEW p \in Peer, allow(p), IsFiniteSet(DOMAIN buckets)
  PROVE  /\ LimiterTypeOK'
         /\ DOMAIN buckets' \subseteq DOMAIN buckets \cup {p}
<1>1. PICK K \in Kept(Charged(p), clock) :
        /\ buckets' = Restrict(Charged(p), K)
        /\ spent' = [q \in Peer |->
                       IF q \notin K THEN 0
                       ELSE IF q = p /\ Allowed(p) /\ clock >= mark
                       THEN spent[q] + Cost ELSE spent[q]]
        /\ UNCHANGED <<clock, mark>>
  BY DEF allow
<1>2. /\ IsFiniteSet(DOMAIN Charged(p))
      /\ Cardinality(DOMAIN Charged(p)) \in Nat
  <2>1. DOMAIN Charged(p) = DOMAIN buckets \cup {p}
    BY ChargedType
  <2>2. IsFiniteSet(DOMAIN buckets \cup {p})
    BY FS_AddElement
  <2> QED
    BY <2>1, <2>2, FS_CardinalityType
<1>3. Cardinality(NotIdle(Charged(p), clock)) \in Nat
  <2>1. NotIdle(Charged(p), clock) \in SUBSET DOMAIN Charged(p)
    BY DEF NotIdle
  <2> QED
    BY <1>2, <2>1, FS_Subset, FS_CardinalityType
<1>4. K \subseteq DOMAIN buckets \cup {p} /\ Cardinality(K) <= MaxBuckets
  BY <1>2, <1>3, KeptBounded, ChargedType
<1>5. DOMAIN buckets' = K /\ \A q \in K : buckets'[q] = Charged(p)[q]
  BY <1>1 DEF Restrict
<1>6. \A q \in K : /\ buckets'[q].tokens \in 0 .. Capacity
                   /\ buckets'[q].last \in 0 .. clock
  <2> SUFFICES ASSUME NEW q \in K
               PROVE  /\ buckets'[q].tokens \in 0 .. Capacity
                      /\ buckets'[q].last \in 0 .. clock
    OBVIOUS
  <2>1. CASE q = p
    <3>1. Charged(p)[p].last = clock /\ Charged(p)[p].tokens \in 0 .. Capacity
      BY ChargedType
    <3>2. clock \in 0 .. clock
      BY DEF LimiterTypeOK
    <3>3. buckets'[q] = Charged(p)[p]
      BY <1>5, <2>1
    <3> QED
      BY <3>1, <3>2, <3>3
  <2>2. CASE q # p
    BY <1>4, <1>5, <2>2, ChargedType DEF LimiterTypeOK
  <2> QED
    BY <2>1, <2>2
<1>7. spent' \in [Peer -> Nat]
  BY <1>1, LimiterAssumption DEF LimiterTypeOK
<1> QED
  BY <1>1, <1>4, <1>5, <1>6, <1>7 DEF LimiterTypeOK

LEMMA AllowGrants ==
  ASSUME LimiterInv, NEW p \in Peer, allow(p), NEW q \in Peer
  PROVE  Granted(q)'
<1>1. PICK K \in Kept(Charged(p), clock) :
        /\ buckets' = Restrict(Charged(p), K)
        /\ spent' = [r \in Peer |->
                       IF r \notin K THEN 0
                       ELSE IF r = p /\ Allowed(p) /\ clock >= mark
                       THEN spent[r] + Cost ELSE spent[r]]
        /\ UNCHANGED <<clock, mark>>
  BY DEF allow
<1>2. DOMAIN buckets' = K /\ \A r \in K : buckets'[r] = Charged(p)[r]
  BY <1>1 DEF Restrict
<1>3. K \subseteq DOMAIN buckets \cup {p}
  BY ChargedType DEF LimiterInv, Kept, NotIdle, kSubset
<1>4. CASE q \notin K
  BY <1>1, <1>2, <1>4 DEF Granted
<1>5. CASE q \in K /\ q # p
  BY <1>1, <1>2, <1>3, <1>5, ChargedType DEF LimiterInv, Granted
<1>6. CASE q \in K /\ q = p
  <2> DEFINE last == buckets[p].last
             left == buckets[p].tokens
  <2>1. /\ buckets'[p].last = clock
        /\ buckets'[p].tokens = IF Allowed(p) THEN Tokens(p) - Cost ELSE Tokens(p)
        /\ Tokens(p) \in 0 .. Capacity
    BY <1>2, <1>6, ChargedType, TokensType DEF LimiterInv
  <2>2. clock \in Nat /\ mark \in Nat /\ spent[p] \in Nat
    BY DEF LimiterInv, LimiterTypeOK
  <2>3. CASE clock < mark
    <3>1. spent[p] = 0
      BY <2>2, <2>3 DEF LimiterInv, LimiterTypeOK, Granted
    <3>2. spent'[p] = 0
      BY <1>1, <1>6, <2>2, <2>3, <3>1
    <3> QED
      BY <1>1, <1>6, <2>1, <2>3, <3>2 DEF Granted
  <2>4. CASE clock >= mark
    <3>1. spent'[p] + buckets'[p].tokens = spent[p] + Tokens(p)
      BY <1>1, <1>6, <2>1, <2>2, <2>4, LimiterAssumption
    <3>2. (clock - mark) * Refill \in Nat
      <4>1. clock - mark \in Nat
        BY <2>2, <2>4
      <4> QED
        BY <4>1, RefillNat
    <3>3. spent[p] + Tokens(p) <= Capacity + (clock - mark) * Refill
      <4>1. CASE p \notin DOMAIN buckets \/ last < mark
        <5>1. spent[p] = 0
          BY <4>1 DEF LimiterInv, Granted
        <5> QED
          BY <2>1, <3>2, <5>1, LimiterAssumption
      <4>2. CASE p \in DOMAIN buckets /\ ~(last < mark)
        <5>1. /\ last \in Nat /\ left \in Nat
              /\ last <= clock /\ mark <= last
          BY <2>2, <4>2 DEF LimiterInv, LimiterTypeOK
        <5>2. /\ spent[p] + left <= Capacity + (last - mark) * Refill
              /\ Tokens(p) <= left + (clock - last) * Refill
          BY <4>2, TokensType DEF LimiterInv, Granted
        <5>3. (clock - mark) * Refill
                = (last - mark) * Refill + (clock - last) * Refill
          BY <2>2, <5>1, RefillAdds
        <5>4. (last - mark) * Refill \in Nat /\ (clock - last) * Refill \in Nat
          <6>1. last - mark \in Nat /\ clock - last \in Nat
            BY <2>2, <5>1
          <6> QED
            BY <6>1, RefillNat
        <5> HIDE DEF last, left
        <5> QED
          BY <2>1, <2>2, <3>2, <5>1, <5>2, <5>3, <5>4, LimiterAssumption
      <4> QED
        BY <4>1, <4>2
    <3>4. /\ ~(buckets'[p].last < mark') /\ p \in DOMAIN buckets'
          /\ buckets'[p].last - mark' = clock - mark
      BY <1>1, <1>2, <1>6, <2>1, <2>2, <2>4
    <3>5. spent'[p] + buckets'[p].tokens
            <= Capacity + (buckets'[p].last - mark') * Refill
      BY <3>1, <3>3, <3>4
    <3> QED
      BY <1>6, <3>4, <3>5 DEF Granted
  <2> QED
    BY <2>2, <2>3, <2>4
<1> QED
  BY <1>4, <1>5, <1>6

\* The map of a running service is finite: buckets come one at a time.
LimiterIInv == LimiterInv /\ IsFiniteSet(DOMAIN buckets)

LEMMA LimiterStarts == LimiterInit => LimiterIInv
<1> SUFFICES ASSUME LimiterInit PROVE LimiterIInv
  OBVIOUS
<1>1. DOMAIN buckets = {}
  BY DEF LimiterInit
<1>2. IsFiniteSet(DOMAIN buckets) /\ Cardinality(DOMAIN buckets) = 0
  BY <1>1, FS_EmptySet
<1> QED
  BY <1>1, <1>2, LimiterAssumption
  DEF LimiterInit, LimiterIInv, LimiterInv, LimiterTypeOK, Granted

LEMMA LimiterKeeps ==
  ASSUME LimiterIInv, [LimiterNext]_lvars
  PROVE  LimiterIInv'
<1>1. ASSUME NEW p \in Peer, allow(p) PROVE LimiterIInv'
  <2>1. LimiterTypeOK' /\ DOMAIN buckets' \subseteq DOMAIN buckets \cup {p}
    BY <1>1, AllowType DEF LimiterIInv, LimiterInv
  <2>2. IsFiniteSet(DOMAIN buckets \cup {p})
    BY FS_AddElement DEF LimiterIInv
  <2>3. IsFiniteSet(DOMAIN buckets')
    BY <2>1, <2>2, FS_Subset
  <2>4. \A q \in Peer : Granted(q)'
    BY <1>1, AllowGrants DEF LimiterIInv
  <2> QED
    BY <2>1, <2>3, <2>4 DEF LimiterIInv, LimiterInv
<1>2. CASE Restarted
  <2>1. DOMAIN buckets' = {}
    BY <1>2 DEF Restarted
  <2>2. IsFiniteSet(DOMAIN buckets') /\ Cardinality(DOMAIN buckets') = 0
    BY <2>1, FS_EmptySet
  <2> QED
    BY <1>2, <2>1, <2>2, LimiterAssumption
    DEF Restarted, LimiterIInv, LimiterInv, LimiterTypeOK, Granted
<1>3. CASE TimePasses
  BY <1>3 DEF TimePasses, LimiterIInv, LimiterInv, LimiterTypeOK, Granted
<1>4. CASE UNCHANGED lvars
  BY <1>4 DEF lvars, LimiterIInv, LimiterInv, LimiterTypeOK, Granted
<1> QED
  BY <1>1, <1>2, <1>3, <1>4 DEF LimiterNext

LEMMA InvImpliesNoBurst == LimiterIInv => NoBurst
<1> SUFFICES ASSUME LimiterIInv, clock >= mark, NEW p \in Peer
             PROVE  spent[p] <= Capacity + (clock - mark) * Refill
  BY DEF NoBurst
<1>1. clock \in Nat /\ mark \in Nat /\ spent[p] \in Nat
  BY DEF LimiterIInv, LimiterInv, LimiterTypeOK
<1>2. (clock - mark) * Refill \in Nat
  <2>1. clock - mark \in Nat
    BY <1>1
  <2> QED
    BY <2>1, RefillNat
<1>3. CASE p \notin DOMAIN buckets \/ buckets[p].last < mark
  BY <1>1, <1>2, <1>3, LimiterAssumption DEF LimiterIInv, LimiterInv, Granted
<1>4. CASE p \in DOMAIN buckets /\ ~(buckets[p].last < mark)
  <2> DEFINE last == buckets[p].last
             left == buckets[p].tokens
  <2>1. last \in Nat /\ left \in Nat /\ last <= clock /\ mark <= last
    BY <1>1, <1>4 DEF LimiterIInv, LimiterInv, LimiterTypeOK
  <2>2. spent[p] + left <= Capacity + (last - mark) * Refill
    BY <1>4 DEF LimiterIInv, LimiterInv, Granted
  <2>3. (clock - mark) * Refill
          = (last - mark) * Refill + (clock - last) * Refill
    BY <1>1, <2>1, RefillAdds
  <2>4. (last - mark) * Refill \in Nat /\ (clock - last) * Refill \in Nat
    <3>1. last - mark \in Nat /\ clock - last \in Nat
      BY <1>1, <2>1
    <3> QED
      BY <3>1, RefillNat
  <2> HIDE DEF last, left
  <2> QED
    BY <1>1, <1>2, <2>1, <2>2, <2>3, <2>4, LimiterAssumption
<1> QED
  BY <1>3, <1>4

\* No interval grants a peer more than a full bucket and its refill, for
\* every capacity, refill, cost, bound on the map and set of peers
\* (RateLimiter::allow with its eviction).
THEOREM LimiterNoBurst == LimiterSpec => []NoBurst
<1>1. LimiterIInv /\ [LimiterNext]_lvars => LimiterIInv'
  BY LimiterKeeps
<1> QED
  BY LimiterStarts, <1>1, InvImpliesNoBurst, PTL DEF LimiterSpec

\* The bucket map is well formed and never outgrows MAX_BUCKETS.
THEOREM LimiterBounded == LimiterSpec => []LimiterTypeOK
<1>1. LimiterIInv /\ [LimiterNext]_lvars => LimiterIInv'
  BY LimiterKeeps
<1>2. LimiterIInv => LimiterTypeOK
  BY DEF LimiterIInv, LimiterInv
<1> QED
  BY LimiterStarts, <1>1, <1>2, PTL DEF LimiterSpec
=============================================================================
