---------------------------- MODULE RateLimiter ----------------------------
(***************************************************************************)
(* The token bucket of the subscription service (and, without eviction, of *)
(* the rendezvous service): a bucket per peer address, refilled by the     *)
(* time that passed since its last request, and dropped when there are too *)
(* many.  Every request runs under the limiter's mutex.                    *)
(*                                                                         *)
(* Tokens are counted in fractions: a request costs Cost of them.          *)
(***************************************************************************)
EXTENDS Integers, FiniteSets, FiniteSetsExt, Functions

CONSTANTS
  Peer,         \* peer addresses
  Capacity,     \* capacity
  Refill,       \* refill_per_sec
  Cost,         \* one token
  MaxBuckets,   \* MAX_BUCKETS
  TrimTo,       \* TRIM_TO
  MaxClock      \* bound on time

ASSUME LimiterAssumption ==
  /\ Cost \in Nat \ {0} /\ Capacity \in Nat /\ Capacity >= Cost
  /\ Refill \in Nat \ {0}
  /\ MaxBuckets \in Nat /\ TrimTo \in 1 .. MaxBuckets /\ MaxClock \in Nat

VARIABLES
  clock,     \* Instant::now
  buckets,   \* (tokens, last) of the peers that have one
  mark,      \* when the interval that is looked at begins, any time
  spent      \* history: tokens each peer was granted in that interval

lvars == <<clock, buckets, mark, spent>>

----------------------------------------------------------------------------
Refilled(b, now) == Min({b.tokens + (now - b.last) * Refill, Capacity})

\* A full refill's time has passed, and at least a second.
IdleFor(b, now) == (now - b.last) * Refill >= Capacity /\ now - b.last >= 1

\* The first pass: what is kept.
NotIdle(bs, now) ==
  {p \in DOMAIN bs : bs[p].tokens < Capacity \/ ~IdleFor(bs[p], now)}

\* Mutant: only the first pass.
KeptOnce(bs, now) ==
  IF Cardinality(DOMAIN bs) <= MaxBuckets THEN {DOMAIN bs}
  ELSE {NotIdle(bs, now)}

\* evict_full_buckets: what may be kept; equal times are in no order.
Kept(bs, now) ==
  LET rest == NotIdle(bs, now)
  IN IF Cardinality(DOMAIN bs) <= MaxBuckets THEN {DOMAIN bs}
     ELSE IF Cardinality(rest) <= TrimTo THEN {rest}
     ELSE {K \in kSubset(TrimTo, rest) :
             \A p \in K, q \in rest \ K : bs[p].last >= bs[q].last}

\* The tokens peer p has by now; a new peer has a full bucket.
Tokens(p) ==
  IF p \in DOMAIN buckets THEN Refilled(buckets[p], clock) ELSE Capacity

Allowed(p) == Tokens(p) >= Cost

\* Mutant: a refused request leaves the bucket's time as it was.
StampedIfAllowed(p) ==
  [q \in DOMAIN buckets \cup {p} |->
     IF q = p
     THEN IF Allowed(p) THEN [tokens |-> Tokens(p) - Cost, last |-> clock]
          ELSE [tokens |-> Tokens(p), last |-> buckets[p].last]
     ELSE buckets[q]]

\* The buckets after a request of p, before the map is trimmed.
Charged(p) ==
  [q \in DOMAIN buckets \cup {p} |->
     IF q = p THEN [tokens |-> IF Allowed(p) THEN Tokens(p) - Cost
                               ELSE Tokens(p),
                    last |-> clock]
     ELSE buckets[q]]

allow(p) ==
  \E K \in Kept(Charged(p), clock) :
    /\ buckets' = Restrict(Charged(p), K)
    /\ spent' = [q \in Peer |->
                   IF q \notin K THEN 0
                   ELSE IF q = p /\ Allowed(p) /\ clock >= mark
                   THEN spent[q] + Cost ELSE spent[q]]
    /\ UNCHANGED <<clock, mark>>

\* The service is started again with an empty map.
Restarted ==
  /\ buckets' = <<>>
  /\ spent' = [q \in Peer |-> 0]
  /\ UNCHANGED <<clock, mark>>

TimePasses ==
  /\ clock < MaxClock
  /\ clock' = clock + 1
  /\ UNCHANGED <<buckets, mark, spent>>

LimiterInit ==
  /\ clock = 0
  /\ buckets = <<>>
  /\ mark \in 0 .. MaxClock
  /\ spent = [p \in Peer |-> 0]

LimiterNext == TimePasses \/ Restarted \/ \E p \in Peer : allow(p)

LimiterSpec == LimiterInit /\ [][LimiterNext]_lvars

----------------------------------------------------------------------------
\* Types of the limiter's state; the bucket map never outgrows its bound.
LimiterTypeOK ==
  /\ clock \in Nat /\ mark \in Nat
  /\ DOMAIN buckets \subseteq Peer
  /\ Cardinality(DOMAIN buckets) <= MaxBuckets
  /\ \A p \in DOMAIN buckets :
       buckets[p].tokens \in 0 .. Capacity /\ buckets[p].last \in 0 .. clock
  /\ spent \in [Peer -> Nat]

\* In no interval is a peer granted more than a full bucket and what is
\* refilled meanwhile, unless its bucket is dropped in it.
NoBurst ==
  clock >= mark =>
    \A p \in Peer : spent[p] <= Capacity + (clock - mark) * Refill
=============================================================================
