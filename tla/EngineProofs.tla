---------------------------- MODULE EngineProofs ----------------------------
(***************************************************************************)
(* Proofs about the connection engine, for any number of tasks, candidates *)
(* and networks: what begins in a cooldown, and what a local outage costs. *)
(***************************************************************************)
EXTENDS ConnectionEngine, FiniteSetTheorems, TLAPS

(* Dials in a cooldown.                                                    *)

\* The tasks that have passed the check and not begun their dial.
Passed == {t \in Task : pc[t] = "select"}

\* From the check that arms a cooldown on, nobody passes the check before a
\* check ends the cooldown: every dial begun in between uses up one of the
\* tasks that had passed, and the one that armed it is not among them.
CyclingInv ==
  /\ cycled \in Nat
  /\ DOMAIN pc = Task
  /\ left = NoCooldown \/ left \in Int
  /\ left = NoCooldown => cycled = 0
  /\ left # NoCooldown => cycled + Cardinality(Passed) < Cardinality(Task)
  /\ DOMAIN age = Task /\ \A t \in Task : age[t] \in Nat

LEMMA PassedFinite ==
  /\ IsFiniteSet(Passed) /\ Cardinality(Passed) \in Nat
  /\ Cardinality(Task) \in Nat \ {0}
<1>1. IsFiniteSet(Task) /\ Task # {}
  BY EngineAssumption
<1>2. Passed \subseteq Task
  BY DEF Passed
<1>3. IsFiniteSet(Passed)
  BY <1>1, <1>2, FS_Subset
<1> QED
  BY <1>1, <1>3, FS_CardinalityType, FS_EmptySet

\* A step of a task that neither passes the check nor begins a dial, nor
\* touches the cooldown.
LEMMA QuietKeeps ==
  ASSUME CyclingInv, Passed' \subseteq Passed, DOMAIN pc' = Task,
         left' = left \/ (left # NoCooldown /\ left' \in Int),
         cycled' = cycled,
         DOMAIN age' = Task /\ \A t \in Task : age'[t] \in Nat
  PROVE  CyclingInv'
<1>1. Cardinality(Passed') <= Cardinality(Passed) /\ Cardinality(Passed') \in Nat
  BY PassedFinite, FS_Subset, FS_CardinalityType
<1>2. NoCooldown \notin Int
  BY GuardAssumption
<1> QED
  BY <1>1, <1>2, PassedFinite DEF CyclingInv

LEMMA CheckKeeps ==
  ASSUME CyclingInv, NEW t \in Task, CheckSuppresses(t) \/ CheckPasses(t)
  PROVE  CyclingInv'
<1>1. DOMAIN age' = Task /\ \A u \in Task : age'[u] \in Nat
  BY DEF CyclingInv, CheckSuppresses, CheckPasses
<1>2. DOMAIN pc' = Task /\ age[t] \in Nat
  BY DEF CyclingInv, CheckSuppresses, CheckPasses, Returns, To
<1>3. CASE CheckPasses(t)
  BY <1>1, <1>2, <1>3 DEF CyclingInv, CheckPasses, Proceed
<1>4. CASE CheckSuppresses(t)
  <2>1. Passed' \subseteq Passed /\ t \notin Passed'
    BY <1>4 DEF CheckSuppresses, Returns, To, Passed, CyclingInv
  <2>2. CASE Cooling(age[t])
    <3>1. cycled' = cycled /\ left' = left
      BY <1>4, <2>2 DEF CheckSuppresses, Suppress, guard
    <3> QED
      BY <1>1, <1>2, <2>1, <3>1, QuietKeeps
  <2>3. CASE ~Cooling(age[t])
    <3>1. cycled' = 0 /\ left' = CooldownTicks - age[t]
      BY <1>4, <2>3 DEF CheckSuppresses, Suppress
    <3>2. left' \in Int /\ left' # NoCooldown
      BY <1>2, <3>1, GuardAssumption
    <3>3. /\ IsFiniteSet(Passed') /\ Cardinality(Passed') \in Nat
          /\ Cardinality(Passed') <= Cardinality(Task)
          /\ Cardinality(Passed') # Cardinality(Task)
      <4>1. Passed' \subseteq Task /\ Passed' # Task
        BY <2>1 DEF Passed
      <4> QED
        BY <4>1, EngineAssumption, FS_Subset, FS_CardinalityType
    <3> QED
      BY <1>1, <1>2, <3>1, <3>2, <3>3, PassedFinite DEF CyclingInv
  <2> QED
    BY <2>2, <2>3
<1> QED
  BY <1>3, <1>4

LEMMA SelectKeeps ==
  ASSUME CyclingInv, NEW t \in Task, NEW c \in Candidate, Select(t, c)
  PROVE  CyclingInv'
<1>1. /\ t \in Passed /\ Passed' = Passed \ {t}
      /\ DOMAIN pc' = Task /\ age' = age /\ left' = left
  BY DEF Select, To, Passed, CyclingInv, guard
<1>2. /\ Cardinality(Passed') = Cardinality(Passed) - 1
      /\ Cardinality(Passed') \in Nat
  BY <1>1, PassedFinite, FS_RemoveElement, FS_CardinalityType
<1>3. cycled' = cycled \/ (cycled' = cycled + 1 /\ left # NoCooldown)
  BY DEF Select, Cooling
<1> QED
  BY <1>1, <1>2, <1>3, PassedFinite DEF CyclingInv

LEMMA DrawKeeps ==
  ASSUME CyclingInv, NEW t \in Task, DrawTick(t)
  PROVE  CyclingInv'
<1>1. Passed' \subseteq Passed /\ DOMAIN pc' = Task /\ cycled' = cycled
  BY DEF DrawTick, To, Passed, CyclingInv, history
<1>2. DOMAIN age' = Task /\ \A u \in Task : age'[u] \in Nat
  BY DEF DrawTick, CyclingInv
<1>3. left' = left \/ (left # NoCooldown /\ left' \in Int)
  <2>1. CASE left = NoCooldown
    BY <2>1 DEF DrawTick, Tick
  <2>2. CASE left # NoCooldown
    <3>1. left' = Max({left - 1, -MaxAge}) /\ left - 1 \in Int /\ -MaxAge \in Int
      BY <2>2, GuardAssumption DEF DrawTick, Tick, CyclingInv
    <3>2. \A a, b \in Int : Max({a, b}) \in Int
      BY DEF Max
    <3> QED
      BY <2>2, <3>1, <3>2
  <2> QED
    BY <2>1, <2>2
<1> QED
  BY <1>1, <1>2, <1>3, QuietKeeps

\* The remaining steps leave guard and history alone, but for the window.
LEMMA RestKeeps ==
  ASSUME CyclingInv, NEW t \in Task,
         \/ Connect(t) \/ SelectNone(t) \/ TcpConnects(t) \/ DialOk(t)
         \/ RecordWon(t) \/ DialFails(t) \/ ScoreLost(t)
  PROVE  CyclingInv'
<1>1. left' = left /\ cycled' = cycled /\ age' = age
  BY DEF Connect, SelectNone, TcpConnects, DialOk, RecordWon, DialFails,
         ScoreLost, record, guard, history
<1>2. \E p \in {"draw", "idle", "handshake", "won", "lost"} :
        pc' = [pc EXCEPT ![t] = p]
  BY DEF Connect, SelectNone, TcpConnects, DialOk, RecordWon, DialFails,
         ScoreLost, Returns, To
<1>3. Passed' \subseteq Passed /\ DOMAIN pc' = Task
  BY <1>2 DEF Passed, CyclingInv
<1> QED
  BY <1>1, <1>3, QuietKeeps DEF CyclingInv

LEMMA CyclingKeeps == CyclingInv /\ [EngineNext]_evars => CyclingInv'
<1> SUFFICES ASSUME CyclingInv, [EngineNext]_evars PROVE CyclingInv'
  OBVIOUS
<1>1. CASE \E t \in Task : Connect(t) \/ TaskStep(t)
  BY <1>1, CheckKeeps, SelectKeeps, DrawKeeps, RestKeeps DEF TaskStep
<1>2. CASE \/ \E c \in Candidate : QuarantineExpires(c)
           \/ NetworkChanges \/ UNCHANGED evars
  <2>1. pc' = pc /\ age' = age /\ left' = left /\ cycled' = cycled
    BY <1>2 DEF QuarantineExpires, NetworkChanges, evars, guard, tasks, history
  <2> QED
    BY <2>1 DEF CyclingInv, Passed
<1> QED
  BY <1>1, <1>2 DEF EngineNext

\* In one cooldown fewer dials begin than there are tasks, however the ticks
\* the tasks drew reach the guard (connect, should_suppress_switching).
THEOREM CyclingBounded == EngineSpec => []BoundedCycling
<1>1. EngineInit => CyclingInv
  BY DEF EngineInit, GuardInit, CyclingInv
<1>2. CyclingInv => BoundedCycling
  BY PassedFinite DEF CyclingInv, BoundedCycling
<1> QED
  BY <1>1, <1>2, CyclingKeeps, PTL DEF EngineSpec

----------------------------------------------------------------------------
(* Local outages.                                                          *)

\* A task whose next failure, if it dials a candidate that can tell, is not
\* a remote signal: it had no route when it called connect().
Spent(t) ==
  chosen[t] \in LocalAware =>
    /\ pc[t] = "dial" => "no route" \in met[t]
    /\ pc[t] # "handshake"
    /\ pc[t] = "lost" => ~remote[t]

\* A task that has charged the present outage dials without a route until
\* the host is back.
OutageInv ==
  /\ DOMAIN pc = Task /\ DOMAIN chosen = Task /\ DOMAIN remote = Task
  /\ DOMAIN met = Task /\ DOMAIN struck = Task
  /\ \A t \in Task :
       /\ struck[t] = 0 \/ struck[t] = 1
       /\ struck[t] = 1 => ~net.online /\ Spent(t)

\* A step of one task that charges nothing.
LEMMA TaskKeeps ==
  ASSUME OutageInv, NEW t \in Task, net' = net, struck' = struck,
         DOMAIN pc' = Task, DOMAIN chosen' = Task,
         DOMAIN remote' = Task, DOMAIN met' = Task,
         \A u \in Task \ {t} : /\ pc'[u] = pc[u] /\ chosen'[u] = chosen[u]
                               /\ remote'[u] = remote[u] /\ met'[u] = met[u],
         struck[t] = 1 => Spent(t)'
  PROVE  OutageInv'
  BY DEF OutageInv, Spent

\* The steps before and after a dial, and a dial that gets on: none of them
\* leaves a task that has charged with a dial that may charge again.
LEMMA QuietStepKeeps ==
  ASSUME OutageInv, NEW t \in Task,
         \/ Connect(t) \/ DrawTick(t) \/ CheckSuppresses(t) \/ CheckPasses(t)
         \/ SelectNone(t) \/ RecordWon(t) \/ DialOk(t)
  PROVE  OutageInv'
<1>1. /\ net' = net /\ struck' = struck /\ remote' = remote
      /\ met' = met \/ met' = [met EXCEPT ![t] = {}]
      /\ chosen' = chosen \/ chosen' = [chosen EXCEPT ![t] = NoCandidate]
  BY DEF Connect, DrawTick, CheckSuppresses, CheckPasses, SelectNone,
         RecordWon, DialOk, Returns, history
<1>2. \E p \in {"draw", "check", "select", "idle", "won"} :
        pc' = [pc EXCEPT ![t] = p]
  BY DEF Connect, DrawTick, CheckSuppresses, CheckPasses, SelectNone,
         RecordWon, DialOk, Returns, To
<1> QED
  BY <1>1, <1>2, TaskKeeps DEF OutageInv, Spent

LEMMA BeginKeeps ==
  ASSUME OutageInv, NEW t \in Task, NEW c \in Candidate, Select(t, c)
  PROVE  OutageInv'
<1>1. /\ net' = net /\ struck' = struck /\ remote' = remote
      /\ pc' = [pc EXCEPT ![t] = "dial"] /\ chosen' = [chosen EXCEPT ![t] = c]
      /\ met' = [met EXCEPT ![t] =
                   Meets(net, c) \cup
                   (IF c \in LocalAware /\ ~net.online THEN {"no route"}
                    ELSE {})]
  BY DEF Select, To
<1>2. struck[t] = 1 => Spent(t)'
  BY <1>1 DEF OutageInv, Spent
<1> QED
  BY <1>1, <1>2, TaskKeeps DEF OutageInv

LEMMA HandshakeKeeps ==
  ASSUME OutageInv, NEW t \in Task, TcpConnects(t)
  PROVE  OutageInv'
<1>1. /\ net' = net /\ struck' = struck /\ remote' = remote
      /\ pc' = [pc EXCEPT ![t] = "handshake"] /\ chosen' = chosen
      /\ met' = [met EXCEPT ![t] = Meets(net, chosen[t])]
      /\ net.online
  BY DEF TcpConnects, To, history
<1> QED
  BY <1>1, TaskKeeps DEF OutageInv

LEMMA FailureKeeps ==
  ASSUME OutageInv, NEW t \in Task, DialFails(t)
  PROVE  OutageInv'
<1>1. /\ net' = net /\ struck' = struck /\ chosen' = chosen
      /\ pc[t] \in {"dial", "handshake"} /\ pc' = [pc EXCEPT ![t] = "lost"]
      /\ met' = [met EXCEPT ![t] = {}]
  BY DEF DialFails, history
<1>2. PICK cat \in categories(t) :
        remote' = [remote EXCEPT ![t] = is_remote_signal(cat)]
  BY DEF DialFails
<1>3. ASSUME struck[t] = 1, chosen[t] \in LocalAware PROVE ~remote'[t]
  <2>1. pc[t] = "dial" /\ "no route" \in met[t]
    BY <1>1, <1>3 DEF OutageInv, Spent
  <2>2. cat = "LocalNetworkFailure"
    BY <1>2, <1>3, <2>1
    DEF categories, TcpCategories, classify_connect_io_error
  <2> QED
    BY <1>2, <2>2 DEF is_remote_signal, OutageInv
<1>4. struck[t] = 1 => Spent(t)'
  BY <1>1, <1>3 DEF OutageInv, Spent
<1> QED
  BY <1>1, <1>2, <1>4, TaskKeeps DEF OutageInv

LEMMA ScoreKeeps ==
  ASSUME OutageInv, NEW t \in Task, ScoreLost(t)
  PROVE  OutageInv'
<1>1. /\ net' = net /\ pc[t] = "lost" /\ met' = met
      /\ \E p \in {"draw", "idle"} : pc' = [pc EXCEPT ![t] = p]
      /\ chosen' = [chosen EXCEPT ![t] = NoCandidate]
      /\ remote' = [remote EXCEPT ![t] = FALSE]
      /\ observe_failure(chosen[t], remote[t])
      /\ struck' = IF Charges(t) THEN [struck EXCEPT ![t] = @ + 1] ELSE struck
  BY DEF ScoreLost, Returns, To
<1>2. Spent(t)'
  BY <1>1 DEF Spent, OutageInv
<1>3. CASE Charges(t)
  <2>1. remote[t] /\ chosen[t] \in LocalAware /\ ~net.online
    BY <1>1, <1>3 DEF Charges, observe_failure
  <2>2. struck[t] = 0
    BY <1>1, <2>1 DEF OutageInv, Spent
  <2>3. /\ DOMAIN struck' = Task /\ struck'[t] = 1
        /\ \A u \in Task \ {t} : struck'[u] = struck[u]
    BY <1>1, <1>3, <2>2 DEF OutageInv
  <2>4. \A u \in Task \ {t} : Spent(u) => Spent(u)'
    BY <1>1 DEF OutageInv, Spent
  <2>5. /\ DOMAIN pc' = Task /\ DOMAIN chosen' = Task
        /\ DOMAIN remote' = Task /\ DOMAIN met' = Task
    BY <1>1 DEF OutageInv
  <2> QED
    BY <1>1, <1>2, <2>1, <2>3, <2>4, <2>5 DEF OutageInv
<1>4. CASE ~Charges(t)
  BY <1>1, <1>2, <1>4, TaskKeeps DEF OutageInv
<1> QED
  BY <1>3, <1>4

LEMMA OutageKeeps == OutageInv /\ [EngineNext]_evars => OutageInv'
<1> SUFFICES ASSUME OutageInv, [EngineNext]_evars PROVE OutageInv'
  OBVIOUS
<1>1. CASE \E t \in Task : Connect(t) \/ TaskStep(t)
  BY <1>1, QuietStepKeeps, BeginKeeps, HandshakeKeeps, FailureKeeps, ScoreKeeps
  DEF TaskStep
<1>2. CASE (\E c \in Candidate : QuarantineExpires(c)) \/ UNCHANGED evars
  <2>1. UNCHANGED <<net, pc, chosen, met, remote, struck>>
    BY <1>2 DEF QuarantineExpires, evars, tasks, history
  <2> QED
    BY <2>1 DEF OutageInv, Spent
<1>3. CASE NetworkChanges
  <2>1. PICK n \in Networks :
          /\ net' = n
          /\ met' = [t \in Task |-> IF pc[t] \in {"dial", "handshake"}
                                    THEN met[t] \cup Meets(n, chosen[t])
                                    ELSE met[t]]
          /\ struck' = IF n.online THEN [t \in Task |-> 0] ELSE struck
    BY <1>3 DEF NetworkChanges
  <2>2. UNCHANGED <<pc, chosen, remote>>
    BY <1>3 DEF NetworkChanges
  <2>3. \A t \in Task : Spent(t) => Spent(t)'
    BY <2>1, <2>2 DEF Spent
  <2>4. CASE n.online
    BY <2>1, <2>2, <2>4 DEF OutageInv
  <2>5. CASE ~n.online
    BY <2>1, <2>2, <2>3, <2>5 DEF OutageInv
  <2> QED
    BY <2>4, <2>5
<1> QED
  BY <1>1, <1>2, <1>3 DEF EngineNext

\* While the host is offline a connection lowers the score of a direct-tls
\* candidate at most once, for any number of tasks, attempts and networks and
\* however the outage meets the dials (connect_stream, observe_failure).
THEOREM OutagesSpareScores == EngineSpec => []LocalOutageSparesScores
<1>1. EngineInit => OutageInv
  BY DEF EngineInit, OutageInv
<1>2. OutageInv => LocalOutageSparesScores
  BY DEF OutageInv, LocalOutageSparesScores
<1> QED
  BY <1>1, <1>2, OutageKeeps, PTL DEF EngineSpec
=============================================================================
