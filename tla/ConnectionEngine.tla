-------------------------- MODULE ConnectionEngine --------------------------
(***************************************************************************)
(* client_daemon::engine::ConnectionEngine: every SOCKS connection runs    *)
(* connect() in a task of its own; the tasks share the score board and the *)
(* shutdown guard, each behind a mutex held for one call.  An action is    *)
(* what a task does between two awaits.  The network around them goes up   *)
(* and down.                                                               *)
(***************************************************************************)
EXTENDS ShutdownGuard, ScoreBoard, FiniteSets

CONSTANTS
  Task,          \* SOCKS connections that may run at the same time
  Transport,     \* the transport of each candidate
  Networks,      \* states of the network: is the host online, who answers
  MaxAttempts,   \* max_attempts
  NoCandidate    \* nothing chosen

ASSUME EngineAssumption ==
  /\ Transport \in [Candidate -> {"direct-tls", "noise-quic"}]
  /\ MaxAttempts \in Nat \ {0}
  /\ IsFiniteSet(Task) /\ Task # {}

VARIABLES
  net,       \* the network now
  pc,        \* where each task is
  age,       \* the age of the tick it drew
  attempt,   \* its attempts so far
  chosen,    \* the candidate it dials
  met,       \* what its dial has met so far
  remote,    \* its failure is a remote signal
  cycled,    \* history: dials begun in the current cooldown
  struck     \* history: how often each task has cost a candidate that can
             \* tell score in the present outage

tasks == <<pc, age, attempt, chosen, met, remote>>
history == <<cycled, struck>>
evars == <<guard, board, net, tasks, history>>

----------------------------------------------------------------------------
(* What a transport makes of a dial that does not get through.             *)

\* Mutant: a host without a route takes the catch-all arm.
ClassifyCatchAll(k) ==
  CASE k = "refused" -> "EndpointUnreachable"
    [] k = "silent"  -> "TcpTimeout"
    [] k = "reset"   -> "TcpReset"
    [] k \in {"offline", "other"} -> "GeneralRouteFailure"

classify_connect_io_error(k) ==
  CASE k = "refused" -> "EndpointUnreachable"
    [] k = "silent"  -> "TcpTimeout"
    [] k = "reset"   -> "TcpReset"
    [] k = "offline" -> "LocalNetworkFailure"
    [] k = "other"   -> "GeneralRouteFailure"

classify_connection_error(k) ==
  CASE k = "silent"  -> "HandshakeTimeout"
    [] k = "refused" -> "EndpointUnreachable"
    [] k = "other"   -> "QuicFailure"

is_remote_signal(cat) == cat # "LocalNetworkFailure"

\* The candidates whose transport can tell that the host is offline.
LocalAware == {c \in Candidate : Transport[c] = "direct-tls"}

\* What a dial of c meets in the network n.
Meets(n, c) == IF ~n.online THEN {"offline"}
               ELSE IF c \in n.answers THEN {} ELSE {"unanswered"}

\* connect_stream up to the TCP connection.  Without a route connect() fails
\* at once; a SYN that is lost later is not answered before the timeout, or
\* an error of the kernel comes first.
TcpCategories(m) ==
  IF "no route" \in m THEN {classify_connect_io_error("offline")}
  ELSE {classify_connect_io_error(k) : k \in
          (IF "offline" \in m THEN {"offline", "silent"} ELSE {})
     \cup (IF "unanswered" \in m THEN {"refused", "silent", "reset", "other"}
           ELSE {})}

\* connect_stream from there on: a TLS handshake tells an outage neither from
\* a silent relay nor from a broken one.
TlsCategories(m) == IF m = {} THEN {} ELSE {"HandshakeTimeout", "TlsFailure"}

\* QUIC only learns that nobody answers, or that the peer closes.
QuicCategories(m) ==
  {classify_connection_error(k) : k \in
     (IF m = {} THEN {} ELSE {"silent"})
     \cup (IF "unanswered" \in m THEN {"refused", "other"} ELSE {})}

categories(t) ==
  IF chosen[t] \notin LocalAware THEN QuicCategories(met[t])
  ELSE IF pc[t] = "dial" THEN TcpCategories(met[t])
  ELSE TlsCategories(met[t])

----------------------------------------------------------------------------
To(t, from, to) == pc[t] = from /\ pc' = [pc EXCEPT ![t] = to]

\* connect returns; what it returns goes to the application.
Returns(t, from) ==
  /\ To(t, from, "idle")
  /\ attempt' = [attempt EXCEPT ![t] = 0]
  /\ chosen' = [chosen EXCEPT ![t] = NoCandidate]

\* An application connects to the SOCKS port.
Connect(t) ==
  /\ To(t, "idle", "draw")
  /\ UNCHANGED <<guard, board, net, age, attempt, chosen, met, remote, history>>

\* self.tick.fetch_add: others may reach the guard before this task does.
DrawTick(t) ==
  /\ \A u \in Task : pc[u] = "check" => age[u] < MaxAge
  /\ Tick
  /\ age' = [u \in Task |-> IF u = t THEN 0
                            ELSE IF pc[u] = "check" THEN age[u] + 1 ELSE age[u]]
  /\ To(t, "draw", "check")
  /\ UNCHANGED <<window, board, net, attempt, chosen, met, remote, history>>

\* PossibleShutdown, "no external path detected".
CheckSuppresses(t) ==
  /\ Suppress(age[t])
  /\ Returns(t, "check")
  /\ age' = [age EXCEPT ![t] = 0]
  /\ cycled' = IF Cooling(age[t]) THEN cycled ELSE 0
  /\ UNCHANGED <<board, net, met, remote, struck>>

CheckPasses(t) ==
  /\ Proceed(age[t])
  /\ To(t, "check", "select")
  /\ age' = [age EXCEPT ![t] = 0]
  /\ cycled' = 0
  /\ UNCHANGED <<board, net, attempt, chosen, met, remote, struck>>

\* select_next draws one of the eligible candidates and the dial begins: the
\* socket's connect() is called before the task waits.
Select(t, c) ==
  /\ c \in Eligible
  /\ To(t, "select", "dial")
  /\ chosen' = [chosen EXCEPT ![t] = c]
  /\ met' = [met EXCEPT ![t] =
               Meets(net, c) \cup
               (IF c \in LocalAware /\ ~net.online THEN {"no route"} ELSE {})]
  /\ cycled' = IF Cooling(0) THEN cycled + 1 ELSE cycled
  /\ UNCHANGED <<guard, board, net, age, attempt, remote, struck>>

SelectNone(t) ==
  /\ Eligible = {}
  /\ Returns(t, "select")
  /\ UNCHANGED <<guard, board, net, age, met, remote, history>>

\* The TCP connection is there and the TLS handshake begins; who blocks a
\* relay may let the connection through and the handshake not.
TcpConnects(t) ==
  /\ chosen[t] \in LocalAware
  /\ net.online /\ "no route" \notin met[t]
  /\ To(t, "dial", "handshake")
  /\ met' = [met EXCEPT ![t] = Meets(net, chosen[t])]
  /\ UNCHANGED <<guard, board, net, age, attempt, chosen, remote, history>>

\* The session is up: scores first, then the guard.
DialOk(t) ==
  /\ net.online /\ chosen[t] \in net.answers
  /\ To(t, IF chosen[t] \in LocalAware THEN "handshake" ELSE "dial", "won")
  /\ observe_success(chosen[t])
  /\ met' = [met EXCEPT ![t] = {}]
  /\ UNCHANGED <<guard, net, age, attempt, chosen, remote, history>>

RecordWon(t) ==
  /\ Returns(t, "won")
  /\ record(TRUE)
  /\ UNCHANGED <<board, net, age, met, remote, history>>

\* The dial fails: the guard first, then the scores.
DialFails(t) ==
  /\ pc[t] \in {"dial", "handshake"}
  /\ \E cat \in categories(t) :
       remote' = [remote EXCEPT ![t] = is_remote_signal(cat)]
  /\ pc' = [pc EXCEPT ![t] = "lost"]
  /\ met' = [met EXCEPT ![t] = {}]
  /\ record(FALSE)
  /\ UNCHANGED <<board, net, age, attempt, chosen, history>>

\* In an outage, a task lowers the score of a candidate that can tell.
Charges(t) == ~net.online /\ chosen[t] \in LocalAware /\ board' # board

\* Mutant: the guard is asked once per connect.
ScoreLostRetries(t) ==
  /\ pc[t] = "lost"
  /\ observe_failure(chosen[t], remote[t])
  /\ \/ /\ attempt[t] + 1 < MaxAttempts
        /\ To(t, "lost", "select")
        /\ attempt' = [attempt EXCEPT ![t] = @ + 1]
        /\ chosen' = [chosen EXCEPT ![t] = NoCandidate]
     \/ /\ attempt[t] + 1 = MaxAttempts
        /\ Returns(t, "lost")
  /\ remote' = [remote EXCEPT ![t] = FALSE]
  /\ struck' = IF Charges(t) THEN [struck EXCEPT ![t] = @ + 1] ELSE struck
  /\ UNCHANGED <<guard, net, age, met, cycled>>

\* Then the next attempt, after a pause, or the end.
ScoreLost(t) ==
  /\ pc[t] = "lost"
  /\ observe_failure(chosen[t], remote[t])
  /\ \/ /\ attempt[t] + 1 < MaxAttempts
        /\ To(t, "lost", "draw")
        /\ attempt' = [attempt EXCEPT ![t] = @ + 1]
        /\ chosen' = [chosen EXCEPT ![t] = NoCandidate]
     \/ /\ attempt[t] + 1 = MaxAttempts
        /\ Returns(t, "lost")
  /\ remote' = [remote EXCEPT ![t] = FALSE]
  /\ struck' = IF Charges(t) THEN [struck EXCEPT ![t] = @ + 1] ELSE struck
  /\ UNCHANGED <<guard, net, age, met, cycled>>

\* The network changes, under the dials that are under way.
NetworkChanges ==
  /\ \E n \in Networks :
       /\ net' = n
       /\ met' = [t \in Task |-> IF pc[t] \in {"dial", "handshake"}
                                 THEN met[t] \cup Meets(n, chosen[t])
                                 ELSE met[t]]
       /\ struck' = IF n.online THEN [t \in Task |-> 0] ELSE struck
  /\ UNCHANGED <<guard, board, pc, age, attempt, chosen, remote, cycled>>

QuarantineExpires(c) ==
  /\ QuarantineEnds(c)
  /\ UNCHANGED <<guard, net, tasks, history>>

----------------------------------------------------------------------------
TaskStep(t) ==
  \/ DrawTick(t) \/ CheckSuppresses(t) \/ CheckPasses(t)
  \/ \E c \in Candidate : Select(t, c)
  \/ SelectNone(t) \/ TcpConnects(t)
  \/ DialOk(t) \/ RecordWon(t) \/ DialFails(t) \/ ScoreLost(t)

EngineNext ==
  \/ \E t \in Task : Connect(t) \/ TaskStep(t)
  \/ \E c \in Candidate : QuarantineExpires(c)
  \/ NetworkChanges

EngineInit ==
  /\ GuardInit
  /\ BoardInit
  /\ net \in Networks
  /\ pc = [t \in Task |-> "idle"]
  /\ age = [t \in Task |-> 0]
  /\ attempt = [t \in Task |-> 0]
  /\ chosen = [t \in Task |-> NoCandidate]
  /\ met = [t \in Task |-> {}]
  /\ remote = [t \in Task |-> FALSE]
  /\ cycled = 0 /\ struck = [t \in Task |-> 0]

EngineSpec == EngineInit /\ [][EngineNext]_evars

\* Applications keep connecting, tokio runs every task that can run, time
\* passes, and the random draws do not avoid a candidate for ever (its
\* weight is at least the floor).
EngineFairness ==
  /\ \A t \in Task : WF_evars(Connect(t) \/ TaskStep(t))
  /\ \A c \in Candidate : SF_evars(\E t \in Task : Select(t, c))
  /\ \A c \in Candidate : WF_evars(QuarantineExpires(c))

FairEngineSpec == EngineSpec /\ EngineFairness

----------------------------------------------------------------------------
\* The engine does not cycle through transports while it suppresses: in one
\* cooldown at most the tasks that had passed the check when it was armed
\* begin a dial, one each.
BoundedCycling == cycled < Cardinality(Task)

\* What a local outage costs: as long as it lasts, a connection lowers the
\* score of a candidate whose transport can tell at most once, for the dial
\* that was under way when the outage began, however often it dials.
LocalOutageSparesScores == \A t \in Task : struck[t] <= 1

\* Neither cooldowns nor quarantines are a dead end: when the host stays
\* online and some candidate answers from some time on, connections get
\* through again and again.
Recovers ==
  \A c \in Candidate :
    <>[](net.online /\ c \in net.answers) =>
      []<>(\E t \in Task : pc[t] = "won")
=============================================================================
