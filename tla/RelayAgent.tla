----------------------------- MODULE RelayAgent -----------------------------
(***************************************************************************)
(* The direct-tls listener of services/relay-agent: a connection takes one *)
(* of max_connections permits when it is accepted and gives it back when   *)
(* its task ends, after a handshake, a destination header, a dial and a    *)
(* copy in both directions, each with a timeout of its own.  One wait has  *)
(* none: an ingress relay writes the header to the next hop it has dialled.*)
(* The few bytes fit the empty send buffer of that connection, and the     *)
(* write is taken as part of the dial.                                     *)
(*                                                                         *)
(* Time passes in ticks.  A timer that is due fires before the next tick.  *)
(***************************************************************************)
EXTENDS RelayIdentity

CONSTANTS
  Conn,               \* client connections
  MaxConnections,     \* max_connections
  HandshakeTimeout,   \* handshake_timeout
  DialTimeout,        \* dial_timeout
  IdleTimeout         \* idle_timeout

ASSUME RelayAssumption ==
  {MaxConnections, HandshakeTimeout, DialTimeout, IdleTimeout} \subseteq Nat \ {0}

VARIABLES
  phase,    \* of each connection: none, handshake, header, dial, copy
  timer,    \* ticks since its current timer was set
  moved,    \* activity counter # before: a byte moved in this window
  silent    \* history: ticks without progress

svars == <<phase, timer, moved, silent>>
avars == <<ivars, svars>>

Limit == [handshake |-> HandshakeTimeout, header |-> IdleTimeout,
          dial |-> DialTimeout, copy |-> IdleTimeout]

Live == {c \in Conn : phase[c] # "none"}

Due(c) == c \in Live /\ timer[c] = Limit[phase[c]]

\* Connection c goes on to phase p with a new timer.
Enter(c, p) ==
  /\ phase' = [phase EXCEPT ![c] = p]
  /\ timer' = [timer EXCEPT ![c] = 0]
  /\ moved' = [moved EXCEPT ![c] = FALSE]
  /\ silent' = [silent EXCEPT ![c] = 0]

----------------------------------------------------------------------------
\* try_acquire_owned; at the cap the connection is dropped.
Accepts(c) ==
  /\ proc = "serve"
  /\ phase[c] = "none"
  /\ Cardinality(Live) < MaxConnections
  /\ Enter(c, "handshake")

\* A phase is through.  The dial ends with the header on its way to the next
\* hop, in the ingress role.
Progress(c) ==
  \/ phase[c] = "handshake" /\ Enter(c, "header")
  \/ phase[c] = "header" /\ Enter(c, "dial")
  \/ phase[c] = "dial" /\ Enter(c, "copy")

\* Either side closes, or sends what cannot be parsed, or refuses, before
\* the timer is due.
Ends(c) ==
  /\ c \in Live /\ ~Due(c)
  /\ Enter(c, "none")

\* A byte is copied, in either direction.
Moves(c) ==
  /\ phase[c] = "copy"
  /\ moved' = [moved EXCEPT ![c] = TRUE]
  /\ silent' = [silent EXCEPT ![c] = 0]
  /\ UNCHANGED <<phase, timer>>

\* Mutant: the handshake has no timeout of its own.
TimesOutLater(c) ==
  /\ Due(c) /\ phase[c] \in {"header", "dial"}
  /\ Enter(c, "none")

TimesOut(c) ==
  /\ Due(c) /\ phase[c] # "copy"
  /\ Enter(c, "none")

\* Mutant: a session lasts one window.
WindowCaps(c) ==
  /\ Due(c) /\ phase[c] = "copy"
  /\ Enter(c, "none")

\* Mutant: the counter is read once, before the loop.
WindowCountsAll(c) ==
  /\ Due(c) /\ phase[c] = "copy"
  /\ IF moved[c]
     THEN /\ timer' = [timer EXCEPT ![c] = 0]
          /\ UNCHANGED <<phase, moved, silent>>
     ELSE Enter(c, "none")

\* copy_with_idle_timeout: one window ends.
WindowEnds(c) ==
  /\ Due(c) /\ phase[c] = "copy"
  /\ IF moved[c]
     THEN /\ timer' = [timer EXCEPT ![c] = 0]
          /\ moved' = [moved EXCEPT ![c] = FALSE]
          /\ UNCHANGED <<phase, silent>>
     ELSE Enter(c, "none")

Tick ==
  /\ Live # {}
  /\ \A c \in Conn : ~Due(c)
  /\ timer' = [c \in Conn |-> IF c \in Live THEN timer[c] + 1 ELSE 0]
  /\ silent' = [c \in Conn |-> IF c \in Live THEN silent[c] + 1 ELSE 0]
  /\ UNCHANGED <<phase, moved>>

Session(c) ==
  \/ Accepts(c) \/ Progress(c) \/ Ends(c) \/ Moves(c)
  \/ TimesOut(c) \/ WindowEnds(c)

\* The process ends, and its connections with it.
RelayStops ==
  /\ Stops
  /\ phase' = [c \in Conn |-> "none"]
  /\ timer' = [c \in Conn |-> 0]
  /\ moved' = [c \in Conn |-> FALSE]
  /\ silent' = [c \in Conn |-> 0]

RelayNext ==
  \/ IdentityStep /\ UNCHANGED svars
  \/ RelayStops
  \/ (Tick \/ \E c \in Conn : Session(c)) /\ UNCHANGED ivars

RelayInit ==
  /\ IdentityInit
  /\ phase = [c \in Conn |-> "none"]
  /\ timer = [c \in Conn |-> 0]
  /\ moved = [c \in Conn |-> FALSE]
  /\ silent = [c \in Conn |-> 0]

RelaySpec == RelayInit /\ [][RelayNext]_avars

\* tokio runs due timers, time passes, and the relay is started again after
\* it stopped.  Peers may do nothing.
FairRelaySpec ==
  /\ RelaySpec
  /\ WF_avars(IdentityStep /\ UNCHANGED svars)
  /\ WF_avars(Tick /\ UNCHANGED ivars)
  /\ \A c \in Conn : WF_avars((TimesOut(c) \/ WindowEnds(c)) /\ UNCHANGED ivars)

----------------------------------------------------------------------------
\* "Only abort if NOTHING moved in either direction for a whole idle
\* window": however bytes fall into the windows, a session that the relay
\* itself ends has been silent for one.
ActiveKept ==
  [][\A c \in Conn :
       phase[c] = "copy" /\ Due(c) /\ phase'[c] = "none" /\ proc' = "serve" =>
         silent[c] >= IdleTimeout]_avars

\* A peer that goes silent in the copy cannot hold its permit: it loses it
\* within two idle windows.
SilenceBounded ==
  \A c \in Conn : phase[c] = "copy" => silent[c] <= 2 * IdleTimeout

\* Silence, and nothing else, ends a session that the relay ends itself.
SilenceEndsSessions == []SilenceBounded /\ ActiveKept

\* Permits come back: one that is held for good is held by a session that
\* moves bytes again and again.
PermitsReturn ==
  \A c \in Conn :
    <>[](phase[c] # "none") => []<>(silent[c] = 0)
=============================================================================
