---------------------------- MODULE RelayProofs ----------------------------
(***************************************************************************)
(* Proofs about the relay agent, for any number of connections and kills   *)
(* and any timeouts: its pin is kept, and silence is what ends a session.  *)
(***************************************************************************)
EXTENDS RelayAgent, FiniteSetTheorems, TLAPS

(* The pin.                                                                *)

\* An identity that was served is in both files, and nothing generates
\* another one from then on; while the key is being written, the certificate
\* beside it is its own.
IdentityInv ==
  /\ proc \in {"down", "cert", "open", "key", "serve", "exit"}
  /\ made \in Nat /\ {cert, key} \subseteq Nat \cup {Absent, Torn}
  /\ proc \in {"cert", "open", "key"} => ident \in Nat
  /\ proc \in {"open", "key"} => cert = ident
  /\ served # {} =>
       /\ served = {cert} /\ cert = key /\ cert \in Nat
       /\ proc \in {"down", "serve", "exit"}

LEMMA IdentityKeeps ==
  ASSUME IdentityInv, IdentityStep \/ Stops \/ UNCHANGED ivars
  PROVE  IdentityInv'
<1> USE IdentityAssumption
<1>1. CASE Loads \/ LoadPanics \/ Restarts
  BY <1>1 DEF Loads, LoadPanics, Restarts, IdentityInv
<1>2. CASE Generates
  BY <1>2 DEF Generates, IdentityInv
<1>3. CASE SavesCert \/ OpensKey \/ SavesKey
  BY <1>3 DEF SavesCert, OpensKey, SavesKey, IdentityInv
<1>4. CASE Stops
  BY <1>4 DEF Stops, IdentityInv
<1>5. CASE UNCHANGED ivars
  BY <1>5 DEF ivars, IdentityInv
<1> QED
  BY <1>1, <1>2, <1>3, <1>4, <1>5 DEF IdentityStep

\* Clients never see a second certificate, wherever starts of the relay were
\* cut (load_or_generate, save_to_dir).
THEOREM PinIsKept == RelaySpec => []PinKept
<1>1. RelayInit => IdentityInv
  BY DEF RelayInit, IdentityInit, IdentityInv
<1>2. IdentityInv /\ [RelayNext]_avars => IdentityInv'
  BY IdentityKeeps DEF RelayNext, RelayStops, avars
<1>3. IdentityInv => PinKept
  <2>1. Cardinality({}) = 0 /\ Cardinality({cert}) = 1
    BY FS_EmptySet, FS_Singleton
  <2> QED
    BY <2>1 DEF IdentityInv, PinKept
<1> QED
  BY <1>1, <1>2, <1>3, PTL DEF RelaySpec

----------------------------------------------------------------------------
(* Sessions.                                                               *)

\* A window with a byte in it has been silent for no longer than it lasts;
\* one without has been silent for as long as it lasts, and for a window
\* before it at most.
SessionInv(c) ==
  /\ timer[c] \in Nat /\ silent[c] \in Nat
  /\ phase[c] = "copy" =>
       /\ timer[c] <= IdleTimeout
       /\ moved[c] => silent[c] <= timer[c]
       /\ ~moved[c] => timer[c] <= silent[c]
                       /\ silent[c] <= IdleTimeout + timer[c]

RelayInv ==
  /\ DOMAIN phase = Conn /\ DOMAIN timer = Conn
  /\ DOMAIN moved = Conn /\ DOMAIN silent = Conn
  /\ \A c \in Conn : SessionInv(c)

LEMMA EnterKeeps ==
  ASSUME RelayInv, NEW c \in Conn, NEW p, Enter(c, p)
  PROVE  RelayInv'
<1> USE RelayAssumption
<1>1. SessionInv(c)'
  <2>1. timer'[c] = 0 /\ silent'[c] = 0 /\ moved'[c] = FALSE
    BY DEF RelayInv, Enter
  <2>2. ~moved'[c]
    BY <2>1, Zenon
  <2> QED
    BY <2>1, <2>2 DEF SessionInv
<1>2. ASSUME NEW d \in Conn, d # c PROVE SessionInv(d)'
  <2>1. /\ phase'[d] = phase[d] /\ timer'[d] = timer[d]
        /\ moved'[d] = moved[d] /\ silent'[d] = silent[d]
    BY <1>2 DEF RelayInv, Enter
  <2> QED
    BY <2>1 DEF RelayInv, SessionInv
<1> QED
  BY <1>1, <1>2 DEF RelayInv, Enter

LEMMA RelayKeeps == RelayInv /\ [RelayNext]_avars => RelayInv'
<1> SUFFICES ASSUME RelayInv, [RelayNext]_avars PROVE RelayInv'
  OBVIOUS
<1> USE RelayAssumption
<1>1. ASSUME NEW c \in Conn, Session(c) PROVE RelayInv'
  <2>1. CASE \E p : Enter(c, p)
    BY <2>1, EnterKeeps
  <2>2. CASE Moves(c)
    <3>1. /\ phase' = phase /\ timer' = timer
          /\ moved'[c] = TRUE /\ silent'[c] = 0
          /\ \A d \in Conn \ {c} : moved'[d] = moved[d] /\ silent'[d] = silent[d]
      BY <2>2 DEF Moves, RelayInv
    <3>2. SessionInv(c)'
      <4>1. moved'[c]
        BY <3>1, Zenon
      <4> QED
        BY <3>1, <4>1 DEF RelayInv, SessionInv
    <3>3. ASSUME NEW d \in Conn \ {c} PROVE SessionInv(d)'
      BY <3>1 DEF RelayInv, SessionInv
    <3> QED
      BY <2>2, <3>2, <3>3 DEF Moves, RelayInv
  <2>3. CASE WindowEnds(c) /\ moved[c]
    <3>1. timer[c] = IdleTimeout /\ phase[c] = "copy"
      BY <2>3 DEF WindowEnds, Due, Limit
    <3>2. /\ phase' = phase /\ silent' = silent
          /\ moved'[c] = FALSE /\ timer'[c] = 0
          /\ \A d \in Conn \ {c} : moved'[d] = moved[d] /\ timer'[d] = timer[d]
      BY <2>3 DEF WindowEnds, RelayInv
    <3>3. SessionInv(c)'
      <4>1. ~moved'[c]
        BY <3>2, Zenon
      <4> QED
        BY <2>3, <3>1, <3>2, <4>1 DEF RelayInv, SessionInv
    <3>4. ASSUME NEW d \in Conn \ {c} PROVE SessionInv(d)'
      BY <3>2 DEF RelayInv, SessionInv
    <3> QED
      BY <2>3, <3>3, <3>4 DEF WindowEnds, RelayInv
  <2> QED
    BY <1>1, <2>1, <2>2, <2>3
       DEF Session, Accepts, Progress, Ends, TimesOut, WindowEnds
<1>2. CASE Tick
  <2>1. ASSUME NEW c \in Conn PROVE SessionInv(c)'
    <3>1. phase[c] = "copy" => timer[c] # IdleTimeout
      BY <1>2 DEF Tick, Due, Live, Limit
    <3>2. phase[c] = "copy" => c \in Live
      BY DEF Live
    <3> QED
      BY <1>2, <3>1, <3>2 DEF Tick, RelayInv, SessionInv
  <2> QED
    BY <1>2, <2>1 DEF Tick, RelayInv
<1>3. CASE RelayStops
  BY <1>3 DEF RelayStops, RelayInv, SessionInv
<1>4. CASE UNCHANGED svars
  BY <1>4 DEF svars, RelayInv, SessionInv
<1> QED
  BY <1>1, <1>2, <1>3, <1>4 DEF RelayNext, avars

\* Only silence of a whole window ends a session.
LEMMA SilenceEnds ==
  ASSUME RelayInv, [RelayNext]_avars, NEW c \in Conn,
         phase[c] = "copy", Due(c), phase'[c] = "none", proc' = "serve"
  PROVE  silent[c] >= IdleTimeout
<1> USE RelayAssumption
<1>1. timer[c] = IdleTimeout
  BY DEF Due, Limit
<1>2. CASE moved[c]
  <2>1. ASSUME NEW d \in Conn, Session(d) PROVE phase'[c] = phase[c]
    <3>1. CASE d # c
      BY <2>1, <3>1 DEF Session, Accepts, Progress, Ends, Moves, TimesOut,
                        WindowEnds, Enter, RelayInv
    <3>2. CASE d = c
      BY <1>2, <2>1, <3>2 DEF Session, Accepts, Progress, Ends, Moves,
                              TimesOut, WindowEnds
    <3> QED
      BY <3>1, <3>2
  <2>2. ~RelayStops
    BY DEF RelayStops, Stops
  <2> QED
    BY <2>1, <2>2 DEF RelayNext, Tick, svars, avars
<1>3. CASE ~moved[c]
  BY <1>1, <1>3 DEF RelayInv, SessionInv
<1> QED
  BY <1>2, <1>3 DEF RelayInv, SessionInv

\* A session loses its permit within two silent windows, and a session the
\* relay ends was silent for one (copy_with_idle_timeout).
THEOREM SilenceDecides == RelaySpec => SilenceEndsSessions
<1>1. RelayInit => RelayInv
  BY DEF RelayInit, RelayInv, SessionInv
<1>2. RelayInv => SilenceBounded
  BY RelayAssumption DEF RelayInv, SessionInv, SilenceBounded
<1>3. RelayInv /\ [RelayNext]_avars =>
        [\A c \in Conn :
           phase[c] = "copy" /\ Due(c) /\ phase'[c] = "none"
             /\ proc' = "serve" => silent[c] >= IdleTimeout]_avars
  BY SilenceEnds
<1> QED
  BY <1>1, <1>2, <1>3, RelayKeeps, PTL
     DEF RelaySpec, SilenceEndsSessions, ActiveKept
=============================================================================
