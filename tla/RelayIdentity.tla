---------------------------- MODULE RelayIdentity ----------------------------
(***************************************************************************)
(* transport_native::server::RelayIdentity, as relay-agent uses it with    *)
(* --identity-dir: the certificate whose hash is pinned in the bundles     *)
(* handed out is loaded from the directory, or generated and saved there,  *)
(* file by file, before the relay serves.  The process may be killed at    *)
(* any step, and is started again whenever it has ended.                   *)
(***************************************************************************)
EXTENDS Integers, FiniteSets

CONSTANTS
  MaxIdentities,   \* bound on the identities generated
  MaxMishaps,      \* bound on kills and failing writes
  Absent,          \* no file
  Torn             \* an empty or cut file

ASSUME IdentityAssumption ==
  MaxIdentities \in Nat /\ {Absent, Torn} \cap Nat = {}

VARIABLES
  cert,      \* relay.cert.der
  key,       \* relay.key.der
  proc,      \* the relay process: down, cert, open, key, serve, exit
  ident,     \* the identity in its memory
  made,      \* identities generated so far
  served,    \* history: the identities clients have seen
  mishaps    \* kills and failing writes so far

ivars == <<cert, key, proc, ident, made, served, mishaps>>

----------------------------------------------------------------------------
\* load_from_dir finds both files, and they make a valid pair.
Loads ==
  /\ proc = "down"
  /\ cert # Absent /\ cert = key /\ cert # Torn
  /\ proc' = "serve"
  /\ ident' = cert
  /\ served' = served \cup {cert}
  /\ UNCHANGED <<cert, key, made, mishaps>>

\* tls_server_config panics on what is not a pair.
LoadPanics ==
  /\ proc = "down"
  /\ cert # Absent /\ key # Absent
  /\ cert # key \/ cert = Torn
  /\ proc' = "exit"
  /\ UNCHANGED <<cert, key, ident, made, served, mishaps>>

Restarts ==
  /\ proc = "exit"
  /\ proc' = "down"
  /\ UNCHANGED <<cert, key, ident, made, served, mishaps>>

\* Mutant: the new identity is not saved.
GeneratesOnly ==
  /\ proc = "down"
  /\ cert = Absent \/ key = Absent
  /\ made < MaxIdentities
  /\ made' = made + 1
  /\ ident' = made + 1
  /\ proc' = "serve"
  /\ served' = served \cup {made + 1}
  /\ UNCHANGED <<cert, key, mishaps>>

\* One of the files is missing: generate, then save_to_dir.
Generates ==
  /\ proc = "down"
  /\ cert = Absent \/ key = Absent
  /\ made < MaxIdentities
  /\ made' = made + 1
  /\ ident' = made + 1
  /\ proc' = "cert"
  /\ UNCHANGED <<cert, key, served, mishaps>>

SavesCert ==
  /\ proc = "cert"
  /\ cert' = ident
  /\ proc' = "open"
  /\ UNCHANGED <<key, ident, made, served, mishaps>>

\* create_new
OpensKey ==
  /\ proc = "open"
  /\ IF key = Absent THEN key' = Torn /\ proc' = "key"
     ELSE proc' = "exit" /\ UNCHANGED key
  /\ UNCHANGED <<cert, ident, made, served, mishaps>>

SavesKey ==
  /\ proc = "key"
  /\ key' = ident
  /\ proc' = "serve"
  /\ served' = served \cup {ident}
  /\ UNCHANGED <<cert, ident, made, mishaps>>

\* Killed, or a write fails; the file being written may be cut.
Stops ==
  /\ proc \notin {"down", "exit"} /\ mishaps < MaxMishaps
  /\ mishaps' = mishaps + 1
  /\ proc' = "down"
  /\ IF proc = "cert" THEN cert' \in {cert, Torn} ELSE UNCHANGED cert
  /\ UNCHANGED <<key, ident, made, served>>

IdentityStep ==
  \/ Loads \/ LoadPanics \/ Restarts
  \/ Generates \/ SavesCert \/ OpensKey \/ SavesKey

IdentityInit ==
  /\ cert = Absent /\ key = Absent
  /\ proc = "down"
  /\ ident = Absent
  /\ made = 0
  /\ served = {}
  /\ mishaps = 0

----------------------------------------------------------------------------
\* "Restarting the relay against the same directory then keeps the same
\* certificate": clients never see a second one, wherever earlier starts
\* were killed.
PinKept == Cardinality(served) <= 1
=============================================================================
