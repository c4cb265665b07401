----------------------------- MODULE Rendezvous -----------------------------
(***************************************************************************)
(* The signed relay bundles of the native stack: vpn-keytool issues        *)
(* release and bundle keys and revocation lists on machines of the         *)
(* operator, the rendezvous service signs bundles with one bundle key, and *)
(* the client daemon fetches, verifies and caches a bundle when it starts  *)
(* and uses its endpoints from then on.                                    *)
(*                                                                         *)
(* A signature is the key that made it.  A bundle's endpoints are left     *)
(* out.                                                                    *)
(***************************************************************************)
EXTENDS Integers, FiniteSets

CONSTANTS
  Release,      \* release signing keys
  BundleKey,    \* bundle signing keys
  Root,         \* the pinned root key
  Ephemeral,    \* the keys of a hierarchy the service made up for itself
  Ttl,          \* ttl_secs, in ticks
  MaxClock,     \* bound on time
  MaxMishaps,   \* bound on client stops and lost responses
  None,         \* no bundle, no list, no server
  Torn          \* a cache file that was cut short

ASSUME RendezvousAssumption ==
  Ttl \in Nat \ {0} /\ MaxClock \in Nat /\ Ephemeral # Root

VARIABLES
  clock,     \* UnixSeconds::now, the same for everybody
  certs,     \* the certificates issued so far: *.cert.json
  revoked,   \* the keys of the latest signed revocation list
  server,    \* what the rendezvous process loaded when it started, or None
  pc,        \* the client daemon: down, fetch, write, run
  hand,      \* the bundle it has verified and not yet cached
  using,     \* the bundle whose endpoints its engine dials
  cache,     \* the cache file
  mishaps    \* client stops and lost responses so far

rvars == <<clock, certs, revoked, server, pc, hand, using, cache, mishaps>>
operator == <<certs, revoked, server>>
client == <<pc, hand, using, cache>>

Cert == [signer : {Root} \cup Release, child : Release \cup BundleKey]

----------------------------------------------------------------------------
(* The operator.                                                           *)

ReleaseIssue(r) ==
  /\ certs' = certs \cup {[signer |-> Root, child |-> r]}
  /\ UNCHANGED <<clock, revoked, server, client, mishaps>>

BundleIssue(r, k) ==
  /\ [signer |-> Root, child |-> r] \in certs
  /\ \A c \in certs : c.child # k
  /\ certs' = certs \cup {[signer |-> r, child |-> k]}
  /\ UNCHANGED <<clock, revoked, server, client, mishaps>>

\* A new list, with or without --existing.
RevokeIssue(k) ==
  /\ \E c \in certs : c.signer = Root
  /\ \E prior \in {revoked, {}} : revoked' = prior \cup {k}
  /\ UNCHANGED <<clock, certs, server, client, mishaps>>

\* The service starts with a bundle key, a certificate of this key, and
\* whatever certificate it is given for the release key's, and the
\* revocation list of that time.
ServerStarts(k) ==
  /\ server = None
  /\ \E b, r \in certs :
       /\ b.child = k
       /\ server' = [key |-> k, bundle_key_cert |-> b, release_key_cert |-> r,
                     list |-> revoked]
  /\ UNCHANGED <<clock, certs, revoked, client, mishaps>>

\* Without a key directory it makes up a root, a release and a bundle key.
ServerStartsDev ==
  /\ server = None
  /\ LET own == [signer |-> Ephemeral, child |-> Ephemeral]
     IN server' = [key |-> Ephemeral, bundle_key_cert |-> own,
                   release_key_cert |-> own, list |-> revoked]
  /\ UNCHANGED <<clock, certs, revoked, client, mishaps>>

ServerStops ==
  /\ server # None
  /\ server' = None
  /\ UNCHANGED <<clock, certs, revoked, client, mishaps>>

Tick ==
  /\ clock < MaxClock
  /\ clock' = clock + 1
  /\ UNCHANGED <<operator, client, mishaps>>

----------------------------------------------------------------------------
(* The bundle.                                                             *)

\* get_relay_bundle and SignedBundle::sign.
Signed ==
  [key |-> server.key,
   bundle_key_cert |-> server.bundle_key_cert,
   release_key_cert |-> server.release_key_cert,
   issued_at |-> clock,
   expires_at |-> clock + Ttl]

\* Mutant: the bundle key need not chain to that release key.
verify_ends(b, list) ==
  /\ b.release_key_cert.signer = Root
  /\ {b.release_key_cert.child, b.key} \cap list = {}
  /\ b.bundle_key_cert.child = b.key
  /\ b.issued_at <= clock /\ clock < b.expires_at

verify_bundle(b, list) ==
  /\ b.release_key_cert.signer = Root
  /\ {b.release_key_cert.child, b.key} \cap list = {}
  /\ b.bundle_key_cert.signer = b.release_key_cert.child
  /\ b.bundle_key_cert.child = b.key
  /\ b.issued_at <= clock /\ clock < b.expires_at

\* The daemon verifies with RevocationList::empty().
Accepts(b) == verify_bundle(b, {})

----------------------------------------------------------------------------
(* The client daemon.                                                      *)

ClientStarts ==
  /\ pc = "down"
  /\ pc' = "fetch"
  /\ UNCHANGED <<clock, operator, hand, using, cache, mishaps>>

\* Mutant: a cache that cannot be read is an error.
FetchedReads ==
  /\ pc = "fetch" /\ server # None
  /\ Accepts(Signed) /\ cache # Torn
  /\ hand' = Signed
  /\ pc' = "write"
  /\ cache' = Torn
  /\ UNCHANGED <<clock, operator, using, mishaps>>

\* A response arrives and verifies; std::fs::write has truncated the cache.
Fetched ==
  /\ pc = "fetch" /\ server # None
  /\ Accepts(Signed)
  /\ hand' = Signed
  /\ pc' = "write"
  /\ cache' = Torn
  /\ UNCHANGED <<clock, operator, using, mishaps>>

\* A response that does not verify ends the daemon.
FetchedBad ==
  /\ pc = "fetch" /\ server # None
  /\ ~Accepts(Signed)
  /\ pc' = "down"
  /\ UNCHANGED <<clock, operator, hand, using, cache, mishaps>>

Cached ==
  /\ pc = "write"
  /\ pc' = "run"
  /\ cache' = hand /\ using' = hand
  /\ hand' = None
  /\ UNCHANGED <<clock, operator, mishaps>>

\* The disk is full: get_bundle fails although the bundle verified.
CacheFails ==
  /\ pc = "write" /\ mishaps < MaxMishaps
  /\ mishaps' = mishaps + 1
  /\ pc' = "down"
  /\ hand' = None
  /\ UNCHANGED <<clock, operator, using, cache>>

\* No response: the cache, verified like a response, or the end.
FetchFails ==
  /\ pc = "fetch"
  /\ \/ server = None /\ UNCHANGED mishaps
     \/ mishaps < MaxMishaps /\ mishaps' = mishaps + 1
  /\ IF cache \notin {None, Torn} /\ Accepts(cache)
     THEN pc' = "run" /\ using' = cache
     ELSE pc' = "down" /\ UNCHANGED using
  /\ UNCHANGED <<clock, operator, hand, cache>>

ClientStops ==
  /\ pc # "down" /\ mishaps < MaxMishaps
  /\ mishaps' = mishaps + 1
  /\ pc' = "down"
  /\ hand' = None /\ using' = None
  /\ UNCHANGED <<clock, operator, cache>>

----------------------------------------------------------------------------
\* What a daemon that was started does by itself.
DaemonRuns == Fetched \/ FetchedBad \/ Cached \/ FetchFails

ClientStep == ClientStarts \/ DaemonRuns \/ CacheFails

RendezvousNext ==
  \/ \E r \in Release : ReleaseIssue(r) \/ \E k \in BundleKey : BundleIssue(r, k)
  \/ \E k \in BundleKey : RevokeIssue(k) \/ ServerStarts(k)
  \/ ServerStartsDev \/ ServerStops \/ Tick \/ ClientStep \/ ClientStops

RendezvousInit ==
  /\ clock = 0
  /\ certs = {} /\ revoked = {}
  /\ server = None
  /\ pc = "down" /\ hand = None /\ using = None /\ cache = None
  /\ mishaps = 0

RendezvousSpec == RendezvousInit /\ [][RendezvousNext]_rvars

\* A daemon that was started goes on, and its request is answered or fails.
\* Nothing starts it again.
FairRendezvousSpec == RendezvousSpec /\ WF_rvars(DaemonRuns)

----------------------------------------------------------------------------
\* The certificates of b are ones the operator issued, in one chain.
Certified(b) ==
  LET r == b.release_key_cert.child
  IN {[signer |-> Root, child |-> r], [signer |-> r, child |-> b.key]}
       \subseteq certs

\* Whatever the daemon uses or keeps for an emergency chains to the pinned
\* root through certificates the operator issued, however keys were rotated
\* and the service was restarted with them.
TrustedIsCertified ==
  \A b \in {using, cache} \ {None, Torn} : Certified(b)

\* A daemon that is started while a service with a whole chain answers comes
\* up, whatever earlier stops have left in the cache: nothing keeps it down
\* but the service going away or a mishap of this very start.
OnlineComesUp ==
  LET Answers == server # None /\ verify_bundle(Signed, {})
  IN \A n \in 0 .. MaxMishaps :
       (pc = "fetch" /\ Answers /\ mishaps = n)
         ~> (pc = "run" \/ ~Answers \/ mishaps > n)
=============================================================================
