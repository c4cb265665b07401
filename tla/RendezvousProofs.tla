-------------------------- MODULE RendezvousProofs --------------------------
(***************************************************************************)
(* Proof that a daemon uses and caches certified bundles only, for any     *)
(* number of keys, rotations, restarts and mishaps.                        *)
(***************************************************************************)
EXTENDS Rendezvous, TLAPS

\* The service hands out certificates the operator issued, or ones of its own
\* hierarchy; a bundle that verified is certified, and stays so, since a
\* certificate once issued exists.  That the bundle key chains to this very
\* release key is not known of the service, only of what verified.
CertifiedInv ==
  /\ certs \subseteq Cert
  /\ server # None =>
       \/ /\ server.bundle_key_cert \in certs
          /\ server.release_key_cert \in certs
       \/ server.release_key_cert.signer = Ephemeral
  /\ hand # None => Certified(hand)
  /\ TrustedIsCertified

\* What verifies is certified.
LEMMA AcceptsCertified ==
  ASSUME CertifiedInv, server # None, Accepts(Signed)
  PROVE  Certified(Signed)
<1> DEFINE b == server.bundle_key_cert
           r == server.release_key_cert
<1>1. r.signer = Root /\ b.signer = r.child /\ b.child = server.key
  BY DEF Accepts, verify_bundle, Signed
<1>2. b \in certs /\ r \in certs /\ b \in Cert /\ r \in Cert
  BY <1>1, RendezvousAssumption DEF CertifiedInv
<1>3. /\ r = [signer |-> Root, child |-> r.child]
      /\ b = [signer |-> r.child, child |-> server.key]
  BY <1>1, <1>2 DEF Cert
<1> QED
  BY <1>2, <1>3 DEF Certified, Signed

\* The operator's steps: certificates are only added.
LEMMA OperatorKeeps ==
  ASSUME CertifiedInv, certs \subseteq certs', certs' \subseteq Cert,
         UNCHANGED <<hand, using, cache>>,
         server' # None =>
           \/ /\ server'.bundle_key_cert \in certs'
              /\ server'.release_key_cert \in certs'
           \/ server'.release_key_cert.signer = Ephemeral
  PROVE  CertifiedInv'
BY DEF CertifiedInv, TrustedIsCertified, Certified

LEMMA ClientKeeps ==
  ASSUME CertifiedInv, ClientStep \/ ClientStops
  PROVE  CertifiedInv'
<1>1. UNCHANGED <<certs, server>>
  BY DEF ClientStep, DaemonRuns, ClientStops, ClientStarts, Fetched,
         FetchedBad, Cached, CacheFails, FetchFails, operator
<1>2. /\ hand' # None => Certified(hand')
      /\ \A b \in {using', cache'} \ {None, Torn} : Certified(b)
  <2>1. CASE Fetched
    <3>1. Certified(Signed)
      BY <2>1, AcceptsCertified DEF Fetched
    <3> QED
      BY <2>1, <3>1 DEF Fetched, CertifiedInv, TrustedIsCertified
  <2>2. CASE Cached
    BY <2>2 DEF Cached, CertifiedInv, TrustedIsCertified
  <2>3. CASE FetchFails
    BY <2>3 DEF FetchFails, CertifiedInv, TrustedIsCertified
  <2>4. CASE ClientStarts \/ FetchedBad \/ CacheFails \/ ClientStops
    BY <2>4 DEF ClientStarts, FetchedBad, CacheFails, ClientStops,
                CertifiedInv, TrustedIsCertified
  <2> QED
    BY <2>1, <2>2, <2>3, <2>4 DEF ClientStep, DaemonRuns
<1> QED
  BY <1>1, <1>2 DEF CertifiedInv, TrustedIsCertified, Certified

LEMMA CertifiedKeeps == CertifiedInv /\ [RendezvousNext]_rvars => CertifiedInv'
<1> SUFFICES ASSUME CertifiedInv, [RendezvousNext]_rvars PROVE CertifiedInv'
  OBVIOUS
<1>1. ASSUME NEW r \in Release, ReleaseIssue(r) PROVE CertifiedInv'
  <2>1. [signer |-> Root, child |-> r] \in Cert
    BY DEF Cert
  <2>2. certs \subseteq certs' /\ certs' \subseteq Cert /\ server' = server
    BY <1>1, <2>1 DEF ReleaseIssue, CertifiedInv
  <2> QED
    BY <1>1, <2>2, OperatorKeeps DEF ReleaseIssue, CertifiedInv, client
<1>2. ASSUME NEW r \in Release, NEW k \in BundleKey, BundleIssue(r, k)
      PROVE  CertifiedInv'
  <2>1. [signer |-> r, child |-> k] \in Cert
    BY DEF Cert
  <2>2. certs \subseteq certs' /\ certs' \subseteq Cert /\ server' = server
    BY <1>2, <2>1 DEF BundleIssue, CertifiedInv
  <2> QED
    BY <1>2, <2>2, OperatorKeeps DEF BundleIssue, CertifiedInv, client
<1>3. ASSUME NEW k \in BundleKey, RevokeIssue(k) \/ ServerStarts(k)
      PROVE  CertifiedInv'
  <2>1. certs' = certs /\ UNCHANGED <<hand, using, cache>>
    BY <1>3 DEF RevokeIssue, ServerStarts, client
  <2>2. CASE RevokeIssue(k)
    BY <2>1, <2>2, OperatorKeeps DEF RevokeIssue, CertifiedInv
  <2>3. CASE ServerStarts(k)
    <3>1. /\ server'.bundle_key_cert \in certs
          /\ server'.release_key_cert \in certs
      BY <2>3 DEF ServerStarts
    <3> QED
      BY <2>1, <3>1, OperatorKeeps DEF CertifiedInv
  <2> QED
    BY <1>3, <2>2, <2>3
<1>4. CASE ServerStops \/ Tick \/ UNCHANGED rvars
  <2>1. /\ certs' = certs /\ UNCHANGED <<hand, using, cache>>
        /\ server' \in {server, None}
    BY <1>4 DEF ServerStops, Tick, operator, client, rvars
  <2> QED
    BY <2>1, OperatorKeeps DEF CertifiedInv
<1>5. CASE ServerStartsDev
  <2>1. /\ certs' = certs /\ UNCHANGED <<hand, using, cache>>
        /\ server'.release_key_cert.signer = Ephemeral
    BY <1>5 DEF ServerStartsDev, client
  <2> QED
    BY <2>1, OperatorKeeps DEF CertifiedInv
<1> QED
  BY <1>1, <1>2, <1>3, <1>4, <1>5, ClientKeeps DEF RendezvousNext

\* Whatever the daemon uses or caches chains to the pinned root through
\* certificates the operator issued (verify_bundle, get_bundle).
THEOREM OnlyCertifiedTrusted == RendezvousSpec => []TrustedIsCertified
<1>1. RendezvousInit => CertifiedInv
  BY DEF RendezvousInit, CertifiedInv, TrustedIsCertified
<1>2. CertifiedInv => TrustedIsCertified
  BY DEF CertifiedInv
<1> QED
  BY <1>1, <1>2, CertifiedKeeps, PTL DEF RendezvousSpec
=============================================================================
