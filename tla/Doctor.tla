------------------------------- MODULE Doctor -------------------------------
(***************************************************************************)
(* `vpn-admin doctor' on the host of VpnAdmin: what it reports of the      *)
(* files, of the two services, of the network around them and of its own   *)
(* clients' handshakes, and what it makes of that.  It changes nothing and *)
(* does not take the state lock; here it looks at the host in one state,   *)
(* with no command running.                                                *)
(*                                                                         *)
(* What VpnHost does not know of the host is a set `e' of conditions that  *)
(* are not as they should be.                                              *)
(***************************************************************************)
EXTENDS VpnAdmin

CONSTANT Surroundings  \* the sets of conditions a run of doctor may meet

\* A tool, a permission or an answer that doctor does without ...
Tolerated ==
  {"no systemctl", "not installed", "no openssl", "no certificate",
   "certificate ends soon", "no firewall-cmd", "no ss", "no UDP socket",
   "lossy UDP", "no A record", "AAAA record", "no UDPv6 socket",
   "fingerprint unreachable", "fingerprint malformed", "no client harness",
   "slow relay", "no journal", "scanner", "earlier self-test",
   "outspoken client", "second sing-box"}

\* ... one that is wrong by itself ...
Wrong ==
  {"no sing-box", "file policy", "certificate expired", "timer failed",
   "firewall stopped", "UDP blocked", "unresolved", "UDPv6 blocked",
   "oversized decoy record"}

\* ... and one that is wrong and that doctor only warns of: a certificate
\* that ended less than a day ago.
Misjudged == {"certificate ended today"}

ASSUME SurroundingsAssumption ==
  Surroundings \subseteq SUBSET (Tolerated \cup Wrong \cup Misjudged)

----------------------------------------------------------------------------
(* Reports.                                                                *)

report_check(layer, what, status) ==
  {[layer |-> layer, what |-> what, status |-> status]}

report_installed_file_policy(file, e) ==
  report_check("L2", file,
               IF "file policy" \in e THEN "fail" ELSE "ok")

\* An existing file's owner, group and mode are looked at.
PolicyIfThere(file, there, e) ==
  IF there THEN report_installed_file_policy(file, e) ELSE {}

\* With --require-protocol, what could not be tested counts as failed.
report_protocol_unavailable(what, require) ==
  report_check("L5-6", what, IF require THEN "fail" ELSE "warn")

----------------------------------------------------------------------------
(* L2: configuration, keys, certificate, host name.                        *)

check_binary_and_config(e) ==
  IF "no sing-box" \in e THEN report_check("L2", "binary", "fail")
  ELSE IF config = NoFile THEN report_check("L2", "config", "warn")
  ELSE report_installed_file_policy("config.json", e)
       \cup report_check("L2", "config", IF config \in Doc THEN "ok" ELSE "fail")

check_reality_files(e) ==
  LET private == keys["private.key"]
      public == keys["public.key"]
  IN (IF private = NoFile THEN report_check("L2", "private key", "fail")
      ELSE report_installed_file_policy("private.key", e))
     \cup (IF public = NoFile THEN report_check("L2", "public key", "fail")
           ELSE report_installed_file_policy("public.key", e)
                \cup PolicyIfThere("short_id.txt",
                                   keys["short_id.txt"] # NoFile, e)
                \cup report_check("L2", "keypair",
                       IF public = private THEN "ok" ELSE "fail"))

check_user_store(e) ==
  report_installed_file_policy("users.json", e)
  \cup report_check("L2", "user store", "ok")

\* Division of i64: rounds towards zero.
Quotient(a, b) == IF a >= 0 THEN a \div b ELSE -((-a) \div b)

\* Seconds until the end of the certificate.
Remaining(e) ==
  IF "certificate expired" \in e THEN -90000
  ELSE IF "certificate ended today" \in e THEN -3600
  ELSE IF "certificate ends soon" \in e THEN 864000
  ELSE 5184000

cert_expiry_days(e) == Quotient(Remaining(e), 86400)

check_certificate(e) ==
  LET there == "no certificate" \notin e
  IN PolicyIfThere("cert.pem", there, e) \cup PolicyIfThere("key.pem", there, e)
     \cup report_check("L2", "certificate",
            CASE ~there \/ "no openssl" \in e -> "warn"
              [] OTHER -> IF cert_expiry_days(e) < 0 THEN "fail"
                          ELSE IF cert_expiry_days(e) < 30 THEN "warn" ELSE "ok")

check_obfuscation(e) ==
  PolicyIfThere(ObfsFile, keys[ObfsFile] # NoFile, e)
  \cup report_check("L2", "obfuscation",
         IF keys[ObfsFile] # NoFile THEN "ok" ELSE "warn")

\* What a round of probes over all resolvers comes to.
run_udp_probe_candidates(outcomes) ==
  IF "answered" \in outcomes THEN "works"
  ELSE IF "silent" \in outcomes THEN "blocked" ELSE "unknown"

Probes(e, blocked, unable) ==
  IF blocked \in e THEN {"silent"}
  ELSE IF unable \in e THEN {"unable"}
  ELSE IF "lossy UDP" \in e THEN {"silent", "answered"} ELSE {"answered"}

classify_ipv6_posture(has_aaaa, probe) ==
  IF ~has_aaaa THEN "NoAaaa"
  ELSE CASE probe = "works" -> "AaaaEgressOk"
         [] probe = "blocked" -> "AaaaEgressBroken"
         [] probe = "unknown" -> "AaaaEgressUnknown"

\* Mutant: egress that could not be probed counts as broken.
posture_unknown_fails(posture) ==
  IF posture \in {"NoAaaa", "AaaaEgressOk"} THEN "ok" ELSE "fail"

ipv6_posture_report(posture) ==
  CASE posture = "NoAaaa" -> "info"
    [] posture = "AaaaEgressOk" -> "ok"
    [] posture = "AaaaEgressBroken" -> "fail"
    [] posture = "AaaaEgressUnknown" -> "warn"

check_public_hostname_and_ipv6_policy(e) ==
  IF "unresolved" \in e THEN report_check("L2", "host name", "fail")
  ELSE (IF "no A record" \in e THEN report_check("L2", "A record", "warn")
        ELSE {})
       \cup report_check("L2", "IPv6", ipv6_posture_report(
              classify_ipv6_posture(e \cap {"no A record", "AAAA record"} # {},
                run_udp_probe_candidates(
                  Probes(e, "UDPv6 blocked", "no UDPv6 socket")))))

check_singbox_binary_version_consistency(e) ==
  IF "second sing-box" \in e THEN report_check("L2", "versions", "warn") ELSE {}

----------------------------------------------------------------------------
(* L1: services.  L3: network.                                             *)

check_service(name, up, e) ==
  report_check("L1", name,
    IF {"no systemctl", "not installed"} \cap e # {} THEN "warn"
    ELSE IF up THEN "ok" ELSE "fail")

check_reconcile(e) ==
  report_check("L1", "vpn-expiry-reconcile",
    IF {"no systemctl", "not installed"} \cap e # {} THEN "warn"
    ELSE IF "timer failed" \in e THEN "fail" ELSE "ok")

check_firewall(e) ==
  report_check("L3", "firewalld",
    IF "no firewall-cmd" \in e THEN "warn"
    ELSE IF "firewall stopped" \in e THEN "fail" ELSE "ok")

\* sing-box listens on both ports while it runs.
listener_reported_by_ss(e) ==
  IF "no ss" \in e THEN "warn" ELSE IF live # Down THEN "ok" ELSE "fail"

check_network(e) ==
  report_check("L3", "TCP listener", listener_reported_by_ss(e))
  \cup report_check("L3", "UDP listener", listener_reported_by_ss(e))
  \cup (IF listener_reported_by_ss(e) # "ok" THEN {}
        ELSE LET probe == run_udp_probe_candidates(
                            Probes(e, "UDP blocked", "no UDP socket"))
             IN report_check("L3", "UDP egress",
                  CASE probe = "works" -> "ok" [] probe = "blocked" -> "fail"
                    [] probe = "unknown" -> "warn"))

----------------------------------------------------------------------------
(* L4: what is served and what is enforced.                                *)

FreshDoc == render_singbox_server_config(users, keys, now)

check_l4_subscription_coherence ==
  IF ~Coherent(keys) THEN report_check("L4", "coherence", "warn")
  ELSE report_check("L4", "coherence",
         IF /\ FreshDoc.sid = Advertised(keys).sid
            /\ FreshDoc.key = Advertised(keys).pub
         THEN "ok" ELSE "fail")
       \cup report_check("L4", "drift",
              IF config \in {NoFile, Torn} THEN "warn"
              ELSE IF config = FreshDoc THEN "ok" ELSE "fail")

\* Mutant: what a service started now would read.
compare_fresh_read(e) ==
  report_check("L4", "running service", IF Coherent(keys) THEN "ok" ELSE "warn")

\* The running vpn-subscription's fingerprint against the key files'.
check_l4_live_subscription_process_state(e) ==
  report_check("L4", "running service",
    IF \/ ~Coherent(keys) \/ adv = Down
       \/ {"fingerprint unreachable", "fingerprint malformed"} \cap e # {}
    THEN "warn"
    ELSE IF adv = Advertised(keys) THEN "ok" ELSE "fail")

----------------------------------------------------------------------------
(* L5-6: a client of doctor's own, dialling the running server.            *)

\* users.json keeps the order of creation.
Active == {r \in users : is_active(r, now)}
TestUser == CHOOSE r \in Active : \A s \in Active : r.id <= s.id

\* sing-box, external: REALITY wants the key, the short id and a decoy it
\* can imitate, then VLESS the user's id; Hysteria2 the obfuscation
\* password, then the user's.
RealityRefuses(e) ==
  /\ live # Down
  /\ \/ live.key # keys["public.key"]
     \/ live.sid # keys["short_id.txt"]
     \/ "oversized decoy record" \in e
Authenticates(r) == live # Down /\ <<r.id, r.cred>> \in live.auth
ObfsAccepted == live # Down /\ live.obfs = keys[ObfsFile]

\* The relayed request is for vpn-subscription's /healthz.
socks5_http_get_succeeds(e) == adv # Down /\ "slow relay" \notin e

\* Rejections in sing-box's journal: doctor's own, a stranger's, and one of
\* an earlier self-test.
Journal(e) ==
  (IF RealityRefuses(e) THEN {[local |-> TRUE, new |-> TRUE]} ELSE {})
  \cup (IF "scanner" \in e THEN {[local |-> FALSE, new |-> TRUE]} ELSE {})
  \cup (IF "earlier self-test" \in e THEN {[local |-> TRUE, new |-> FALSE]}
        ELSE {})

journal_has_local_reality_rejection(lines) == \E l \in lines : l.local

server_journal_shows_local_processed_invalid_connection_after(e) ==
  /\ "no journal" \notin e
  /\ journal_has_local_reality_rejection({l \in Journal(e) : l.new})

\* A client seldom says that REALITY refused it; it is taken for the decoy's.
reality_selftest_stderr_or_journal_indicates_rejection(e) ==
  \/ RealityRefuses(e) /\ "outspoken client" \in e
  \/ server_journal_shows_local_processed_invalid_connection_after(e)

run_reality_client_selftest(e) ==
  IF "no client harness" \in e THEN "Err"
  ELSE IF /\ ~RealityRefuses(e) /\ Authenticates(TestUser)
          /\ socks5_http_get_succeeds(e)
  THEN "Pass"
  ELSE IF reality_selftest_stderr_or_journal_indicates_rejection(e)
  THEN "HandshakeRejected"
  ELSE "Inconclusive"

run_hysteria2_client_selftest(e) ==
  IF "no client harness" \in e THEN "Err"
  ELSE IF /\ ObfsAccepted /\ Authenticates(TestUser)
          /\ socks5_http_get_succeeds(e)
  THEN "Pass"
  ELSE "Inconclusive"

\* What is checked before a packet is sent.
CannotDial(e) == "no sing-box" \in e \/ Active = {}

\* The result and the report.
check_l5_l6_protocol_selftest(e, require) ==
  LET Unavailable(r) ==
        [result |-> r, report |-> report_protocol_unavailable("REALITY", require)]
      outcome == run_reality_client_selftest(e)
  IN IF CannotDial(e) \/ ~Coherent(keys) THEN Unavailable("NotRun")
     ELSE CASE outcome = "Pass" ->
                 [result |-> "Passed",
                  report |-> report_check("L5-6", "REALITY", "ok")]
            [] outcome = "HandshakeRejected" ->
                 [result |-> "Failed",
                  report |-> report_check("L5-6", "REALITY", "fail")]
            [] outcome = "Inconclusive" -> Unavailable("Inconclusive")
            [] outcome = "Err" -> Unavailable("NotRun")

check_l5_l6_hysteria2_protocol_selftest(e, require) ==
  IF ~CannotDial(e) /\ run_hysteria2_client_selftest(e) = "Pass"
  THEN report_check("L5-6", "Hysteria2", "ok")
  ELSE report_protocol_unavailable("Hysteria2", require)

----------------------------------------------------------------------------
ReportsL1toL4(e) ==
  UNION {check_binary_and_config(e), check_reality_files(e),
         check_user_store(e), check_certificate(e), check_obfuscation(e),
         check_service("sing-box", live # Down, e),
         check_service("vpn-subscription", adv # Down, e),
         check_reconcile(e), check_firewall(e), check_network(e),
         check_l4_subscription_coherence,
         check_l4_live_subscription_process_state(e),
         check_public_hostname_and_ipv6_policy(e),
         check_singbox_binary_version_consistency(e)}

Failures(reports) == {r \in reports : r.status = "fail"}

\* The summary: one text for each outcome of L1-4 and L5-6, and only one of
\* them says "all checks that ran, including the real protocol handshake".
build_doctor_coverage_report(failures, result) ==
  [l1_l4 |-> IF failures = {} THEN "PASSED" ELSE "FAILED", l5_6 |-> result,
   cleared |-> failures = {} /\ result = "Passed"]

\* What a run prints, its summary (--client, --telegram) and its exit.
cmd_doctor(e, protocol, require) ==
  LET low == ReportsL1toL4(e)
      reality == IF protocol THEN check_l5_l6_protocol_selftest(e, require)
                 ELSE [result |-> "NotRun",
                       report |-> report_check("L5-6", "REALITY", "warn")]
      hysteria == IF protocol
                  THEN check_l5_l6_hysteria2_protocol_selftest(e, require)
                  ELSE report_check("L5-6", "Hysteria2", "warn")
      all == low \cup reality.report \cup hysteria
  IN [reports |-> all,
      coverage |-> build_doctor_coverage_report(Failures(low), reality.result),
      ok |-> Failures(all) = {}]

----------------------------------------------------------------------------
Verified(d, what) ==
  \E r \in d.reports : r.what = what /\ r.status = "ok"

\* A run that passes with --require-protocol, or whose summary clears the
\* server, leaves nothing of the incident it was written for: config.json is
\* the document the store, the keys and the clock call for, and a client
\* with the current keys gets through the running sing-box.  If the running
\* vpn-subscription answered it, what that serves is what sing-box enforces.
\* This holds wherever a command was killed or failed before.
DoctorPassMeansServing ==
  lock = Nobody =>
    \A e \in Surroundings :
      LET d == cmd_doctor(e, TRUE, TRUE)
      IN /\ d.ok \/ d.coverage.cleared =>
              /\ config = FreshDoc
              /\ Coherent(keys) /\ live # Down
              /\ \E r \in Active : Authenticates(r)
              /\ live.key = keys["public.key"] /\ live.sid = keys["short_id.txt"]
         /\ d.ok /\ Verified(d, "running service") => Agree(live, adv)

\* Doctor raises no false alarm: as long as nothing has gone wrong, with the
\* timer caught up, a missing tool, a lossy network, rejections in the
\* journal that are a stranger's or an earlier test's, or a handshake that
\* could not be judged fail no check that is not required.
NoFalseAlarm ==
  mishaps = 0 /\ lock = Nobody /\ config = FreshDoc =>
    \A e \in Surroundings : e \subseteq Tolerated =>
      cmd_doctor(e, TRUE, FALSE).ok
=============================================================================
