------------------------------- MODULE VpnHost -------------------------------
(***************************************************************************)
(* One vpn1 server: the files vpn-admin maintains, the two services that   *)
(* read them, the clock, and the vpn-admin processes that contend for the  *)
(* state lock.  Every command of vpn-admin (ApplyConfig, UserTransaction,  *)
(* KeyRotation) is a sequence of steps over this state; what happens       *)
(* around those steps (a process is killed, sing-box dies and is restarted *)
(* by systemd, the host reboots, time passes) is defined here.             *)
(*                                                                         *)
(* Data is reduced to what the properties tell apart.  A credential, a     *)
(* token, a user id and a key are numbers drawn from one counter, `fresh', *)
(* because the code draws them from a CSPRNG and no two draws are equal.   *)
(* A user's VLESS UUID and Hysteria2 password are one value: the commands  *)
(* that replace one, the other or both run the same transaction.           *)
(***************************************************************************)
EXTENDS Integers, FiniteSets

CONSTANTS
  Operator,      \* vpn-admin invocations made by hand, concurrently
  Timer,         \* the vpn-expiry-reconcile.timer invocation of render-config
  Nobody,        \* the value of `lock' when no process holds it
  NoFile,        \* a file that does not exist
  Torn,          \* config.json truncated by an unfinished copy
  Down,          \* a service that is not running
  Never,         \* expires_at: None
  InitialUsers,  \* users.json as the model starts
  InitialObfs,   \* obfs password file as the model starts (0 or NoFile)
  MaxNow,        \* bound on the clock
  MaxFresh,      \* bound on CSPRNG draws
  MaxMishaps     \* bound on failures, kills and reboots in one behaviour

Proc == Operator \cup {Timer}

Secret == Nat
CompatUser == [id: Nat, enabled: BOOLEAN, cred: Secret, token: Secret,
               expires: Nat \cup {Never}]

(* The files that hold key material, and the sing-box document they and    *)
(* the user store are rendered into.                                       *)
ObfsFile == "hysteria_obfs_password.txt"
KeyFile == {"private.key", "public.key", "short_id.txt", ObfsFile}
KeyState == [KeyFile -> Secret \cup {NoFile}]
Doc == [auth: SUBSET (Nat \X Secret), key: Secret, sid: Secret \cup {NoFile},
        obfs: Secret \cup {NoFile}]

ASSUME ProcAssumption ==
  /\ Timer \notin Operator
  /\ Nobody \notin Proc

ASSUME BoundAssumption ==
  /\ MaxNow \in Nat
  /\ MaxFresh \in Nat
  /\ MaxMishaps \in Nat

ASSUME ValueAssumption ==
  /\ Never \notin Nat
  /\ NoFile \notin Nat
  /\ Down \notin Doc
  /\ Torn \notin Doc
  /\ NoFile \notin Doc
  /\ Torn # NoFile
  /\ InitialObfs \in {0, NoFile}

(* Ids are unique in users.json, and everything in it was drawn before.    *)
ASSUME InitialUsersAssumption ==
  /\ InitialUsers \subseteq CompatUser
  /\ \A r, s \in InitialUsers : r.id = s.id => r = s
  /\ \A r \in InitialUsers : r.id = 0 /\ r.cred = 0 /\ r.token = 0

VARIABLES
  users,    \* users.json
  config,   \* config.json
  bak,      \* config.json.bak
  stamp,    \* config.applied.sha256
  keys,     \* the key files
  live,     \* the document the running sing-box loaded at its last start
  adv,      \* the key material vpn-subscription read at its last start
  now,      \* the clock
  lock,     \* the holder of /run/lock/vpn1.lock
  pc,       \* where each vpn-admin process is
  cmd,      \* the command each process runs
  prev,     \* users.json as the command loaded it
  cand,     \* users.json as the command wants it
  doc,      \* the document the command rendered
  req,      \* require_live_apply && !offline_mutation_allowed()
  ret,      \* what render_and_apply_singbox_config returned
  fresh,    \* the next CSPRNG draw
  mishaps   \* failures, kills and reboots so far

disk == <<users, config, bak, stamp, keys>>
services == <<live, adv>>
locals == <<cmd, prev, cand, doc, req, ret>>
vars == <<disk, services, now, lock, pc, locals, fresh, mishaps>>

----------------------------------------------------------------------------
(* Rendering.                                                              *)

is_active(r, t) == r.enabled /\ (r.expires = Never \/ t < r.expires)

\* The credentials of table `us' that are valid at time `t'.
Authorized(us, t) == {<<r.id, r.cred>> : r \in {x \in us : is_active(x, t)}}

render_singbox_server_config(us, ks, t) ==
  [auth |-> Authorized(us, t), key |-> ks["private.key"],
   sid |-> ks["short_id.txt"], obfs |-> ks[ObfsFile]]

\* load_reality_params succeeds: all three files are there and the public
\* key is the private key's.
Coherent(ks) ==
  /\ ks["private.key"] # NoFile
  /\ ks["public.key"] = ks["private.key"]
  /\ ks["short_id.txt"] # NoFile

\* SHA-256 of the canonical document: no two documents share a fingerprint.
rendered_config_fingerprint(d) == [sha256 |-> d]

\* What vpn-subscription puts into every profile it serves until restarted.
Advertised(ks) ==
  [pub |-> ks["public.key"], sid |-> ks["short_id.txt"],
   obfs |-> ks[ObfsFile]]

\* vpn-subscription exits at startup without a public key or a short id.
Readable(ks) == ks["public.key"] # NoFile /\ ks["short_id.txt"] # NoFile

----------------------------------------------------------------------------
Mishap == mishaps < MaxMishaps /\ mishaps' = mishaps + 1
Fine == UNCHANGED mishaps

Goto(p, from, to) == pc[p] = from /\ pc' = [pc EXCEPT ![p] = to]

\* The processes of S are gone, and with them their memory and their lock.
Gone(S) ==
  /\ pc' = [p \in Proc |-> IF p \in S THEN "idle" ELSE pc[p]]
  /\ cmd' = [p \in Proc |-> IF p \in S THEN "none" ELSE cmd[p]]
  /\ prev' = [p \in Proc |-> IF p \in S THEN {} ELSE prev[p]]
  /\ cand' = [p \in Proc |-> IF p \in S THEN {} ELSE cand[p]]
  /\ doc' = [p \in Proc |-> IF p \in S THEN NoFile ELSE doc[p]]
  /\ req' = [p \in Proc |-> IF p \in S THEN FALSE ELSE req[p]]
  /\ ret' = [p \in Proc |-> IF p \in S THEN "none" ELSE ret[p]]
  /\ lock' = IF lock \in S THEN Nobody ELSE lock

\* The process exits, having printed its result; flock is released with
\* the descriptor.
Exit(p) ==
  /\ pc[p] = "done"
  /\ Gone({p})
  /\ UNCHANGED <<disk, services, now, fresh, mishaps>>

\* The process is killed between two steps: nothing it wrote is undone.
Kill(p) ==
  /\ pc[p] \notin {"idle", "done"}
  /\ Mishap
  /\ Gone({p})
  /\ UNCHANGED <<disk, services, now, fresh>>

\* What sing-box runs when it is started now (ExecStartPre checks the file).
Started == IF config \in Doc THEN config ELSE Down

SubStarted == IF Readable(keys) THEN Advertised(keys) ELSE Down

\* The sing-box process dies; systemd starts it again (Restart=on-failure)
\* from whatever config.json holds by then.
SingBoxDies ==
  /\ live # Down
  /\ Mishap
  /\ live' = Down
  /\ UNCHANGED <<disk, adv, now, lock, pc, locals, fresh>>

SystemdRestarts ==
  /\ live = Down
  /\ Started # Down
  /\ live' = Started
  /\ UNCHANGED <<disk, adv, now, lock, pc, locals, fresh, mishaps>>

\* vpn-subscription dies and is started again (Restart=on-failure).
SubscriptionRestarts ==
  /\ Mishap
  /\ adv' = SubStarted
  /\ UNCHANGED <<disk, live, now, lock, pc, locals, fresh>>

\* The host reboots: every process is gone, both services start afresh.
Reboot ==
  /\ Mishap
  /\ live' = Started
  /\ adv' = SubStarted
  /\ Gone(Proc)
  /\ UNCHANGED <<disk, now, fresh>>

Tick ==
  /\ now < MaxNow
  /\ now' = now + 1
  /\ UNCHANGED <<disk, services, lock, pc, locals, fresh, mishaps>>

\* What happens to the host without stopping a vpn-admin process.
Weather == SingBoxDies \/ SystemdRestarts \/ SubscriptionRestarts \/ Tick

\* A deployment as install.sh leaves it: one coherent keyset, its document
\* loaded, verified and stamped, the subscription service started after it.
Init ==
  /\ users = InitialUsers
  /\ keys = [f \in KeyFile |-> IF f = ObfsFile THEN InitialObfs ELSE 0]
  /\ now = 0
  /\ config = render_singbox_server_config(users, keys, now)
  /\ bak = NoFile
  /\ stamp = rendered_config_fingerprint(config)
  /\ live = config
  /\ adv = Advertised(keys)
  /\ lock = Nobody
  /\ pc = [p \in Proc |-> "idle"]
  /\ cmd = [p \in Proc |-> "none"]
  /\ prev = [p \in Proc |-> {}]
  /\ cand = [p \in Proc |-> {}]
  /\ doc = [p \in Proc |-> NoFile]
  /\ req = [p \in Proc |-> FALSE]
  /\ ret = [p \in Proc |-> "none"]
  /\ fresh = 1
  /\ mishaps = 0
=============================================================================
