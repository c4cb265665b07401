----------------------------- MODULE CertRenewal -----------------------------
(***************************************************************************)
(* The certbot deploy hook that replaces the Hysteria2 certificate and key *)
(* when Let's Encrypt renews them (certbot-deploy-hook.sh), beside a       *)
(* `vpn-admin restore' that replaces the same pair, a sing-box that can be *)
(* restarted from whatever pair is on disk, and nginx, which reads         *)
(* certbot's files itself.                                                 *)
(*                                                                         *)
(* A certificate and a private key are the number of the renewal they come *)
(* from; they match when the numbers are equal.  The archived pair is 0.   *)
(***************************************************************************)
EXTENDS Integers

CONSTANTS
  NoFile,        \* a file that does not exist
  Torn,          \* an unfinished copy
  Down,          \* sing-box is not running
  Nobody,        \* the state lock is free
  MaxRenewals,   \* bound on renewals
  MaxMishaps     \* bound on failures and signals

ASSUME CertAssumption ==
  /\ MaxRenewals \in Nat /\ MaxMishaps \in Nat
  /\ NoFile \notin Nat /\ Down \notin Nat /\ Torn \notin Nat

VARIABLES
  lineage,    \* the pair in /etc/letsencrypt/live
  disk,       \* cert.pem and key.pem
  tmp,        \* cert.pem.renew.tmp and key.pem.renew.tmp
  renewbak,   \* cert.pem.renew-bak and key.pem.renew-bak
  rotbak,     \* cert.pem.rotate-bak and key.pem.rotate-bak
  live,       \* the pair the running sing-box loaded
  nginx,      \* the certificate the nginx workers loaded
  lock,       \* /run/lock/vpn1.lock
  pc,         \* where the hook is
  rpc,        \* where the restore is
  exit,       \* how the last hook ended
  snap,       \* history: disk when the hook took the lock
  killed,     \* history: a process was ended by KILL or a loss of power
  mishaps     \* failures and signals so far

files == <<disk, tmp, renewbak, rotbak>>
cvars == <<lineage, files, live, nginx, lock, pc, rpc, exit, snap, killed, mishaps>>

Part == {"cert", "key"}
Both(v) == [x \in Part |-> v]
Matches(pair) == pair["cert"] # NoFile /\ pair["cert"] = pair["key"]

Mishap == mishaps < MaxMishaps /\ mishaps' = mishaps + 1
Fine == UNCHANGED mishaps

\* sing-box loads the pair when it starts; ExecStartPre's `sing-box check'
\* refuses one that does not match.
Started == IF Matches(disk) THEN disk["cert"] ELSE Down

----------------------------------------------------------------------------
(* The hook.                                                               *)

To(from, to) == pc = from /\ pc' = to

Ends(from, how) ==
  /\ To(from, "idle")
  /\ exit' = how
  /\ lock' = IF lock = "hook" THEN Nobody ELSE lock

\* certbot obtained a new pair, and runs the hook on it.
Renew ==
  /\ lineage < MaxRenewals
  /\ To("idle", "stage")
  /\ lineage' = lineage + 1
  /\ exit' = "none"
  /\ UNCHANGED <<files, live, nginx, lock, rpc, snap, killed, mishaps>>

\* Expiry, SAN and the match of the pair are verified on the staged copies;
\* nothing is locked yet.
Stage ==
  /\ \/ Fine /\ To("stage", "lock") /\ tmp' = Both(lineage)
        /\ UNCHANGED <<exit, lock>>
     \/ /\ Mishap /\ Ends("stage", "refused")
        /\ tmp' \in {tmp, [tmp EXCEPT !["cert"] = lineage], Both(lineage)}
  /\ UNCHANGED <<lineage, disk, renewbak, rotbak, live, nginx, rpc, snap, killed>>

\* Mutant: the hook does not wait for vpn-admin.
LockAnyway ==
  /\ Fine
  /\ To("lock", "check")
  /\ snap' = disk
  /\ UNCHANGED <<lineage, files, live, nginx, lock, rpc, exit, killed>>

Lock ==
  /\ lock = Nobody
  /\ lock' = "hook"
  /\ Fine
  /\ To("lock", "check")
  /\ snap' = disk
  /\ UNCHANGED <<lineage, files, live, nginx, rpc, exit, killed>>

\* Mutant: backups of an interrupted renewal are overwritten.
StaleIgnored ==
  /\ Fine /\ To("check", "keep.cert")
  /\ UNCHANGED <<lineage, files, live, nginx, lock, rpc, exit, snap, killed>>

\* A backup left by an interrupted renewal stops this one.
Stale ==
  /\ Fine
  /\ \/ renewbak = Both(NoFile) /\ To("check", "keep.cert")
        /\ UNCHANGED <<exit, lock>>
     \/ renewbak # Both(NoFile) /\ Ends("check", "refused")
  /\ UNCHANGED <<lineage, files, live, nginx, rpc, snap, killed>>

\* cp -a, before any trap is set: a failing copy ends the hook at once.
Keep(x, from, to) ==
  /\ \/ /\ Fine /\ To(from, to) /\ UNCHANGED <<exit, lock>>
        /\ renewbak' = [renewbak EXCEPT ![x] = disk[x]]
     \/ /\ Mishap /\ Ends(from, "refused")
        /\ \E v \in {NoFile, Torn} : renewbak' = [renewbak EXCEPT ![x] = v]
  /\ UNCHANGED <<lineage, disk, tmp, rotbak, live, nginx, rpc, snap, killed>>

\* mv -f; from here on the EXIT trap is set.
Move(x, from, to) ==
  /\ \/ /\ Fine /\ To(from, to)
        /\ disk' = [disk EXCEPT ![x] = tmp[x]]
        /\ tmp' = [tmp EXCEPT ![x] = NoFile]
     \/ Mishap /\ To(from, "back.cert") /\ UNCHANGED <<disk, tmp>>
  /\ UNCHANGED <<lineage, renewbak, rotbak, live, nginx, lock, rpc, exit, snap, killed>>

\* Mutant: reload-or-restart is not called.
ReloadNothing ==
  /\ Fine /\ To("reload", "commit")
  /\ UNCHANGED <<lineage, files, live, nginx, lock, rpc, exit, snap, killed>>

\* sing-box check, reload-or-restart (a restart: the unit has no
\* ExecReload), is-active.
Reload ==
  /\ \/ /\ Matches(disk) /\ Fine /\ live' = Started /\ To("reload", "commit")
     \/ /\ \/ ~Matches(disk) /\ Fine /\ UNCHANGED live
           \/ Mishap /\ live' \in {live, Started, Down}
        /\ To("reload", "back.cert")
  /\ UNCHANGED <<lineage, files, nginx, lock, rpc, exit, snap, killed>>

\* committed=1, and the traps are cleared.
Commit ==
  /\ Fine
  /\ To("commit", "clean")
  /\ UNCHANGED <<lineage, files, live, nginx, lock, rpc, exit, snap, killed>>

Clean ==
  /\ Fine
  /\ To("clean", "nginx")
  /\ renewbak' = Both(NoFile)
  /\ UNCHANGED <<lineage, disk, tmp, rotbak, live, nginx, lock, rpc, exit, snap,
                 killed>>

\* nginx serves certbot's own files and only has to load them.
ReloadNginx ==
  /\ \/ Fine /\ nginx' = lineage /\ Ends("nginx", "ok")
     \/ Mishap /\ UNCHANGED nginx /\ Ends("nginx", "nginx failed")
  /\ UNCHANGED <<lineage, files, live, rpc, snap, killed>>

\* Mutant: only the certificate is put back.
BackSkips(x, from, to) ==
  /\ Fine /\ To(from, to)
  /\ disk' = IF x = "key" \/ renewbak[x] = NoFile THEN disk
             ELSE [disk EXCEPT ![x] = renewbak[x]]
  /\ renewbak' = [renewbak EXCEPT ![x] = NoFile]
  /\ tmp' = IF x = "key" THEN Both(NoFile) ELSE tmp
  /\ UNCHANGED <<lineage, rotbak, live, nginx, lock, rpc, exit, snap, killed>>

\* rollback_renewal, under set +e: each move may fail and is not looked at.
Back(x, from, to) ==
  /\ To(from, to)
  /\ \/ /\ Fine
        /\ IF renewbak[x] = NoFile THEN UNCHANGED <<disk, renewbak>>
           ELSE /\ disk' = [disk EXCEPT ![x] = renewbak[x]]
                /\ renewbak' = [renewbak EXCEPT ![x] = NoFile]
     \/ Mishap /\ UNCHANGED <<disk, renewbak>>
  /\ tmp' = IF x = "key" THEN Both(NoFile) ELSE tmp
  /\ UNCHANGED <<lineage, rotbak, live, nginx, lock, rpc, exit, snap, killed>>

BackReload ==
  /\ \/ Matches(disk) /\ Fine /\ live' = Started
     \/ ~Matches(disk) /\ Fine /\ UNCHANGED live
     \/ Mishap /\ live' \in {live, Started, Down}
  /\ Ends("back.reload", "restored")
  /\ UNCHANGED <<lineage, files, nginx, rpc, snap, killed>>

Trapped == {"move.cert", "move.key", "reload", "commit"}

\* TERM or INT: the traps run the rollback; outside them bash just ends.
Terminated ==
  /\ pc # "idle"
  /\ Mishap
  /\ IF pc \in Trapped
     THEN pc' = "back.cert" /\ UNCHANGED <<exit, lock>>
     ELSE Ends(pc, "killed")
  /\ UNCHANGED <<lineage, files, live, nginx, rpc, snap, killed>>

Killed ==
  /\ pc # "idle"
  /\ Mishap
  /\ Ends(pc, "killed")
  /\ killed' = TRUE
  /\ UNCHANGED <<lineage, files, live, nginx, rpc, snap>>

HookStep ==
  \/ Stage \/ Lock \/ Stale
  \/ Keep("cert", "keep.cert", "keep.key") \/ Keep("key", "keep.key", "move.cert")
  \/ Move("cert", "move.cert", "move.key") \/ Move("key", "move.key", "reload")
  \/ Reload \/ Commit \/ Clean \/ ReloadNginx
  \/ Back("cert", "back.cert", "back.key") \/ Back("key", "back.key", "back.reload")
  \/ BackReload

----------------------------------------------------------------------------
(* vpn-admin restore, as far as it touches the pair; see BackupRestore.    *)

RTo(from, to) == rpc = from /\ rpc' = to
hook == <<lineage, tmp, renewbak, nginx, pc, exit, snap>>

RestoreBegins ==
  /\ lock = Nobody /\ lock' = "admin"
  /\ rotbak = Both(NoFile) /\ rotbak' = disk
  /\ RTo("idle", "cert") /\ Fine
  /\ UNCHANGED <<hook, disk, live, killed>>

RestorePart(x, to) ==
  /\ disk' = [disk EXCEPT ![x] = 0]
  /\ RTo(x, to) /\ Fine
  /\ UNCHANGED <<hook, rotbak, live, lock, killed>>

\* Mutant: the lock outlives the command.
RestoreEndsLocked ==
  /\ RTo("apply", "idle") /\ Fine
  /\ live' = Started
  /\ rotbak' = Both(NoFile)
  /\ UNCHANGED <<hook, disk, lock, killed>>

RestoreEnds ==
  /\ RTo("apply", "idle") /\ Fine
  /\ lock' = Nobody
  /\ live' = Started
  /\ rotbak' = Both(NoFile)
  /\ UNCHANGED <<hook, disk, killed>>

\* Any step fails: both files are put back and sing-box restarted.
RestoreFails ==
  /\ rpc # "idle" /\ rpc' = "idle" /\ Mishap
  /\ lock' = Nobody
  /\ disk' = rotbak /\ rotbak' = Both(NoFile)
  /\ live' = IF Matches(rotbak) THEN rotbak["cert"] ELSE Down
  /\ UNCHANGED <<hook, killed>>

RestoreKilled ==
  /\ rpc # "idle" /\ rpc' = "idle" /\ Mishap
  /\ lock' = Nobody /\ killed' = TRUE
  /\ UNCHANGED <<hook, disk, rotbak, live>>

RestoreStep == RestorePart("cert", "key") \/ RestorePart("key", "apply")
               \/ RestoreEnds

\* sing-box is restarted for another reason, or by systemd when down.
SingBoxRestarts ==
  /\ live' = Started
  /\ UNCHANGED <<lineage, files, nginx, lock, pc, rpc, exit, snap, killed, mishaps>>

----------------------------------------------------------------------------
CertInit ==
  /\ lineage = 1
  /\ disk = Both(1) /\ tmp = Both(NoFile)
  /\ renewbak = Both(NoFile) /\ rotbak = Both(NoFile)
  /\ live = 1 /\ nginx = 1
  /\ lock = Nobody /\ pc = "idle" /\ rpc = "idle"
  /\ exit = "none" /\ snap = Both(1) /\ killed = FALSE /\ mishaps = 0

CertNext ==
  \/ Renew \/ HookStep \/ Terminated \/ Killed
  \/ RestoreBegins \/ RestoreStep \/ RestoreFails \/ RestoreKilled
  \/ SingBoxRestarts

CertSpec == CertInit /\ [][CertNext]_cvars

\* certbot keeps renewing (its timer), a hook or a restore that runs goes on,
\* and flock is granted to a hook that waits for it.
CertFairness ==
  /\ WF_cvars(Renew) /\ WF_cvars(HookStep) /\ SF_cvars(Lock)
  /\ WF_cvars(RestoreStep)

FairCertSpec == CertSpec /\ CertFairness

----------------------------------------------------------------------------
\* However renewals and restores are cut short and repeated, some matching
\* pair is still on the host: every half is in place or in a backup.
PairRecoverable ==
  \E v \in {disk["cert"], renewbak["cert"], rotbak["cert"]} \ {NoFile, Torn} :
    v \in {disk["key"], renewbak["key"], rotbak["key"]}

\* The hook serializes with backup, restore and rotation: short of a KILL,
\* whoever takes the lock after one failure or signal finds a matching pair.
PairMatchesUnlocked ==
  lock = Nobody /\ mishaps <= 1 /\ ~killed => Matches(disk)

\* A hook that ends well has installed the renewed pair, sing-box has loaded
\* it (and has not been restarted since on another), and no backup is left
\* to stop the next renewal.
RenewedMeansLoaded ==
  [][exit' = "ok" /\ exit # "ok" =>
       /\ disk' = Both(lineage) /\ live' = lineage
       /\ renewbak' = Both(NoFile)]_cvars

\* "previous Hysteria2 certificate/key were restored": with a single failure
\* or signal that is so.  A move of the rollback that fails too is not noticed.
UndoneMeansPrevious ==
  [][exit' = "restored" /\ exit # "restored" /\ mishaps' <= 1 =>
       /\ disk' = snap
       /\ renewbak' = Both(NoFile)
       /\ Matches(snap) => live' = snap["cert"]]_cvars

\* What the hook reports is so, whichever way it ends.
HookReportTrue == RenewedMeansLoaded /\ UndoneMeansPrevious

\* A hook that certbot runs ends, whatever it meets and however often
\* vpn-admin takes the lock before it.
HookEnds == pc # "idle" ~> pc = "idle"
=============================================================================
