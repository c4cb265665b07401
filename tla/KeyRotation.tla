----------------------------- MODULE KeyRotation -----------------------------
(***************************************************************************)
(* cmd_reality_rotate and cmd_hysteria_obfs_rotate: back up the key files, *)
(* install the new ones, apply the document rendered with them, restart    *)
(* both services, self-test, and only then delete the backups; any failure *)
(* after the first file is touched restores files, config.json and both    *)
(* services.  The two commands take the same steps over different files.   *)
(* The reconciliation timer runs beside them.                              *)
(***************************************************************************)
EXTENDS ApplyConfig, Sequences

VARIABLES
  keybak,     \* the .rotate-bak sibling of each key file
  gen,        \* the new secret of the rotation a process runs
  i,          \* the file its current loop is at
  had,        \* `existed': the files that were there when it began
  flags,      \* config_applied and the failures of its rollback
  snap,       \* history: key files and services when it began
  committed   \* history: the keyset of the last finished rotation

rotlocals == <<gen, i, had, flags, snap>>
rvars == <<vars, keybak, rotlocals, committed>>

Rotation == {"reality-rotate", "obfs-rotate"}
Files(c) == IF c = "reality-rotate"
            THEN <<"private.key", "public.key", "short_id.txt">>
            ELSE <<ObfsFile>>
FileSet(c) == {Files(c)[n] : n \in DOMAIN Files(c)}

\* The file the loop of process p is at.
File(p) == Files(cmd[p])[i[p]]
LastFile(p) == i[p] = Len(Files(cmd[p]))

\* One round of a loop over the files: `from' again, or on to `to'.
Loop(p, from, to) ==
  /\ Goto(p, from, IF LastFile(p) THEN to ELSE from)
  /\ i' = [i EXCEPT ![p] = IF LastFile(p) THEN 1 ELSE @ + 1]

\* Leave a loop or a step for another loop.
Break(p, from, to) ==
  /\ Goto(p, from, to)
  /\ i' = [i EXCEPT ![p] = 1]

Flag(p, fs) == flags' = [flags EXCEPT ![p] = @ \cup fs]
NoFlag == UNCHANGED flags

Finish(p, from, r) ==
  /\ Goto(p, from, "done")
  /\ ret' = [ret EXCEPT ![p] = r]

\* cmd, prev, cand, doc and req are fixed once a rotation has begun.
constlocals == <<cmd, prev, cand, doc, req, gen, had, snap>>

Rotated(ks, c, g) == [f \in KeyFile |-> IF f \in FileSet(c) THEN g ELSE ks[f]]

\* Lock, draw the new secret, render and check the candidate document.
\* Rotating the obfuscation password needs the current REALITY keyset.
BeginRotate(p, c) ==
  /\ lock = Nobody
  /\ fresh < MaxFresh
  /\ c = "obfs-rotate" => Coherent(keys)
  /\ lock' = p
  /\ fresh' = fresh + 1
  /\ Goto(p, "idle", "r.check")
  /\ cmd' = [cmd EXCEPT ![p] = c]
  /\ gen' = [gen EXCEPT ![p] = fresh]
  /\ doc' = [doc EXCEPT ![p] = render_singbox_server_config(users,
                                 Rotated(keys, c, fresh), now)]
  /\ had' = [had EXCEPT ![p] = {f \in FileSet(c) : keys[f] # NoFile}]
  /\ snap' = [snap EXCEPT ![p] = [keys |-> keys, live |-> live, adv |-> adv]]
  /\ UNCHANGED <<disk, services, now, prev, cand, req, ret, mishaps, keybak,
                 i, flags, committed>>

\* The candidate is staged and checked and both services are controllable;
\* if not, nothing has been touched.
CheckRotate(p) ==
  /\ \/ Fine /\ Goto(p, "r.check", "r.backup") /\ UNCHANGED ret
     \/ Mishap /\ Finish(p, "r.check", "err")
  /\ UNCHANGED <<disk, services, now, lock, fresh, constlocals, keybak, i,
                 flags, committed>>

\* backup_for_rotate creates the sibling, copies into it and syncs it; a
\* stale sibling of an earlier rotation is never overwritten.
BackupFile(p) ==
  /\ keybak[File(p)] = NoFile
  /\ \/ /\ keys[File(p)] = NoFile
        /\ Loop(p, "r.backup", "r.install")
        /\ UNCHANGED keybak
     \/ /\ keys[File(p)] # NoFile
        /\ Goto(p, "r.backup", "r.copying")
        /\ keybak' = [keybak EXCEPT ![File(p)] = Torn]
        /\ UNCHANGED i
  /\ Fine
  /\ UNCHANGED <<disk, services, now, lock, fresh, constlocals, ret, flags,
                 committed>>

FillBackup(p) ==
  /\ keybak' = [keybak EXCEPT ![File(p)] = keys[File(p)]]
  /\ Goto(p, "r.copying", IF LastFile(p) THEN "r.install" ELSE "r.backup")
  /\ i' = [i EXCEPT ![p] = IF LastFile(p) THEN 1 ELSE @ + 1]
  /\ Fine
  /\ UNCHANGED <<disk, services, now, lock, fresh, constlocals, ret, flags,
                 committed>>

\* Only the backups this attempt completed are removed; a file whose copy
\* failed keeps its unfinished sibling.
BackupFails(p) ==
  /\ \/ pc[p] = "r.backup" /\ keybak[File(p)] # NoFile /\ Fine
     \/ pc[p] \in {"r.backup", "r.copying"} /\ Mishap
  /\ keybak' = [f \in KeyFile |->
                  IF \E n \in 1 .. i[p] - 1 :
                       Files(cmd[p])[n] = f /\ f \in had[p]
                  THEN NoFile ELSE keybak[f]]
  /\ pc' = [pc EXCEPT ![p] = "done"]
  /\ ret' = [ret EXCEPT ![p] = "err"]
  /\ UNCHANGED <<disk, services, now, lock, fresh, constlocals, i, flags,
                 committed>>

----------------------------------------------------------------------------
\* install_rotated_key_file: temporary file, fsync, rename.
InstallFile(p) ==
  /\ keys' = [keys EXCEPT ![File(p)] = gen[p]]
  /\ Loop(p, "r.install", "r.keep")
  /\ Fine
  /\ UNCHANGED <<users, config, bak, stamp, services, now, lock, fresh,
                 constlocals, ret, keybak, flags, committed>>

\* The REALITY rotation rolls back; the obfuscation rotation has changed
\* nothing yet and only removes its backup.
InstallFails(p) ==
  /\ Mishap
  /\ \/ /\ cmd[p] = "reality-rotate"
        /\ Break(p, "r.install", "r.restore")
        /\ UNCHANGED <<ret, keybak>>
     \/ /\ cmd[p] = "obfs-rotate"
        /\ Finish(p, "r.install", "err")
        /\ keybak' = [keybak EXCEPT ![ObfsFile] = NoFile]
        /\ UNCHANGED i
  /\ UNCHANGED <<disk, services, now, lock, fresh, constlocals, flags,
                 committed>>

KeepConfig(p) ==
  /\ CopyToBackup
  /\ Fine
  /\ Goto(p, "r.keep", "r.swap")
  /\ UNCHANGED <<services, now, lock, fresh, constlocals, ret, keybak, i,
                 flags, committed>>

SwapConfig(p) ==
  /\ SwapIn(doc[p])
  /\ Fine
  /\ Goto(p, "r.swap", "r.reload")
  /\ Flag(p, {"config_applied"})
  /\ UNCHANGED <<services, now, lock, fresh, constlocals, ret, keybak, i,
                 committed>>

\* The config write fails, or (first enable of obfuscation) the ownership
\* of the new file cannot be set.
ApplyRotatedFails(p) ==
  /\ Mishap
  /\ Break(p, "r.keep", "r.restore") \/ Break(p, "r.swap", "r.restore")
  /\ UNCHANGED <<disk, services, now, lock, fresh, constlocals, ret, keybak,
                 flags, committed>>

\* sing-box is restarted unless systemctl no longer answers.
ReloadRotated(p) ==
  /\ \/ ReloadOk /\ Goto(p, "r.reload", "r.sub") /\ NoFlag /\ UNCHANGED i
     \/ /\ Mishap /\ UNCHANGED live
        /\ Goto(p, "r.reload", "r.sub") /\ Flag(p, {"notlive"}) /\ UNCHANGED i
     \/ ReloadFails /\ Break(p, "r.reload", "r.restore") /\ NoFlag
  /\ UNCHANGED <<disk, adv, now, lock, fresh, constlocals, ret, keybak,
                 committed>>

\* Mutant: the subscription service is reloaded, which re-reads nothing.
SubReloadsNothing == SubStarted # Down /\ UNCHANGED adv /\ Fine

SubReloadOk == SubStarted # Down /\ adv' = SubStarted /\ Fine
SubReloadFails ==
  \/ SubStarted = Down /\ adv' = Down /\ Fine
  \/ adv' \in {adv, SubStarted, Down} /\ Mishap

\* vpn-subscription reads its key material once, at startup.
RestartSubscription(p) ==
  /\ \/ SubReloadOk /\ Goto(p, "r.sub", "r.selftest") /\ NoFlag /\ UNCHANGED i
     \/ /\ Mishap /\ UNCHANGED adv
        /\ Goto(p, "r.sub", "r.selftest") /\ Flag(p, {"notlive"}) /\ UNCHANGED i
     \/ SubReloadFails /\ Break(p, "r.sub", "r.restore") /\ NoFlag
  /\ UNCHANGED <<disk, live, now, lock, fresh, constlocals, ret, keybak,
                 committed>>

\* Run by the REALITY rotation only, and only when both services are live.
SelfTestRotated(p) ==
  /\ \/ /\ Fine
        /\ Goto(p, "r.selftest", "r.commit")
        /\ committed' = keys
        /\ UNCHANGED i
     \/ /\ cmd[p] = "reality-rotate" /\ "notlive" \notin flags[p]
        /\ Mishap
        /\ Break(p, "r.selftest", "r.restore")
        /\ UNCHANGED committed
  /\ UNCHANGED <<disk, services, now, lock, fresh, constlocals, ret, keybak,
                 flags>>

\* remove_rotate_backup ignores errors.
RemoveBackup(p) ==
  /\ \/ Fine /\ keybak' = [keybak EXCEPT ![File(p)] = NoFile]
     \/ Mishap /\ UNCHANGED keybak
  /\ Loop(p, "r.commit", "done")
  /\ ret' = [ret EXCEPT ![p] = IF ~LastFile(p) THEN @
                               ELSE IF "notlive" \in flags[p] THEN "notlive"
                               ELSE "live"]
  /\ UNCHANGED <<disk, services, now, lock, fresh, constlocals, flags,
                 committed>>

----------------------------------------------------------------------------
(* The rollback closure: every part is attempted, whatever failed before.  *)

\* Mutant: a file that did not exist before is left behind.
RestoreOnlyOld(p) ==
  /\ Fine
  /\ IF File(p) \in had[p] /\ keybak[File(p)] # NoFile
     THEN /\ keys' = [keys EXCEPT ![File(p)] = keybak[File(p)]]
          /\ keybak' = [keybak EXCEPT ![File(p)] = NoFile]
     ELSE UNCHANGED <<keys, keybak>>
  /\ NoFlag
  /\ Loop(p, "r.restore", "r.copyback")
  /\ UNCHANGED <<users, config, bak, stamp, services, now, lock, fresh,
                 constlocals, ret, committed>>

RestoreFile(p) ==
  /\ \/ /\ Fine
        /\ IF File(p) \in had[p]
           THEN IF keybak[File(p)] = NoFile
                THEN UNCHANGED <<keys, keybak>>
                ELSE /\ keys' = [keys EXCEPT ![File(p)] = keybak[File(p)]]
                     /\ keybak' = [keybak EXCEPT ![File(p)] = NoFile]
           ELSE /\ keys' = [keys EXCEPT ![File(p)] = NoFile]
                /\ UNCHANGED keybak
        /\ NoFlag
     \/ /\ Mishap
        /\ UNCHANGED <<keys, keybak>>
        /\ Flag(p, {"failed"})
  /\ Loop(p, "r.restore", "r.copyback")
  /\ UNCHANGED <<users, config, bak, stamp, services, now, lock, fresh,
                 constlocals, ret, committed>>

\* config.json is put back only if the candidate had been swapped in.
RollbackConfig(p) ==
  /\ \/ /\ "config_applied" \notin flags[p] /\ Fine /\ NoFlag
        /\ Goto(p, "r.copyback", "r.rsing") /\ UNCHANGED disk
     \/ /\ "config_applied" \in flags[p] /\ Fine /\ NoFlag
        /\ CopyBackBegins
        /\ Goto(p, "r.copyback", "r.copying2")
     \/ /\ "config_applied" \in flags[p] /\ Flag(p, {"failed"})
        /\ \/ bak = NoFile /\ Fine
           \/ bak # NoFile /\ Mishap
        /\ Goto(p, "r.copyback", "r.rsing") /\ UNCHANGED disk
  /\ UNCHANGED <<services, now, lock, fresh, constlocals, ret, keybak, i,
                 committed>>

RollbackConfigEnds(p) ==
  /\ \/ CopyBackEnds /\ Fine /\ NoFlag
     \/ UNCHANGED disk /\ Mishap /\ Flag(p, {"failed"})
  /\ Goto(p, "r.copying2", "r.rsing")
  /\ UNCHANGED <<services, now, lock, fresh, constlocals, ret, keybak, i,
                 committed>>

\* A service that systemctl cannot reach counts as recovered.
RollbackSingBox(p) ==
  /\ \/ ReloadOk /\ NoFlag
     \/ Mishap /\ UNCHANGED live /\ NoFlag
     \/ ReloadFails /\ Flag(p, {"failed"})
  /\ Goto(p, "r.rsing", "r.rsub")
  /\ UNCHANGED <<disk, adv, now, lock, fresh, constlocals, ret, keybak, i,
                 committed>>

RollbackSubscription(p) ==
  /\ \/ /\ \/ SubReloadOk
           \/ Mishap /\ UNCHANGED adv
        /\ Finish(p, "r.rsub", IF "failed" \in flags[p] THEN "err"
                               ELSE "rolledback")
     \/ SubReloadFails /\ Finish(p, "r.rsub", "err")
  /\ UNCHANGED <<disk, live, now, lock, fresh, constlocals, keybak, i, flags,
                 committed>>

Rotate(p) ==
  \/ CheckRotate(p) \/ BackupFile(p) \/ FillBackup(p) \/ BackupFails(p)
  \/ InstallFile(p) \/ InstallFails(p)
  \/ KeepConfig(p) \/ SwapConfig(p) \/ ApplyRotatedFails(p)
  \/ ReloadRotated(p) \/ RestartSubscription(p) \/ SelfTestRotated(p)
  \/ RemoveBackup(p)
  \/ RestoreFile(p) \/ RollbackConfig(p) \/ RollbackConfigEnds(p)
  \/ RollbackSingBox(p) \/ RollbackSubscription(p)

----------------------------------------------------------------------------
Forget(S) ==
  /\ gen' = [p \in Proc |-> IF p \in S THEN 0 ELSE gen[p]]
  /\ i' = [p \in Proc |-> IF p \in S THEN 1 ELSE i[p]]
  /\ had' = [p \in Proc |-> IF p \in S THEN {} ELSE had[p]]
  /\ flags' = [p \in Proc |-> IF p \in S THEN {} ELSE flags[p]]
  /\ snap' = [p \in Proc |-> IF p \in S THEN NoFile ELSE snap[p]]
  /\ UNCHANGED <<keybak, committed>>

RotReconcile ==
  RenderConfig(Timer) /\ UNCHANGED <<keybak, rotlocals, committed>>

RotInit ==
  /\ Init
  /\ keybak = [f \in KeyFile |-> NoFile]
  /\ gen = [p \in Proc |-> 0]
  /\ i = [p \in Proc |-> 1]
  /\ had = [p \in Proc |-> {}]
  /\ flags = [p \in Proc |-> {}]
  /\ snap = [p \in Proc |-> NoFile]
  /\ committed = keys

----------------------------------------------------------------------------
\* What sing-box enforces and what vpn-subscription hands out agree.
Agree(d, a) == d.key = a.pub /\ d.sid = a.sid /\ d.obfs = a.obfs

\* A rotation that reports "rotated and applied" leaves the key files, the
\* running sing-box and the running vpn-subscription on one keyset, the new
\* one, however many things failed before.
RotatedMeansAgreement ==
  \A p \in Proc : pc[p] = "done" /\ cmd[p] \in Rotation /\ ret[p] = "live" =>
    /\ \A f \in FileSet(cmd[p]) : keys[f] = gen[p]
    /\ live # Down /\ adv # Down => Agree(live, adv) /\ live = doc[p]

\* A rotation that reports a complete rollback ("no client-visible change
\* occurred") has put back every key file, and both services run what they
\* ran before, as long as only one thing went wrong.
RolledBackMeansUnchanged ==
  \A p \in Proc :
    mishaps <= 1 /\ cmd[p] \in Rotation /\ pc[p] = "done" /\ ret[p] = "rolledback" =>
      /\ keys = snap[p].keys
      /\ live = snap[p].live
      /\ adv = snap[p].adv
      /\ \A f \in FileSet(cmd[p]) : keybak[f] = NoFile

\* Until a rotation has been verified and starts deleting its backups, every
\* file of the previous keyset is still in place or complete in its
\* .rotate-bak sibling, wherever it is killed and whatever fails; rotations
\* retried over a stale sibling do not overwrite it.
OldKeysetRecoverable ==
  \A f \in KeyFile : committed[f] \in {NoFile, keys[f], keybak[f]}
=============================================================================
