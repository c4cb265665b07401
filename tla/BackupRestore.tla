---------------------------- MODULE BackupRestore ----------------------------
(***************************************************************************)
(* `vpn-admin backup' and `vpn-admin restore'.  Restore validates an       *)
(* archive, keeps a .rotate-bak sibling of every file it may replace,      *)
(* installs users.json and the key files one at a time, applies the        *)
(* document rendered from them, restarts vpn-subscription, and only then   *)
(* deletes the siblings; a failure on the way puts every file back and     *)
(* applies the previous state again.  It shares siblings, lock and         *)
(* services with the key rotations, which run beside it here.              *)
(*                                                                         *)
(* The Hysteria2 certificate and key take the same steps as the key files  *)
(* and are left out; they are the subject of CertRenewal.                  *)
(***************************************************************************)
EXTENDS KeyRotation

CONSTANT Archives   \* archives made earlier: records of users and keys

ASSUME ArchivesAssumption ==
  \A a \in Archives : a.users \subseteq CompatUser /\ a.keys \in KeyState

VARIABLES
  archive,   \* the archive at hand
  ubak,      \* users.json.rotate-bak
  phase,     \* which call of regenerate_singbox_config a restore is in
  kept       \* history: users.json as last committed

restoring == <<archive, ubak, phase, kept>>
bvars == <<rvars, restoring>>

\* BACKUP_MANIFEST, in the order backups are made and files installed, and
\* in the order files are put back and siblings deleted.
UsersFile == "users.json"
Targets == <<"private.key", "public.key", "short_id.txt", ObfsFile>>
Manifest == <<UsersFile>> \o Targets
Backwards == Targets \o <<UsersFile>>

Content(f) == IF f = UsersFile THEN users ELSE keys[f]
Archived(f) == IF f = UsersFile THEN archive.users ELSE archive.keys[f]
Sibling(f) == IF f = UsersFile THEN ubak ELSE keybak[f]

WriteFile(f, v) ==
  IF f = UsersFile THEN users' = v /\ UNCHANGED keys
  ELSE keys' = [keys EXCEPT ![f] = v] /\ UNCHANGED users

WriteSiblings(F, v) ==
  /\ ubak' = IF UsersFile \in F THEN v ELSE ubak
  /\ keybak' = [f \in KeyFile |-> IF f \in F THEN v ELSE keybak[f]]

\* One round of a loop over `files'.
Round(p, files, from, to) ==
  /\ Goto(p, from, IF i[p] = Len(files) THEN to ELSE from)
  /\ i' = [i EXCEPT ![p] = IF i[p] = Len(files) THEN 1 ELSE @ + 1]

\* What a step of a restore leaves alone, beside the disk and the services.
still == <<now, lock, fresh, cmd, prev, doc, gen, had, snap, archive>>

----------------------------------------------------------------------------
\* cmd_backup copies the files while it holds the state lock, which every
\* writer of them takes; files that do not exist are skipped.
BackupToArchive(p) ==
  /\ lock = Nobody
  /\ pc[p] = "idle"
  /\ archive' = [users |-> users, keys |-> keys]
  /\ UNCHANGED <<rvars, ubak, phase, kept>>

BeginRestore(p) ==
  /\ lock = Nobody
  /\ lock' = p
  /\ Goto(p, "idle", "s.validate")
  /\ cmd' = [cmd EXCEPT ![p] = "restore"]
  /\ had' = [had EXCEPT ![p] = {f \in KeyFile : keys[f] # NoFile}]
  /\ snap' = [snap EXCEPT ![p] =
                [users |-> users, keys |-> keys, keybak |-> keybak]]
  /\ UNCHANGED <<disk, services, now, prev, cand, doc, req, ret, fresh,
                 mishaps, keybak, gen, i, flags, committed, restoring>>

\* The REALITY files are restored as one matching set or not at all: a bad
\* archive is refused, as is one when a service is not controllable.
Validate(p) ==
  /\ \/ Coherent(archive.keys) /\ Fine /\ UNCHANGED ret
        /\ Goto(p, "s.validate", "s.backup")
     \/ /\ \/ ~Coherent(archive.keys) /\ Fine
           \/ Coherent(archive.keys) /\ Mishap
        /\ Finish(p, "s.validate", "refused")
  /\ UNCHANGED <<disk, services, still, cand, req, keybak, i, flags,
                 committed, ubak, phase, kept>>

\* Mutant: a stale sibling is overwritten.
PrepareAnyway(p) ==
  LET f == Manifest[i[p]] IN
  /\ WriteSiblings({f}, Content(f))
  /\ Round(p, Manifest, "s.backup", "s.install")
  /\ Fine
  /\ UNCHANGED <<disk, services, still, cand, req, ret, flags, committed,
                 phase, kept>>

\* backup_for_rotate for each file in turn.
PrepareBackup(p) ==
  LET f == Manifest[i[p]] IN
  /\ Sibling(f) = NoFile
  /\ WriteSiblings({f}, Content(f))
  /\ Round(p, Manifest, "s.backup", "s.install")
  /\ Fine
  /\ UNCHANGED <<disk, services, still, cand, req, ret, flags, committed,
                 phase, kept>>

\* A stale sibling, or a copy that fails, half made or not: the siblings
\* this restore completed are removed.
PrepareFails(p) ==
  LET f == Manifest[i[p]]
      prepared == {Manifest[n] : n \in 1 .. i[p] - 1}
  IN /\ Finish(p, "s.backup", "refused")
     /\ \/ Sibling(f) # NoFile /\ Fine /\ WriteSiblings(prepared, NoFile)
        \/ Sibling(f) = NoFile /\ Mishap /\ WriteSiblings(prepared, NoFile)
        \/ /\ Sibling(f) = NoFile /\ Content(f) # NoFile /\ Mishap
           /\ ubak' = IF f = UsersFile THEN Torn ELSE NoFile
           /\ keybak' = [g \in KeyFile |->
                           IF g = f THEN Torn
                           ELSE IF g \in prepared THEN NoFile ELSE keybak[g]]
     /\ UNCHANGED <<disk, services, still, cand, req, i, flags, committed,
                    phase, kept>>

\* save_users_atomic, then install_rotated_key_file for every file the
\* archive has.
InstallArchived(p) ==
  LET f == Manifest[i[p]] IN
  /\ IF Archived(f) = NoFile THEN UNCHANGED <<users, keys>>
     ELSE WriteFile(f, Archived(f))
  /\ Round(p, Manifest, "s.install", "s.apply")
  /\ Fine
  /\ UNCHANGED <<config, bak, stamp, services, still, cand, req, ret, flags,
                 keybak, committed, ubak, phase, kept>>

\* The write fails, or the ownership of the written file cannot be set.
InstallArchivedFails(p) ==
  LET f == Manifest[i[p]] IN
  /\ Archived(f) # NoFile
  /\ UNCHANGED <<users, keys>> \/ WriteFile(f, Archived(f))
  /\ Mishap
  /\ Break(p, "s.install", "s.rollback")
  /\ UNCHANGED <<config, bak, stamp, services, still, cand, req, ret, flags,
                 keybak, committed, ubak, phase, kept>>

\* regenerate_singbox_config(cfg, true): load users.json, render and apply.
Regenerate(p, from, ph) ==
  /\ Goto(p, from, "render")
  /\ cand' = [cand EXCEPT ![p] = users]
  /\ req' = [req EXCEPT ![p] = TRUE]
  /\ phase' = [phase EXCEPT ![p] = ph]
  /\ Fine
  /\ UNCHANGED <<disk, services, still, ret, i, flags, keybak, committed,
                 ubak, kept>>

ApplyRestored(p) == Regenerate(p, "s.apply", "apply")

\* Only an error is looked at: Ok(false), written but not loaded, goes on.
Returned(p) ==
  /\ pc[p] \in {"save", "done"}
  /\ phase[p] # "no"
  /\ pc' = [pc EXCEPT ![p] = IF phase[p] = "undo" THEN "s.rsub"
                             ELSE IF ret[p] = "err" THEN "s.rollback"
                             ELSE "s.sub"]
  /\ Flag(p, CASE phase[p] = "undo" /\ ret[p] = "err" -> {"failed"}
               [] phase[p] = "apply" /\ ret[p] = "notlive" -> {"notlive"}
               [] OTHER -> {})
  /\ phase' = [phase EXCEPT ![p] = "no"]
  /\ UNCHANGED <<disk, services, still, cand, req, ret, mishaps, i, keybak,
                 committed, ubak, kept>>

\* Mutant: vpn-subscription keeps running with what it has read.
SkipSubscription(p) ==
  /\ Goto(p, "s.sub", "s.clean")
  /\ committed' = keys /\ kept' = users
  /\ UNCHANGED <<disk, services, still, cand, req, ret, mishaps, i, flags,
                 keybak, ubak, phase>>

\* vpn-subscription is restarted; out of systemctl's reach it is only
\* warned about.
RestartRestored(p) ==
  /\ \/ /\ \/ SubReloadOk /\ NoFlag
           \/ Mishap /\ UNCHANGED adv /\ Flag(p, {"notlive"})
        /\ Goto(p, "s.sub", "s.clean")
        /\ committed' = keys /\ kept' = users
     \/ /\ SubReloadFails /\ NoFlag
        /\ Goto(p, "s.sub", "s.rollback")
        /\ UNCHANGED <<committed, kept>>
  /\ UNCHANGED <<disk, live, still, cand, req, ret, i, keybak, ubak, phase>>

\* The siblings are deleted, errors ignored; then success is printed.
RemoveSiblings(p) ==
  /\ \/ Fine /\ WriteSiblings({Backwards[i[p]]}, NoFile)
     \/ Mishap /\ UNCHANGED <<ubak, keybak>>
  /\ Round(p, Backwards, "s.clean", "done")
  /\ ret' = [ret EXCEPT ![p] = IF i[p] = Len(Backwards) THEN "restored" ELSE @]
  /\ UNCHANGED <<disk, services, still, cand, req, flags, committed, phase,
                 kept>>

----------------------------------------------------------------------------
(* rollback: every part is attempted, whatever failed before.              *)

\* Mutant: only the key files are put back.
PutBackKeys(p) ==
  LET f == Backwards[i[p]] IN
  /\ Fine
  /\ IF f = UsersFile \/ (f \in had[p] /\ Sibling(f) = NoFile)
     THEN UNCHANGED <<users, keys, ubak, keybak>>
     ELSE WriteFile(f, Sibling(f)) /\ WriteSiblings({f}, NoFile)
  /\ Round(p, Backwards, "s.rollback", "s.undo")
  /\ UNCHANGED <<config, bak, stamp, services, still, cand, req, ret, flags,
                 committed, phase, kept>>

\* The sibling is renamed back; a file that was not there is removed.
PutBack(p) ==
  LET f == Backwards[i[p]] IN
  /\ \/ /\ Fine /\ NoFlag
        /\ IF f \in had[p] \cup {UsersFile} /\ Sibling(f) = NoFile
           THEN UNCHANGED <<users, keys, ubak, keybak>>
           ELSE WriteFile(f, Sibling(f)) /\ WriteSiblings({f}, NoFile)
     \/ /\ Mishap /\ Flag(p, {"failed"})
        /\ UNCHANGED <<users, keys, ubak, keybak>>
  /\ Round(p, Backwards, "s.rollback", "s.undo")
  /\ UNCHANGED <<config, bak, stamp, services, still, cand, req, ret,
                 committed, phase, kept>>

ApplyPrevious(p) == Regenerate(p, "s.undo", "undo")

\* Here a subscription service out of reach is an error.
RestartPrevious(p) ==
  /\ \/ /\ SubReloadOk
        /\ Finish(p, "s.rsub", IF "failed" \in flags[p] THEN "err"
                               ELSE "rolledback")
     \/ SubReloadFails /\ Finish(p, "s.rsub", "err")
  /\ UNCHANGED <<disk, live, still, cand, req, i, flags, keybak, committed,
                 ubak, phase, kept>>

Restore(p) ==
  \/ Validate(p) \/ PrepareBackup(p) \/ PrepareFails(p)
  \/ InstallArchived(p) \/ InstallArchivedFails(p) \/ ApplyRestored(p)
  \/ Returned(p) \/ RestartRestored(p) \/ RemoveSiblings(p)
  \/ PutBack(p) \/ ApplyPrevious(p) \/ RestartPrevious(p)

----------------------------------------------------------------------------
ForgetRestore(S) ==
  /\ Forget(S)
  /\ phase' = [p \in Proc |-> IF p \in S THEN "no" ELSE phase[p]]
  /\ UNCHANGED <<archive, ubak, kept>>

RestoreStep(p) ==
  \/ cmd[p] = "restore" /\ Restore(p)
  \/ cmd[p] \in Rotation /\ Rotate(p) /\ UNCHANGED restoring
  \/ pc[p] # "idle" /\ RenderAndApply(p)
     /\ UNCHANGED <<keybak, rotlocals, committed, restoring>>
  \/ phase[p] = "no" /\ Exit(p) /\ ForgetRestore({p})

RestoreNext ==
  \/ \E p \in Operator : BackupToArchive(p) \/ BeginRestore(p)
  \/ \E p \in Operator, c \in Rotation :
       BeginRotate(p, c) /\ UNCHANGED restoring
  \/ RotReconcile /\ UNCHANGED restoring
  \/ \E p \in Proc : RestoreStep(p)
  \/ \E p \in Proc : Kill(p) /\ ForgetRestore({p})
  \/ Reboot /\ ForgetRestore(Proc)
  \/ Weather /\ UNCHANGED <<keybak, rotlocals, committed, restoring>>

RestoreInit ==
  /\ RotInit
  /\ archive \in Archives
  /\ ubak = NoFile
  /\ phase = [p \in Proc |-> "no"]
  /\ kept = users

RestoreSpec == RestoreInit /\ [][RestoreNext]_bvars

----------------------------------------------------------------------------
Restored(p) == pc[p] = "done" /\ cmd[p] = "restore" /\ ret[p] = "restored"

\* A restore whose two restarts were acknowledged leaves users.json, the key
\* files and the running vpn-subscription on the archived state, also when
\* the archive lacks the obfuscation password, and the running sing-box too
\* if nothing went wrong earlier (rotations do not update the applied stamp,
\* so after a failure a restored document may be taken for the running one).
RestoredMeansAgreement ==
  \A p \in Proc : Restored(p) /\ "notlive" \notin flags[p] =>
    /\ users = archive.users
    /\ \A f \in KeyFile : archive.keys[f] # NoFile => keys[f] = archive.keys[f]
    /\ adv # Down => adv = Advertised(keys)
    /\ mishaps = 0 => Agree(live, adv) /\ live = doc[p]

\* "Rollback restored and reloaded the complete previous state.": with one
\* thing gone wrong, every file is back, no sibling is left, and both
\* services run the previous users and keys (at the current time).
RestoreRolledBack ==
  \A p \in Proc :
    mishaps <= 1 /\ cmd[p] = "restore" /\ pc[p] = "done" /\ ret[p] = "rolledback" =>
      /\ users = snap[p].users /\ keys = snap[p].keys
      /\ live = doc[p] /\ adv = Advertised(snap[p].keys)
      /\ \A f \in KeyFile : keybak[f] = NoFile
      /\ ubak = NoFile

\* A restore or a rotation that reports success leaves files and both
\* services on one state, the restored or the new one.
ChangedMeansAgreement == RestoredMeansAgreement /\ RotatedMeansAgreement

\* A restore or a rotation that reports a complete rollback has undone it all.
RolledBackMeansPrevious == RestoreRolledBack /\ RolledBackMeansUnchanged

\* Until a restore or a rotation has been verified, what it replaces is in
\* place or complete in a .rotate-bak sibling, wherever it is killed and
\* however often it is tried again.
PreviousStateRecoverable ==
  /\ kept \in {users, ubak}
  /\ OldKeysetRecoverable
=============================================================================
