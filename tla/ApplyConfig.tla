----------------------------- MODULE ApplyConfig -----------------------------
(***************************************************************************)
(* render_and_apply_singbox_config (apps/admin/src/main.rs), the function  *)
(* every user command and the reconciliation timer go through: render the  *)
(* document, skip when it is already applied, otherwise back up and swap   *)
(* config.json, restart sing-box, test it, and record the applied          *)
(* fingerprint; on a failed restart or self-test copy the backup over      *)
(* config.json and restart again.  One action per step at which the        *)
(* process can be killed or the call it makes can fail.                    *)
(*                                                                         *)
(* config.json.bak is written by fs::copy too, but every reader of it runs *)
(* after the copy in the same command, so the copy is one step here; the   *)
(* copy back over config.json is two, because sing-box can be started from *)
(* the half-written file.                                                  *)
(***************************************************************************)
EXTENDS VpnHost

\* The caller's next step: a user command publishes users.json once the
\* document is applied; render-config and an undo have nothing left to do.
Return(p, from, r) ==
  /\ Goto(p, from, IF r = "err" \/ cmd[p] \in {"render-config", "undo"}
                   THEN "done" ELSE "save")
  /\ ret' = [ret EXCEPT ![p] = r]

Rendered(p) == render_singbox_server_config(cand[p], keys, now)

\* Mutant: trust config.json, without the record of what was applied.
CurrentOnDisk(d) == config = d /\ live # Down

\* The document is in config.json, recorded as applied, and sing-box is up.
Current(d) ==
  /\ config = d
  /\ stamp = rendered_config_fingerprint(d)
  /\ live # Down

\* The keyset is incomplete or incoherent, or the sing-box binary is missing.
CannotRender(p) ==
  /\ \/ ~Coherent(keys) /\ Fine
     \/ Coherent(keys) /\ Mishap
  /\ Return(p, "render", IF req[p] THEN "err" ELSE "notlive")
  /\ UNCHANGED <<disk, services, now, lock, cmd, prev, cand, doc, req, fresh>>

\* systemctl cannot be run, or does not know the unit.
RefuseUnavailable(p) ==
  /\ Coherent(keys)
  /\ req[p]
  /\ Mishap
  /\ Return(p, "render", "err")
  /\ UNCHANGED <<disk, services, now, lock, cmd, prev, cand, doc, req, fresh>>

AlreadyCurrent(p) ==
  /\ Coherent(keys)
  /\ Current(Rendered(p))
  /\ Fine
  /\ doc' = [doc EXCEPT ![p] = Rendered(p)]
  /\ Return(p, "render", "live")
  /\ UNCHANGED <<disk, services, now, lock, cmd, prev, cand, req, fresh>>

\* The document differs from what is applied, or systemctl did not answer.
MustApply(p) ==
  /\ Coherent(keys)
  /\ \/ ~Current(Rendered(p)) /\ Fine
     \/ Current(Rendered(p)) /\ Mishap
  /\ doc' = [doc EXCEPT ![p] = Rendered(p)]
  /\ Goto(p, "render", "backup")
  /\ UNCHANGED <<disk, services, now, lock, cmd, prev, cand, req, ret, fresh>>

----------------------------------------------------------------------------
(* apply_config_atomically, reload_and_verify and the copy back, without   *)
(* the control state: KeyRotation takes the same steps.                    *)

\* Mutants: move the current file away; keep an older backup.
MoveToBackup ==
  /\ bak' = config
  /\ config' = NoFile
  /\ UNCHANGED <<users, stamp, keys>>
KeepOldBackup ==
  /\ bak' = IF config = NoFile \/ bak # NoFile THEN bak ELSE config
  /\ UNCHANGED <<users, config, stamp, keys>>

\* The candidate passed `sing-box check'; keep the current file.
CopyToBackup ==
  /\ bak' = IF config = NoFile THEN bak ELSE config
  /\ UNCHANGED <<users, config, stamp, keys>>

SwapIn(d) ==
  /\ config' = d
  /\ UNCHANGED <<users, bak, stamp, keys>>

\* restart, then three is-active answers in a row.
ReloadOk ==
  /\ Started # Down
  /\ live' = Started
  /\ Fine

\* systemctl could not be run (the old process stays), sing-box exited, or
\* it runs the new file but was not seen active in time.
ReloadFails ==
  \/ Started = Down /\ live' = Down /\ Fine
  \/ live' \in {live, Started, Down} /\ Mishap

CopyBackBegins ==
  /\ bak # NoFile
  /\ config' = Torn
  /\ UNCHANGED <<users, bak, stamp, keys>>

\* Mutant: the copy stops half way and nobody looks.
CopyBackStops == UNCHANGED disk

CopyBackEnds ==
  /\ config' = bak
  /\ UNCHANGED <<users, bak, stamp, keys>>

----------------------------------------------------------------------------
Backup(p) ==
  /\ CopyToBackup
  /\ Fine
  /\ Goto(p, "backup", "swap")
  /\ UNCHANGED <<services, now, lock, locals, fresh>>

Swap(p) ==
  /\ SwapIn(doc[p])
  /\ Fine
  /\ Goto(p, "swap", "reload")
  /\ UNCHANGED <<services, now, lock, locals, fresh>>

\* Staging, `sing-box check', the copy or the rename fails.
ApplyFails(p) ==
  /\ Mishap
  /\ \/ Return(p, "backup", "err")
     \/ Return(p, "swap", "err")
  /\ UNCHANGED <<disk, services, now, lock, cmd, prev, cand, doc, req, fresh>>

\* is_available / is_unit_installed are asked a second time after the swap.
ReloadUnavailable(p) ==
  /\ Mishap
  /\ Return(p, "reload", "notlive")
  /\ UNCHANGED <<disk, services, now, lock, cmd, prev, cand, doc, req, fresh>>

Reload(p) ==
  /\ \/ ReloadOk /\ Goto(p, "reload", "selftest")
     \/ ReloadFails /\ Goto(p, "reload", "restore")
  /\ UNCHANGED <<disk, adv, now, lock, locals, fresh>>

\* Only a definite HandshakeRejected counts against the new document.
SelfTest(p) ==
  /\ \/ Fine /\ Goto(p, "selftest", "stamp")
     \/ Mishap /\ Goto(p, "selftest", "restore")
  /\ UNCHANGED <<disk, services, now, lock, locals, fresh>>

Stamp(p) ==
  /\ \/ /\ Fine
        /\ stamp' = rendered_config_fingerprint(doc[p])
        /\ Return(p, "stamp", "live")
     \/ /\ Mishap
        /\ stamp' = stamp
        /\ Return(p, "stamp", "err")
  /\ UNCHANGED <<users, config, bak, keys, services, now, lock, cmd, prev,
                 cand, doc, req, fresh>>

RestoreBegins(p) ==
  /\ CopyBackBegins
  /\ Fine
  /\ Goto(p, "restore", "restoring")
  /\ UNCHANGED <<services, now, lock, locals, fresh>>

RestoreEnds(p) ==
  /\ CopyBackEnds
  /\ Fine
  /\ Goto(p, "restoring", "reload2")
  /\ UNCHANGED <<services, now, lock, locals, fresh>>

\* No backup, or the copy fails: there is nothing to reload.
RestoreFails(p) ==
  /\ \/ bak = NoFile /\ Fine /\ Return(p, "restore", "err")
     \/ Mishap /\ Return(p, "restore", "err")
     \/ Mishap /\ Return(p, "restoring", "err")
  /\ UNCHANGED <<disk, services, now, lock, cmd, prev, cand, doc, req, fresh>>

RecoveryReload(p) ==
  /\ ReloadOk \/ ReloadFails
  /\ Return(p, "reload2", "err")
  /\ UNCHANGED <<disk, adv, now, lock, cmd, prev, cand, doc, req, fresh>>

RenderAndApply(p) ==
  \/ CannotRender(p) \/ RefuseUnavailable(p)
  \/ AlreadyCurrent(p) \/ MustApply(p)
  \/ Backup(p) \/ Swap(p) \/ ApplyFails(p)
  \/ ReloadUnavailable(p) \/ Reload(p) \/ SelfTest(p) \/ Stamp(p)
  \/ RestoreBegins(p) \/ RestoreEnds(p) \/ RestoreFails(p) \/ RecoveryReload(p)

----------------------------------------------------------------------------
\* `render-config': take the lock, load users.json, apply.  The timer runs
\* it every minute with --require-applied, which only turns "notlive" into
\* a failing exit status.
RenderConfig(p) ==
  /\ lock = Nobody
  /\ lock' = p
  /\ Goto(p, "idle", "render")
  /\ cmd' = [cmd EXCEPT ![p] = "render-config"]
  /\ cand' = [cand EXCEPT ![p] = users]
  /\ UNCHANGED <<disk, services, now, prev, doc, req, ret, fresh, mishaps>>
=============================================================================
