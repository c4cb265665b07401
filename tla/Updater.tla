------------------------------- MODULE Updater -------------------------------
(***************************************************************************)
(* deploy/almalinux/update.sh: the transaction that moves an installed     *)
(* host from one release to another (STAGE, PREPARE, SWITCH, ACTIVATE,     *)
(* VERIFY, COMMIT, or the rollback of what was switched), several          *)
(* invocations of it, and the vpn-admin commands that run beside it.       *)
(*                                                                         *)
(* A release stands for its files.  What two releases may share is given   *)
(* by three constant functions: the sing-box version a release pins, the   *)
(* persistent-state schema its vpn-admin writes, and the config.json       *)
(* format it renders.  A file is replaced by a rename, so each step below  *)
(* either happened or did not.                                             *)
(***************************************************************************)
EXTENDS Integers, Sequences

CONSTANTS
  Run,         \* invocations of update.sh
  Admin,       \* vpn-admin invocations made beside it, by hand or by the timer
  Commands,    \* what they are: "render" (render-config) or "user"
  Release,     \* releases that can be installed
  Installed,   \* the release install.sh left
  Modes,       \* how update.sh is called: "version", "repair", "dev-rebuild"
  SingBox,     \* Release -> the sing-box version it pins
  Schema,      \* Release -> the users.json/deployment.toml schema it writes
  Format,      \* Release -> the config.json it renders
  None,        \* no file, no holder, no process
  MaxStarts,   \* bound on update.sh invocations
  MaxMishaps   \* bound on failures, kills and reboots

ASSUME ReleaseAssumption ==
  /\ Installed \in Release
  /\ None \notin Release \cup Run \cup Admin
  /\ Modes \subseteq {"version", "repair", "dev-rebuild"}
  /\ Commands \subseteq {"render", "user"}
  /\ MaxStarts \in Nat /\ MaxMishaps \in Nat

VARIABLES
  tree,      \* the release in /opt/vpn1, None while it is renamed away
  part,      \* what is installed outside /opt/vpn1
  config,    \* config.json
  applied,   \* config.applied.sha256: the document vpn-admin last saw loaded
  state,     \* the schema of users.json and deployment.toml
  manifest,  \* vpn1_version in install-state.json
  marker,    \* update-transaction.json: the invocation that wrote it
  staging,   \* /opt/.vpn1-update-staging.*, by the invocation that made it
  prevOpt,   \* /opt/.vpn1-prev-$$: the tree renamed away
  backup,    \* what PREPARE saved
  sub,       \* the vpn-subscription-svc that runs
  box,       \* the sing-box that runs: binary, configuration and unit
  installer, \* the holder of vpn1-installer.lock
  lock,      \* the holder of vpn1.lock
  pc, mode, from, target, at, failed,  \* each invocation's progress
  waiting,   \* vpn-admin processes that ask for vpn1.lock
  outcome,   \* the last report: which invocation printed it, and what it says;
             \* None once another starts or is killed
  whole,     \* history: the invocations that found the recorded release whole
             \* and running
  seen,      \* history: dev-rebuilds and failed rollbacks, which leave no release
  starts, mishaps

files == <<tree, part, config, applied, state, manifest>>
traces == <<marker, staging, prevOpt, backup>>
running == <<sub, box>>
progress == <<mode, from, target, whole, seen>>
vars == <<files, traces, running, installer, lock, pc, progress, at, failed,
          waiting, outcome, starts, mishaps>>

(* What SWITCH installs, in its order.  "units" and "helpers" are several  *)
(* files each, replaced one after another by the same statement.           *)
PartSeq == <<"vpn-admin", "vpn", "vpn-subscription-svc", "units", "helpers", "sing-box">>
Part == {PartSeq[i] : i \in DOMAIN PartSeq}
Version(p, r) == IF p = "sing-box" THEN SingBox[r] ELSE r
AllOf(r) == [p \in Part |-> Version(p, r)]
\* Every file that a release owns is release r's.
WhollyInstalled(r) == tree = r /\ part = AllOf(r)
\* The sing-box that runs is the installed one, with what is recorded as applied.
RunsInstalled == box.bin = part["sing-box"] /\ box.cfg = applied

Init ==
  /\ tree = Installed /\ part = AllOf(Installed) /\ manifest = Installed
  /\ config = Format[Installed] /\ applied = config /\ state = Schema[Installed]
  /\ sub = Installed
  /\ box = [bin |-> SingBox[Installed], cfg |-> Format[Installed], unit |-> Installed]
  /\ marker = None /\ staging = {} /\ installer = None /\ lock = None
  /\ prevOpt = [u \in Run |-> None] /\ backup = [u \in Run |-> None]
  /\ pc = [u \in Run |-> "idle"] /\ mode = [u \in Run |-> None]
  /\ from = [u \in Run |-> None] /\ target = [u \in Run |-> None]
  /\ at = [u \in Run |-> 0] /\ failed = [u \in Run |-> FALSE]
  /\ waiting = [a \in Admin \cup Run |-> None]
  /\ outcome = None
  /\ whole = {} /\ seen = {}
  /\ starts = 0 /\ mishaps = 0

Mishap == mishaps < MaxMishaps /\ mishaps' = mishaps + 1
Fine == UNCHANGED mishaps
Goto(u, there) == pc' = [pc EXCEPT ![u] = there]
Says(u, what) == outcome' = [run |-> u, said |-> what]

\* The script's descriptors 200 and 201 are closed with its last process.
Unlocks(u) ==
  /\ installer' = IF installer = u THEN None ELSE installer
  /\ lock' = IF lock = u THEN None ELSE lock

\* Its variables are gone, and nobody reads its backup directory again.
Exits(u) ==
  /\ Goto(u, "idle")
  /\ mode' = [mode EXCEPT ![u] = None] /\ from' = [from EXCEPT ![u] = None]
  /\ target' = [target EXCEPT ![u] = None] /\ whole' = whole \ {u}
  /\ backup' = [backup EXCEPT ![u] = None]
  /\ at' = [at EXCEPT ![u] = 0] /\ failed' = [failed EXCEPT ![u] = FALSE]

Tracked(u) == mode[u] # "dev-rebuild"

\* What stops the next update: a transaction marker, or a staging or prev
\* directory that was not cleaned up.
Noticed == marker # None \/ staging # {} \/ \E u \in Run : prevOpt[u] # None

----------------------------------------------------------------------------
(* Before anything live changes.                                           *)

\* The traces of an earlier update are looked for before the installer lock is
\* asked for.
CheckMarker(u) ==
  /\ pc[u] = "idle"
  /\ starts < MaxStarts /\ starts' = starts + 1
  /\ ~Noticed
  /\ Goto(u, "flock") /\ outcome' = None
  /\ at' = [at EXCEPT ![u] = 1]
  /\ Fine /\ UNCHANGED <<files, traces, running, installer, lock, progress,
                         failed, waiting>>

\* An update to the same release exits at once.
AlreadyThere(m, r) == m = "version" /\ r = manifest

\* flock -x 200; the current release is read from the manifest and one
\* target is resolved.
Resolve(u) ==
  /\ pc[u] = "flock" /\ installer = None
  /\ \E m \in Modes, r \in Release :
       /\ m = "repair" => r = manifest
       /\ IF AlreadyThere(m, r)
          THEN Exits(u) /\ UNCHANGED <<installer, staging, seen>>
          ELSE /\ Goto(u, "stage")
               /\ installer' = u
               /\ mode' = [mode EXCEPT ![u] = m]
               /\ from' = [from EXCEPT ![u] = manifest]
               /\ target' = [target EXCEPT ![u] = r]
               /\ staging' = IF m = "dev-rebuild" THEN staging
                             ELSE staging \cup {u}
               /\ whole' = IF WhollyInstalled(manifest) /\ RunsInstalled
                           THEN whole \cup {u} ELSE whole
               /\ seen' = seen \cup ({"dev-rebuild"} \cap {m})
               /\ UNCHANGED <<backup, at, failed>>
  /\ Fine /\ UNCHANGED <<files, marker, prevOpt, running, lock, waiting, outcome,
                         starts>>

\* STAGE: the target's source, binaries and, when its pin differs from the
\* manifest's, sing-box are downloaded, verified and tried.
Stage(u) ==
  /\ pc[u] = "stage"
  /\ Goto(u, "prepare")
  /\ Fine /\ UNCHANGED <<files, traces, running, installer, lock, progress, at,
                         failed, waiting, outcome, starts>>

\* Mutant: the pin is never compared.
StagesNothing(u) == FALSE

StagesSingBox(u) == Tracked(u) /\ SingBox[target[u]] # SingBox[from[u]]

\* PREPARE: the installed files are copied, then the marker is renamed into
\* place.  A dev-rebuild writes no marker.
Prepare(u) ==
  /\ pc[u] = "prepare"
  /\ backup' = [backup EXCEPT ![u] =
                  [part |-> part, manifest |-> manifest, config |-> None]]
  /\ marker' = IF Tracked(u) THEN u ELSE marker
  /\ Goto(u, "flock-state")
  /\ Fine /\ UNCHANGED <<files, staging, prevOpt, running, installer, lock,
                         progress, at, failed, waiting, outcome, starts>>

\* flock -x 201, config.json is copied, the traps are armed.
AcquireState(u) ==
  /\ pc[u] = "flock-state" /\ lock = None
  /\ lock' = u
  /\ backup' = [backup EXCEPT ![u].config = config]
  /\ Goto(u, IF Tracked(u) THEN "opt-away" ELSE "switch")
  /\ Fine /\ UNCHANGED <<files, marker, staging, prevOpt, running, installer,
                         progress, at, failed, waiting, outcome, starts>>

----------------------------------------------------------------------------
(* SWITCH and ACTIVATE.                                                    *)

\* Mutant: the first part is left out of the rollback.
UndoFromSecond(u) ==
  /\ Goto(u, "undo-parts")
  /\ at' = [at EXCEPT ![u] = 2]
  /\ waiting' = [waiting EXCEPT ![u] = None]

\* The rollback starts where on_exit finds mutation_started.
Undo(u) ==
  /\ Goto(u, "undo-parts")
  /\ at' = [at EXCEPT ![u] = 1]
  /\ waiting' = [waiting EXCEPT ![u] = None]

\* mv fails where an earlier update was stopped with /opt/vpn1 renamed away.
MoveOptAway(u) ==
  /\ pc[u] = "opt-away"
  /\ IF tree = None
     THEN Undo(u) /\ UNCHANGED <<tree, prevOpt>>
     ELSE /\ prevOpt' = [prevOpt EXCEPT ![u] = tree]
          /\ tree' = None
          /\ Goto(u, "opt-in")
          /\ UNCHANGED <<at, waiting>>
  /\ Fine /\ UNCHANGED <<part, config, applied, state, manifest, marker, staging,
                         backup, running, installer, lock, progress, failed,
                         outcome, starts>>

MoveOptIn(u) ==
  /\ pc[u] = "opt-in"
  /\ tree' = target[u]
  /\ Goto(u, "switch")
  /\ Fine /\ UNCHANGED <<part, config, applied, state, manifest, traces, running, installer,
                         lock, progress, at, failed, waiting, outcome, starts>>

\* One rename, in the order of PartSeq; sing-box only if it was staged.
InstallPart(u) ==
  /\ pc[u] = "switch"
  /\ LET p == PartSeq[at[u]] IN
     part' = IF p = "sing-box" /\ ~StagesSingBox(u)
             THEN part ELSE [part EXCEPT ![p] = Version(p, target[u])]
  /\ IF at[u] = Len(PartSeq)
     THEN Goto(u, "validate") /\ at' = [at EXCEPT ![u] = 1]
     ELSE at' = [at EXCEPT ![u] = @ + 1] /\ UNCHANGED pc
  /\ Fine /\ UNCHANGED <<tree, config, applied, state, manifest, traces, running, installer,
                         lock, progress, failed, waiting, outcome, starts>>

\* `config validate' with the new binary.  A schema older than its own makes
\* the script call `config migrate', a vpn-admin like any other: it asks for
\* vpn1.lock.  A newer schema is refused.
Validate(u) ==
  LET r == part["vpn-admin"] IN
  /\ pc[u] = "validate"
  /\ IF state > Schema[r]
     THEN Undo(u)
     ELSE /\ Goto(u, "render")
          /\ waiting' = [waiting EXCEPT ![u] =
               IF state < Schema[r] THEN [op |-> "migrate", rel |-> r] ELSE None]
          /\ UNCHANGED at
  /\ Fine /\ UNCHANGED <<files, traces, running, installer, lock, progress, failed,
                         outcome, starts>>

\* render_and_apply_singbox_config of release r.  It leaves sing-box alone if
\* its document is on disk and recorded as applied.  When systemctl does not
\* answer, the document is written, sing-box is not restarted, nothing is
\* recorded, and the exit status is 0 all the same.
Rendered(r) ==
  /\ config' = Format[r]
  /\ \/ /\ config = Format[r] /\ applied = Format[r]
        /\ Fine /\ UNCHANGED <<applied, box>>
     \/ /\ config # Format[r] \/ applied # Format[r]
        /\ applied' = Format[r]
        /\ box' = [bin |-> part["sing-box"], cfg |-> Format[r],
                   unit |-> part["units"]]
        /\ Fine
     \/ Mishap /\ UNCHANGED <<applied, box>>

\* render-config under the script's own inner lock, once the child is done; the
\* state was found readable by the step before.
Render(u) ==
  /\ pc[u] = "render" /\ waiting[u] = None
  /\ Rendered(part["vpn-admin"])
  /\ Goto(u, "restart")
  /\ UNCHANGED <<tree, part, state, manifest, traces, sub, installer, lock,
                 progress, at, failed, waiting, outcome, starts>>

\* vpn-subscription always restarts; sing-box only for a new binary, or for
\* a new unit when config.json is as it was: when it is not, render-config is
\* taken to have restarted it.
Restart(u) ==
  /\ pc[u] = "restart"
  /\ sub' = part["vpn-subscription-svc"]
  /\ box' = IF \/ StagesSingBox(u)
               \/ /\ config = backup[u].config
                  /\ part["units"] # backup[u].part["units"]
            THEN [bin |-> part["sing-box"], cfg |-> config, unit |-> part["units"]]
            ELSE box
  /\ Goto(u, "verify")
  /\ Fine /\ UNCHANGED <<files, traces, installer, lock, progress, at, failed,
                         waiting, outcome, starts>>

\* The health check and the protocol handshake.
Verify(u) ==
  /\ pc[u] = "verify"
  /\ Goto(u, IF Tracked(u) THEN "commit" ELSE "cleanup")
  /\ Fine /\ UNCHANGED <<files, traces, running, installer, lock, progress, at,
                         failed, waiting, outcome, starts>>

----------------------------------------------------------------------------
(* COMMIT.                                                                 *)

WriteManifest(u) ==
  /\ pc[u] = "commit"
  /\ manifest' = target[u]
  /\ Goto(u, "written")
  /\ Fine /\ UNCHANGED <<tree, part, config, applied, state, traces, running, installer,
                         lock, progress, at, failed, waiting, outcome, starts>>

\* committed=1, the traps are cleared.
Commit(u) ==
  /\ pc[u] = "written"
  /\ Goto(u, "cleanup")
  /\ Fine /\ UNCHANGED <<files, traces, running, installer, lock, progress, at,
                         failed, waiting, outcome, starts>>

Cleanup(u) ==
  /\ pc[u] = "cleanup"
  /\ prevOpt' = [prevOpt EXCEPT ![u] = None]
  /\ backup' = [backup EXCEPT ![u] = None]
  /\ staging' = staging \ {u}
  /\ Goto(u, "unmark")
  /\ Fine /\ UNCHANGED <<files, marker, running, installer, lock, progress, at,
                         failed, waiting, outcome, starts>>

RemoveMarker(u) ==
  /\ pc[u] = "unmark"
  /\ marker' = IF Tracked(u) THEN None ELSE marker
  /\ Exits(u) /\ Says(u, "complete") /\ Unlocks(u)
  /\ Fine /\ UNCHANGED <<files, staging, prevOpt, running, seen, waiting, starts>>

----------------------------------------------------------------------------
(* rollback_update.  It runs with set +e: a step that fails is remembered  *)
(* and the next one is tried.                                              *)

Tries(u, effect, nothing) ==
  \/ effect /\ Fine /\ UNCHANGED failed
  \/ nothing /\ Mishap /\ failed' = [failed EXCEPT ![u] = TRUE]

RestorePart(u) ==
  /\ pc[u] = "undo-parts"
  /\ LET p == PartSeq[at[u]] IN
     IF p = "sing-box" /\ ~StagesSingBox(u)
     THEN Fine /\ UNCHANGED <<part, failed>>
     ELSE Tries(u, part' = [part EXCEPT ![p] = backup[u].part[p]], UNCHANGED part)
  /\ IF at[u] = Len(PartSeq)
     THEN Goto(u, "undo-tree") /\ UNCHANGED at
     ELSE at' = [at EXCEPT ![u] = @ + 1] /\ UNCHANGED pc
  /\ UNCHANGED <<tree, config, applied, state, manifest, traces, running, installer, lock,
                 progress, waiting, outcome, starts>>

RestoreTree(u) ==
  /\ pc[u] = "undo-tree"
  /\ Goto(u, "undo-render")
  /\ IF prevOpt[u] = None
     THEN Fine /\ UNCHANGED <<tree, prevOpt, failed>>
     ELSE Tries(u, tree' = prevOpt[u] /\ prevOpt' = [prevOpt EXCEPT ![u] = None],
                   UNCHANGED <<tree, prevOpt>>)
  /\ UNCHANGED <<part, config, applied, state, manifest, marker, staging, backup, running,
                 installer, lock, progress, at, waiting, outcome, starts>>

\* The old tooling renders the current users; if it cannot, config.json is
\* copied back from the snapshot, and only a failure of that counts.
RestoreConfig(u) ==
  LET r == part["vpn-admin"] IN
  /\ pc[u] = "undo-render"
  /\ Goto(u, "undo-restart")
  /\ \/ state <= Schema[r] /\ Rendered(r) /\ UNCHANGED failed
     \/ /\ state <= Schema[r] /\ config' = backup[u].config
        /\ Mishap /\ UNCHANGED <<applied, box, failed>>
     \/ /\ state > Schema[r]
        /\ Tries(u, config' = backup[u].config, UNCHANGED config)
        /\ UNCHANGED <<applied, box>>
  /\ UNCHANGED <<tree, part, state, manifest, traces, sub, installer, lock,
                 progress, at, waiting, outcome, starts>>

\* Mutant: the manifest is taken to be the old one.
RestartKeepsManifest(u) ==
  /\ pc[u] = "undo-restart"
  /\ Tries(u, /\ sub' = part["vpn-subscription-svc"]
              /\ box' = [bin |-> part["sing-box"], cfg |-> config, unit |-> part["units"]],
              UNCHANGED running)
  /\ Goto(u, "undo-unmark")
  /\ UNCHANGED <<files, traces, installer, lock, progress, at, waiting, outcome, starts>>

\* Both services are restarted, the health check runs, a manifest that
\* differs from the saved one is copied back.
RestartOld(u) ==
  /\ pc[u] = "undo-restart"
  /\ Tries(u, /\ sub' = part["vpn-subscription-svc"]
              /\ box' = [bin |-> part["sing-box"], cfg |-> config, unit |-> part["units"]],
              UNCHANGED running)
  /\ manifest' = IF Tracked(u) THEN backup[u].manifest ELSE manifest
  /\ Goto(u, "undo-unmark")
  /\ UNCHANGED <<tree, part, config, applied, state, traces, installer, lock, progress, at,
                 waiting, outcome, starts>>

\* Mutant: the exit status of the rollback starts on_exit's rollback again.
RollbackReentered(u) ==
  /\ pc[u] = "undo-unmark"
  /\ marker' = IF Tracked(u) THEN None ELSE marker
  /\ staging' = staging \ {u}
  /\ Undo(u)
  /\ Fine /\ UNCHANGED <<files, prevOpt, backup, running, installer, lock, progress,
                         failed, outcome, starts>>

\* The marker and the staging directory go, whatever failed.
EndRollback(u) ==
  /\ pc[u] = "undo-unmark"
  /\ marker' = IF Tracked(u) THEN None ELSE marker
  /\ staging' = staging \ {u}
  /\ Says(u, IF failed[u] THEN "rollback failed" ELSE "restored")
  /\ seen' = IF failed[u] THEN seen \cup {"rollback failed"} ELSE seen
  /\ Exits(u) /\ Unlocks(u)
  /\ Fine /\ UNCHANGED <<files, prevOpt, running, waiting, starts>>

----------------------------------------------------------------------------
(* What stops the script.                                                  *)

Mutating == {"opt-away", "opt-in", "switch", "validate", "render", "restart",
             "verify", "commit", "written"}
\* A command fails under set -e, or the script gets SIGINT or SIGTERM with
\* its traps armed: on_exit rolls back.
Fail(u) ==
  /\ pc[u] \in Mutating
  /\ Mishap /\ Undo(u)
  /\ UNCHANGED <<files, traces, running, installer, lock, progress, failed,
                 outcome, starts>>

\* The same before the traps are armed: STAGE removes its directory, PREPARE
\* leaves what it made.
Die(u) ==
  /\ pc[u] \in {"flock", "stage", "prepare", "flock-state"}
  /\ Mishap
  /\ staging' = IF pc[u] = "stage" THEN staging \ {u} ELSE staging
  /\ Exits(u) /\ Says(u, "failed") /\ Unlocks(u)
  /\ UNCHANGED <<files, marker, prevOpt, running, seen, waiting, starts>>

\* SIGKILL, at any step.  A vpn-admin child that waits for the lock outlives
\* the script and has inherited both descriptors, so both locks stay held.
Kill(u) ==
  /\ pc[u] # "idle"
  /\ Mishap
  /\ Exits(u) /\ outcome' = None
  /\ IF waiting[u] # None THEN UNCHANGED <<installer, lock>> ELSE Unlocks(u)
  /\ UNCHANGED <<files, marker, staging, prevOpt, running, seen, waiting, starts>>

\* Power is lost; the services come back from what is on disk.
Reboot ==
  /\ Mishap
  /\ pc' = [u \in Run |-> "idle"]
  /\ waiting' = [a \in Admin \cup Run |-> None]
  /\ installer' = None /\ lock' = None /\ whole' = {} /\ outcome' = None
  /\ mode' = [u \in Run |-> None] /\ from' = [u \in Run |-> None]
  /\ target' = [u \in Run |-> None] /\ backup' = [u \in Run |-> None]
  /\ at' = [u \in Run |-> 0] /\ failed' = [u \in Run |-> FALSE]
  /\ sub' = part["vpn-subscription-svc"]
  /\ box' = [bin |-> part["sing-box"], cfg |-> config, unit |-> part["units"]]
  /\ UNCHANGED <<files, marker, staging, prevOpt, seen, starts>>

----------------------------------------------------------------------------
(* vpn-admin beside the update: the timer's render-config and the          *)
(* operator's user commands.  The release is the one executed, not the one *)
(* installed when the lock is granted.                                     *)

AdminStart(a) ==
  /\ waiting[a] = None
  /\ \E op \in Commands :
       waiting' = [waiting EXCEPT ![a] = [op |-> op, rel |-> part["vpn"]]]
  /\ Fine /\ UNCHANGED <<files, traces, running, installer, lock, pc, progress, at,
                         failed, outcome, starts>>

\* Mutant: render-config takes any config.json for current.
AdminTrustsConfig(a) ==
  LET w == waiting[a] IN
  /\ w # None /\ lock = None
  /\ waiting' = [waiting EXCEPT ![a] = None]
  /\ IF state > Schema[w.rel] \/ (w.op = "render" /\ config # None)
     THEN Fine /\ UNCHANGED <<config, applied, box, state>>
     ELSE /\ Rendered(w.rel)
          /\ state' = IF w.op = "render" THEN state ELSE Schema[w.rel]
  /\ UNCHANGED <<tree, part, manifest, traces, sub, installer, lock, pc,
                 progress, at, failed, outcome, starts>>

\* The lock is free.  A state newer than the binary is refused; otherwise
\* the configuration is rendered, and a user command or a migration saves the
\* state in the binary's own schema.
AdminRuns(a) ==
  LET w == waiting[a] IN
  /\ w # None /\ lock = None
  /\ waiting' = [waiting EXCEPT ![a] = None]
  /\ IF state > Schema[w.rel]
     THEN Fine /\ UNCHANGED <<config, applied, box, state>>
     ELSE /\ Rendered(w.rel)
          /\ state' = IF w.op = "render" THEN state ELSE Schema[w.rel]
  /\ UNCHANGED <<tree, part, manifest, traces, sub, installer, lock, pc,
                 progress, at, failed, outcome, starts>>

----------------------------------------------------------------------------
Step(u) ==
  \/ Resolve(u) \/ Stage(u) \/ Prepare(u) \/ AcquireState(u)
  \/ MoveOptAway(u) \/ MoveOptIn(u) \/ InstallPart(u) \/ Validate(u)
  \/ Render(u) \/ Restart(u) \/ Verify(u)
  \/ WriteManifest(u) \/ Commit(u) \/ Cleanup(u) \/ RemoveMarker(u)
  \/ RestorePart(u) \/ RestoreTree(u) \/ RestoreConfig(u) \/ RestartOld(u)
  \/ EndRollback(u)

Next ==
  \/ \E u \in Run : CheckMarker(u) \/ Step(u) \/ Fail(u) \/ Die(u) \/ Kill(u)
  \/ \E a \in Admin : AdminStart(a)
  \/ \E a \in Admin \cup Run : AdminRuns(a)
  \/ Reboot

\* The scheduler runs every script and its child, systemd starts the timer's
\* command every minute, and flock is granted to each waiter in the end.
Fairness ==
  /\ \A u \in Run : SF_vars(Step(u) \/ AdminRuns(u))
  /\ \A a \in Admin : SF_vars(AdminStart(a) \/ AdminRuns(a))

Spec == Init /\ [][Next]_vars
FairSpec == Spec /\ Fairness

----------------------------------------------------------------------------
(* What the host may look like.                                            *)

Busy == {u \in Run : pc[u] # "idle"}
AtRest == \A u \in Busy : pc[u] \in {"flock", "stage", "prepare", "flock-state"}

\* A release is installed, recorded, and runs.
WhollyRunning(r) ==
  WhollyInstalled(r) /\ manifest = r /\ sub = r /\ box.bin = SingBox[r]

\* sing-box has loaded config.json, or the record says that it has not: the
\* next render-config, within a minute the timer's, then loads it.
LoadedOrNoticed == box.cfg = config \/ applied # config

\* A host that is not wholly the release its manifest names, with no update
\* working on it, carries a trace that stops the next update (update.sh
\* 136-153).  Excepted are a rollback that failed, which removes the marker
\* all the same, and a dev-rebuild, which is no release.
HalfSwapIsMarked ==
  AtRest /\ seen = {} => WhollyInstalled(manifest) \/ Noticed

\* An update that found the recorded release whole and running reports
\* complete only when the target is installed, rendered, running and recorded,
\* every file of it (update.sh 8-10 and 816-818).  Not even then has sing-box
\* always loaded the new config.json: a render-config that could not ask
\* systemctl is taken for one that reloaded it (update.sh 795-796).  But then
\* the record of what was applied tells.
CompleteMeansTarget ==
  [][\A u \in whole, r \in Release :
       outcome # outcome' /\ outcome' = [run |-> u, said |-> "complete"] /\ Tracked(u)
         /\ r = target[u] =>
         (WhollyRunning(r) /\ config = Format[r] /\ LoadedOrNoticed)']_vars

\* The same update reports "PREVIOUS RELEASE RESTORED AND VERIFIED" only when
\* that release is installed, running and recorded, with config.json loaded,
\* rendered by it or as it was, also when the failure hit after the new
\* manifest was written (update.sh 8-10, 677-686).
RestoredMeansPrevious ==
  [][\A u \in whole, r \in Release :
       outcome # outcome' /\ outcome' = [run |-> u, said |-> "restored"] /\ Tracked(u)
         /\ r = from[u] =>
         /\ WhollyRunning(r)' /\ box'.cfg = config'
         /\ config' \in {Format[r], backup[u].config}]_vars

\* What update.sh reports last is so, whichever way it ends.
UpdateReportTrue == CompleteMeansTarget /\ RestoredMeansPrevious

\* Every update that starts ends: it completes, or it is undone and exits; so
\* when no other is started, none is left.
EveryUpdateEnds == Busy # {} ~> Busy = {}

\* An old vpn-admin that waited for the lock through an update renders with
\* the old tooling when the update is over; the timer's next run renders with
\* the tooling installed now.
RenderingCatchesUp ==
  Busy = {} ~> \/ Busy # {} \/ state > Schema[part["vpn"]]
               \/ config = Format[part["vpn"]] /\ box.cfg = config
=============================================================================
