------------------------------ MODULE Installer ------------------------------
(***************************************************************************)
(* deploy/almalinux/install.sh and uninstall.sh with the ownership record  *)
(* of deploy/lib/ownership.sh: the stages that put vpn1 on a host, the     *)
(* repair of an installed one, the automatic rollback of a failed fresh    *)
(* install, and the removal.  Several invocations follow one another or    *)
(* overlap.                                                                *)
(*                                                                         *)
(* The host is a set of resources.  Each holds nothing, something foreign  *)
(* (it was there before vpn1), or what vpn1 put there.  A foreign sing-box *)
(* may be of the very version vpn1 pins ("pinned").                        *)
(***************************************************************************)
EXTENDS Integers, Sequences

CONSTANTS
  Run,          \* shells in which install.sh or uninstall.sh is called
  Hosts,        \* what may be on a host before vpn1, per resource
  None,         \* no record, no lock file
  MaxStarts,    \* bound on invocations
  MaxMishaps    \* bound on faults

ASSUME InstallerAssumption ==
  /\ None \notin Run
  /\ MaxStarts \in Nat /\ MaxMishaps \in Nat

(* What main puts on the host after preflight, in its order, and what      *)
(* uninstall.sh removes, in its order.  "state" is /var/lib/vpn1: the      *)
(* ownership record, the backups of foreign files and the manifest;        *)
(* "secrets" is what vpn1 keeps under /etc/vpn: deployment.toml, keys,     *)
(* users and config.json.                                                  *)
InstallSeq == <<"packages", "binaries", "sing-box", "units", "accounts",
                "etc-vpn", "certificate", "hook", "secrets", "nginx", "firewall">>
UndoSeq == <<"units", "binaries", "sing-box", "hook", "certificate", "nginx",
             "firewall", "accounts", "packages", "etc-vpn", "state", "tree">>
Resource == {InstallSeq[i] : i \in DOMAIN InstallSeq} \cup {"tree"}

Fixed == {"units", "hook", "nginx"}                  \* a foreign file is backed up
Listed == {"packages"}                               \* recorded, then installed
Marked == {"accounts", "certificate", "firewall"}    \* made, then recorded
Baseline == {"sing-box", "etc-vpn"}                  \* "was it there before?"
Plain == {"binaries", "secrets"}                     \* vpn1's alone, no record

VARIABLES
  original,  \* what the host held before vpn1 was first installed
  host,      \* what it holds now
  rec,       \* ownership.env: None, "pre" (it pre-existed) or "ours"
  backup,    \* preexisting-backups/: the foreign file saved, or None
  saved,     \* FIXEDPATH_*_BACKED_UP
  attempted, \* INSTALL_ATTEMPTED
  manifest,  \* acceptance in install-state.json
  token,     \* whether the first user has a subscription token
  services,  \* whether sing-box and vpn-subscription run
  foreign,   \* whether another program listens on a port vpn1 needs
  accepted,  \* whether this deployment was ever accepted
  path,      \* the inode at /run/lock/vpn1-installer.lock
  inode,     \* the inode each shell has open as descriptor 200
  holds,     \* whether it holds the lock on it
  pc, at, half, fresh, prior, treePre, \* each shell's progress
  starts, mishaps,
  stray,     \* history: what was made by a run that stopped before recording it,
             \* or reported as left behind by a removal that forgot the record
  seen       \* history: what else happened that a property has to except

owned == <<rec, backup, saved, attempted, manifest>>
world == <<token, services, foreign, accepted>>
locks == <<path, inode, holds>>
knows == <<fresh, prior, treePre>>
ills == <<mishaps, stray, seen>>
vars == <<original, host, owned, world, locks, pc, at, half, knows, starts, ills>>

Inode == 1..MaxStarts

Init ==
  /\ original \in Hosts
  /\ host = original
  /\ rec = [r \in Resource |-> None] /\ backup = [r \in Fixed |-> None]
  /\ saved = {} /\ attempted = FALSE /\ manifest = "none"
  /\ token = FALSE /\ services = FALSE /\ foreign = FALSE /\ accepted = FALSE
  /\ path = None /\ inode = [p \in Run |-> None] /\ holds = {}
  /\ pc = [p \in Run |-> "idle"] /\ at = [p \in Run |-> 1]
  /\ half = [p \in Run |-> FALSE]
  /\ fresh = [p \in Run |-> FALSE] /\ prior = [p \in Run |-> "none"]
  /\ treePre = [p \in Run |-> FALSE]
  /\ starts = 0 /\ mishaps = 0 /\ stray = {} /\ seen = {}

Goto(p, there) == pc' = [pc EXCEPT ![p] = there]
Mishap == mishaps < MaxMishaps /\ mishaps' = mishaps + 1
Busy(p) == pc[p] # "idle"
Others(p) == {q \in Run \ {p} : Busy(q)}
\* A shell goes on beside others although the lock should keep them apart.
Beside(others) == IF others = {} THEN {} ELSE {"overlap"}

\* Descriptor 200 is closed with the shell, and its variables are gone.
Exits(p) ==
  /\ Goto(p, "idle")
  /\ inode' = [inode EXCEPT ![p] = None] /\ holds' = holds \ {p}
  /\ at' = [at EXCEPT ![p] = 1] /\ half' = [half EXCEPT ![p] = FALSE]
  /\ fresh' = [fresh EXCEPT ![p] = FALSE] /\ prior' = [prior EXCEPT ![p] = "none"]
  /\ treePre' = [treePre EXCEPT ![p] = FALSE]

----------------------------------------------------------------------------
(* install.sh, stage 1.                                                    *)

\* exec 200>/run/lock/vpn1-installer.lock creates the file when there is none.
Open(p) ==
  /\ ~Busy(p) /\ starts < MaxStarts /\ starts' = starts + 1
  /\ path' = IF path # None THEN path
             ELSE CHOOSE n \in Inode : \A q \in Run : inode[q] # n
  /\ inode' = [inode EXCEPT ![p] = path']
  /\ treePre' = [treePre EXCEPT ![p] = host["tree"] # "none"]
  /\ Goto(p, "flock")
  /\ seen' = IF path = None THEN seen \cup Beside(Others(p)) ELSE seen
  /\ UNCHANGED <<original, host, owned, world, holds, at, half, fresh, prior,
                 mishaps, stray>>

\* flock -x -w 600: the lock of the inode, or a timeout.
Flock(p) ==
  /\ pc[p] = "flock"
  /\ IF \E q \in holds : inode[q] = inode[p]
     THEN Exits(p) /\ UNCHANGED seen
     ELSE /\ holds' = holds \cup {p} /\ Goto(p, "check")
          /\ seen' = seen \cup Beside({q \in Others(p) : pc[q] # "flock"})
                          \cup (IF "cut removal" \in seen THEN {"reinstall"} ELSE {})
          /\ UNCHANGED <<inode, at, half, knows>>
  /\ UNCHANGED <<original, host, owned, world, path, starts, mishaps, stray>>

existing_install_present == manifest # "none"

\* The checks that change nothing.  Ports are looked at only when there is no
\* manifest; a port in use ends the run.
Check(p) ==
  /\ pc[p] = "check"
  /\ IF ~existing_install_present /\ (foreign \/ services)
     THEN Exits(p)
     ELSE /\ Goto(p, "mark")
          /\ fresh' = [fresh EXCEPT ![p] = ~existing_install_present]
          /\ prior' = [prior EXCEPT ![p] = manifest]
          /\ UNCHANGED <<inode, holds, at, half, treePre>>
  /\ UNCHANGED <<original, host, owned, world, path, starts, ills>>

\* INSTALL_ATTEMPTED, then the baseline of /opt/vpn1.
Mark(p) ==
  /\ pc[p] = "mark"
  /\ attempted' = TRUE
  /\ rec' = [rec EXCEPT !["tree"] = IF @ # None THEN @
                                    ELSE IF treePre[p] THEN "pre" ELSE "ours"]
  /\ Goto(p, "tree")
  /\ UNCHANGED <<original, host, backup, saved, manifest, world, locks, at, half,
                 knows, starts, ills>>

\* persist_source_tree reuses a tree that is there.
PersistTree(p) ==
  /\ pc[p] = "tree"
  /\ host' = [host EXCEPT !["tree"] = IF @ = "none" THEN "vpn1" ELSE @]
  /\ Goto(p, "manifest")
  /\ UNCHANGED <<original, owned, world, locks, at, half, knows, starts,
                 ills>>

\* write_install_state_manifest "installing".
WriteInstalling(p) ==
  /\ pc[p] = "manifest"
  /\ manifest' = "installing"
  /\ Goto(p, "put")
  /\ UNCHANGED <<original, host, rec, backup, saved, attempted, world, locks, at,
                 half, knows, starts, ills>>

----------------------------------------------------------------------------
(* install.sh, stages 2 to 15: one resource after another.                 *)

Now(p) == InstallSeq[at[p]]

Onto(p) ==
  /\ half' = [half EXCEPT ![p] = FALSE]
  /\ IF at[p] = Len(InstallSeq)
     THEN Goto(p, "start") /\ at' = [at EXCEPT ![p] = 1]
     ELSE at' = [at EXCEPT ![p] = @ + 1] /\ UNCHANGED pc

\* What is recorded before the resource is touched.  A baseline is recorded
\* once; sing-box of the pinned version is skipped before its baseline.
Skips(r) == r = "sing-box" /\ host[r] \in {"pinned", "vpn1"}

\* Mutant: the baseline is recorded anew by every run.
RecordAgain(r) ==
  rec' = [rec EXCEPT ![r] = IF host[r] = "none" THEN "ours" ELSE "pre"]

RecordOnce(r) ==
  rec' = IF \/ rec[r] # None
            \/ r \in Listed /\ host[r] # "none"
         THEN rec
         ELSE [rec EXCEPT ![r] = IF host[r] = "none" THEN "ours" ELSE "pre"]

\* Mutant: every run saves what it finds at the path, vpn1's own file too.
SaveAgain(r) ==
  IF r \in Fixed /\ host[r] # "none"
  THEN saved' = saved \cup {r} /\ backup' = [backup EXCEPT ![r] = host[r]]
  ELSE UNCHANGED <<saved, backup>>

\* The one-time copy of what was at a fixed path.
SaveOnce(r) ==
  IF r \in Fixed /\ host[r] # "none" /\ r \notin saved
  THEN saved' = saved \cup {r} /\ backup' = [backup EXCEPT ![r] = host[r]]
  ELSE UNCHANGED <<saved, backup>>

Record(p) ==
  /\ pc[p] = "put" /\ ~half[p]
  /\ Now(p) \in Fixed \cup Listed \cup Baseline
  /\ IF Skips(Now(p))
     THEN Onto(p) /\ UNCHANGED <<rec, saved, backup>>
     ELSE /\ RecordOnce(Now(p)) /\ SaveOnce(Now(p))
          /\ half' = [half EXCEPT ![p] = TRUE]
          /\ UNCHANGED <<pc, at>>
  /\ UNCHANGED <<original, host, attempted, manifest, world, locks, knows,
                 starts, ills>>

\* Binaries, sing-box, units, hook and vhost replace what is at their path ...
PutFile(p) ==
  LET r == Now(p) IN
  /\ pc[p] = "put"
  /\ r \in Fixed \cup {"binaries", "sing-box"}
  /\ half[p] \/ r \in Plain
  /\ host' = [host EXCEPT ![r] = "vpn1"]
  /\ Onto(p)
  /\ UNCHANGED <<original, owned, world, locks, knows, starts, ills>>

\* ... while packages, directories, deployment.toml and keys that are there stay.
PutMissing(p) ==
  LET r == Now(p) IN
  /\ pc[p] = "put"
  /\ r \in Listed \cup {"etc-vpn", "secrets"}
  /\ half[p] \/ r \in Plain
  /\ host' = [host EXCEPT ![r] = IF @ = "none" THEN "vpn1" ELSE @]
  /\ Onto(p)
  /\ UNCHANGED <<original, owned, world, locks, knows, starts, ills>>

\* useradd, certbot certonly and add-port, when there is none yet ...
Make(p) ==
  LET r == Now(p) IN
  /\ pc[p] = "put" /\ ~half[p] /\ r \in Marked
  /\ IF host[r] # "none" THEN Onto(p) /\ UNCHANGED host
     ELSE /\ host' = [host EXCEPT ![r] = "vpn1"]
          /\ half' = [half EXCEPT ![p] = TRUE]
          /\ UNCHANGED <<pc, at>>
  /\ UNCHANGED <<original, owned, world, locks, knows, starts, ills>>

\* ... and the record that vpn1 made it.
MarkMade(p) ==
  /\ pc[p] = "put" /\ half[p] /\ Now(p) \in Marked
  /\ rec' = [rec EXCEPT ![Now(p)] = "ours"]
  /\ Onto(p)
  /\ UNCHANGED <<original, host, backup, saved, attempted, manifest, world, locks,
                 knows, starts, ills>>

----------------------------------------------------------------------------
(* install.sh, stages 16 to 18.                                            *)

\* Mutant: the start already counts as acceptance.
StartAccepts(p) ==
  /\ pc[p] = "start" /\ ~foreign
  /\ services' = TRUE /\ manifest' = "accepted" /\ accepted' = TRUE
  /\ Goto(p, "user")
  /\ UNCHANGED <<original, host, rec, backup, saved, attempted, token, foreign,
                 locks, at, half, knows, starts, ills>>

\* Both listeners are confirmed before the manifest says "pending".
Start(p) ==
  /\ pc[p] = "start" /\ ~foreign
  /\ services' = TRUE /\ manifest' = "pending"
  /\ Goto(p, "user")
  /\ UNCHANGED <<original, host, rec, backup, saved, attempted, token, foreign,
                 accepted, locks, at, half, knows, starts, ills>>

\* ensure_first_user creates a user, mints a token for the one there is, or,
\* in the repair of an accepted deployment, leaves the users alone.
EnsureFirstUser(p) ==
  /\ pc[p] = "user"
  /\ token' = IF prior[p] = "accepted" THEN token ELSE TRUE
  /\ Goto(p, "accept")
  /\ UNCHANGED <<original, host, owned, services, foreign, accepted, locks, at,
                 half, knows, starts, ills>>

\* The health check, doctor and, unless repairing, the fetch through nginx
\* passed; print_status writes "accepted".
Accept(p) ==
  /\ pc[p] = "accept" /\ services
  /\ prior[p] = "accepted" \/ token
  /\ manifest' = "accepted" /\ accepted' = TRUE
  /\ Exits(p)
  /\ UNCHANGED <<original, host, rec, backup, saved, attempted, token, services,
                 foreign, path, starts, ills>>

----------------------------------------------------------------------------
(* How an install.sh ends early.                                           *)

Installing(p) == Busy(p) /\ pc[p] # "undo"

\* Something of vpn1's is on the host that no record names yet.
Unrecorded(p) == half[p] /\ Now(p) \in Marked
Forgets(p) == stray' = IF Unrecorded(p) THEN stray \cup {Now(p)} ELSE stray

\* A check of the stage calls die: exit 1, which runs no ERR trap.  None stands
\* between making and recording.
Die(p) ==
  /\ Installing(p) /\ pc[p] # "flock" /\ ~Unrecorded(p)
  /\ Mishap /\ UNCHANGED <<stray, seen>>
  /\ Exits(p)
  /\ UNCHANGED <<original, host, owned, world, path, starts>>

\* A listener that is taken is noticed when the services do not bind.
CannotBind(p) ==
  /\ pc[p] = "start" /\ foreign
  /\ Exits(p)
  /\ UNCHANGED <<original, host, owned, world, path, starts, ills>>

\* Mutant: the rollback does not ask whether the install was fresh.
RollsBackAny(p) == attempted

RollsBack(p) == attempted /\ fresh[p]

\* A command of the stage fails: on_fatal_error, which removes a fresh install
\* with uninstall.sh --yes and leaves any other host as it is.  firewall.sh adds
\* its ports one after another and records them together, so that a failing
\* second add leaves the first unrecorded.
Err(p) ==
  /\ Installing(p) /\ pc[p] # "flock"
  /\ Mishap /\ Forgets(p) /\ UNCHANGED seen
  /\ IF RollsBack(p)
     THEN /\ Goto(p, "undo")
          /\ at' = [at EXCEPT ![p] = 1] /\ half' = [half EXCEPT ![p] = FALSE]
          /\ UNCHANGED <<inode, holds, knows>>
     ELSE Exits(p)
  /\ UNCHANGED <<original, host, owned, world, path, starts>>

\* SIGKILL, or power lost.
Kill(p) ==
  /\ Installing(p) /\ Mishap /\ Forgets(p) /\ UNCHANGED seen
  /\ Exits(p)
  /\ UNCHANGED <<original, host, owned, world, path, starts>>

KillUndo(p) ==
  /\ pc[p] = "undo" /\ Mishap /\ seen' = seen \cup {"cut removal"} /\ UNCHANGED stray
  /\ Exits(p)
  /\ UNCHANGED <<original, host, owned, world, path, starts>>

----------------------------------------------------------------------------
(* uninstall.sh, called by an operator or by on_fatal_error.  It takes no  *)
(* lock.                                                                   *)

StartUndo(p) ==
  /\ ~Busy(p) /\ starts < MaxStarts /\ starts' = starts + 1
  /\ host["tree"] # "none"
  /\ Goto(p, "undo")
  /\ seen' = seen \cup Beside({q \in Others(p) : pc[q] # "flock"})
  /\ UNCHANGED <<original, host, owned, world, locks, at, half, knows, mishaps,
                 stray>>

Removing(p, r) == pc[p] = "undo" /\ UndoSeq[at[p]] = r
Onward(p) == at' = [at EXCEPT ![p] = @ + 1] /\ UNCHANGED <<pc, half>>

\* restore_or_remove_fixed_path: a path without a record, or with a record
\* that it pre-existed and no backup, is left as it is.
RestoreFixed(r) ==
  CASE host[r] # "none" /\ rec[r] = "ours" ->
         host' = [host EXCEPT ![r] = "none"] /\ UNCHANGED backup
    [] host[r] # "none" /\ rec[r] = "pre" /\ backup[r] # None ->
         /\ host' = [host EXCEPT ![r] = backup[r]]
         /\ backup' = [backup EXCEPT ![r] = None]
    [] OTHER -> UNCHANGED <<host, backup>>

\* The services are stopped before the units go.
UndoFixed(p) ==
  \E r \in Fixed :
    /\ Removing(p, r)
    /\ RestoreFixed(r)
    /\ services' = (services /\ r # "units")
    /\ Onward(p)
    /\ UNCHANGED <<original, rec, saved, attempted, manifest, token, foreign,
                   accepted, locks, knows, starts, ills>>

\* Packages, accounts, certificates and firewall rules go when vpn1's record
\* names them, the binaries always, sing-box unless it is recorded to have
\* been there before.
Goes(r) ==
  CASE r \in Listed \cup Marked -> rec[r] = "ours"
    [] r = "sing-box" -> rec[r] # "pre"
    [] OTHER -> TRUE

\* userdel, the package manager or firewall-cmd refuses: the item is added to
\* the residue that is printed at the end, and the removal goes on.
Refused(r) ==
  /\ r \in Listed \cup {"accounts", "firewall"} /\ Goes(r) /\ host[r] # "none"
  /\ Mishap /\ stray' = stray \cup {r}
  /\ UNCHANGED <<host, seen>>

UndoOwned(p) ==
  \E r \in Listed \cup Marked \cup {"sing-box", "binaries"} :
    /\ Removing(p, r)
    /\ \/ host' = [host EXCEPT ![r] = IF Goes(r) THEN "none" ELSE @] /\ UNCHANGED ills
       \/ Refused(r)
    /\ Onward(p)
    /\ UNCHANGED <<original, owned, world, locks, knows, starts>>

\* vpn1's files under /etc/vpn always go, the users with them; the directory
\* goes when the record says that vpn1 made it.
UndoEtc(p) ==
  /\ Removing(p, "etc-vpn")
  /\ host' = [host EXCEPT !["secrets"] = "none",
       !["etc-vpn"] = IF rec["etc-vpn"] = "ours" THEN "none" ELSE @]
  /\ token' = FALSE /\ accepted' = FALSE
  /\ Onward(p)
  /\ UNCHANGED <<original, owned, services, foreign, locks, knows, starts,
                 ills>>

\* rm -rf /var/lib/vpn1 after what is still needed was read, and the lock file.
UndoState(p) ==
  /\ Removing(p, "state")
  /\ treePre' = [treePre EXCEPT ![p] = rec["tree"] = "pre"]
  /\ rec' = [r \in Resource |-> None] /\ backup' = [r \in Fixed |-> None]
  /\ saved' = {} /\ attempted' = FALSE /\ manifest' = "none"
  /\ path' = None
  /\ seen' = seen \cup Beside(Others(p))
  /\ Onward(p)
  /\ UNCHANGED <<original, host, world, inode, holds, fresh, prior, starts,
                 mishaps, stray>>

\* /opt/vpn1 last, then the banner.
UndoTree(p) ==
  /\ Removing(p, "tree")
  /\ host' = [host EXCEPT !["tree"] = IF treePre[p] THEN @ ELSE "none"]
  /\ Exits(p)
  /\ UNCHANGED <<original, owned, world, path, starts, ills>>

----------------------------------------------------------------------------
\* Another program begins to listen on 443 while vpn1 does not.
ForeignBinds ==
  /\ ~services /\ ~foreign
  /\ foreign' = TRUE
  /\ UNCHANGED <<original, host, owned, token, services, accepted, locks, pc, at,
                 half, knows, starts, ills>>

Install(p) ==
  \/ Open(p) \/ Flock(p) \/ Check(p) \/ Mark(p) \/ PersistTree(p)
  \/ WriteInstalling(p) \/ Record(p) \/ PutFile(p) \/ PutMissing(p)
  \/ Make(p) \/ MarkMade(p)
  \/ Start(p) \/ EnsureFirstUser(p) \/ Accept(p) \/ CannotBind(p)

Uninstall(p) ==
  \/ StartUndo(p) \/ UndoFixed(p) \/ UndoOwned(p) \/ UndoEtc(p)
  \/ UndoState(p) \/ UndoTree(p)

Next ==
  \/ \E p \in Run : \/ Install(p) \/ Uninstall(p)
                   \/ Die(p) \/ Err(p) \/ Kill(p) \/ KillUndo(p)
  \/ ForeignBinds

Spec == Init /\ [][Next]_vars

----------------------------------------------------------------------------
(* Properties.                                                             *)

\* While vpn1's own file occupies a fixed path that held a foreign one, the
\* foreign one is in preexisting-backups, whatever runs of install.sh were cut
\* short and however often it was repaired (install_fixed_path_with_ownership).
\* Excepted is an install after a removal that was cut short, which finds the
\* path marked as saved and the copy already moved back.
PredecessorKept ==
  seen \cap {"reinstall", "overlap"} = {} =>
    \A r \in Fixed :
      original[r] = "foreign" /\ host[r] = "vpn1" => backup[r] = "foreign"

\* A complete removal, the rollback of a failed fresh install, or a second
\* removal after one that was cut short, leaves the host as it was before
\* vpn1: everything vpn1 put there is gone and everything foreign is back
\* (restore_or_remove_fixed_path, ownership_get).  Excepted are what was made
\* by a run that stopped before recording it, what a removal reported as left
\* behind, and a sing-box that was there before, which is not kept.
UninstallRestores ==
  [][\A p \in Run :
       UndoTree(p) /\ seen \cap {"reinstall", "overlap"} = {} =>
         \A r \in Resource \ (stray \cup {"sing-box"}) : host'[r] = original[r]]_vars

\* A deployment recorded as accepted is whole: every resource is on the host,
\* its services run, and it has a first user (start_stage, acceptance_stage).
AcceptedMeansWhole ==
  /\ manifest = "accepted" /\ (\A p \in Run : pc[p] # "undo")
  /\ seen \cap {"cut removal", "overlap"} = {}
  => /\ services /\ token
     /\ \A r \in Resource : host[r] # "none"

\* The automatic rollback never removes a deployment that was ever accepted:
\* only an operator's uninstall.sh does (on_fatal_error), unless an earlier
\* rollback let two runs past the lock.
RollbackSparesAccepted ==
  [][\A p \in Run :
       accepted /\ "overlap" \notin seen /\ pc[p] # "undo" /\ pc'[p] = "undo" =>
         starts' # starts]_vars
=============================================================================
