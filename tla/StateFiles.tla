----------------------------- MODULE StateFiles -----------------------------
(***************************************************************************)
(* The two state files whose format can change, deployment.toml and        *)
(* users.json: who loads them, and how `vpn-admin config migrate' rewrites *)
(* them.  Every command loads deployment.toml before it waits for the      *)
(* state lock; a migration examines, backs up and replaces first the one   *)
(* file and then the other, loads deployment.toml again and renders; user  *)
(* commands save users.json in the current format whatever it was in; the  *)
(* operator may edit deployment.toml at any time, without the lock.        *)
(*                                                                         *)
(* A file is a form (what the parsers make of it) and a value: the         *)
(* settings of deployment.toml, the table of users.json.  The transaction  *)
(* around a user command is UserTransaction's and is two steps here.       *)
(***************************************************************************)
EXTENDS Integers

CONSTANTS
  Admin,         \* vpn-admin invocations, concurrently
  Nobody,        \* the value of `holder' when no process has the lock
  None,          \* no value
  Torn,          \* a backup that was created and not yet written
  Never,         \* expires_at: None
  Setting,       \* what deployment.toml may say
  InitialFiles,  \* the two files as the model may start
  MaxNow,        \* bound on the clock
  MaxDraws,      \* bound on CSPRNG draws
  MaxEdits,      \* bound on edits of deployment.toml
  MaxMishaps     \* bound on failures, kills and power losses

Toml == "deployment.toml"
Users == "users.json"
File == {Toml, Users}

VARIABLES
  file,      \* the live files
  backups,   \* <name>.pre-migration-<second>.bak
  unsynced,  \* what a file held before a rename that is not on disk yet
  holder,    \* the holder of the state lock
  pc,        \* where each process is
  cmd,       \* the command it runs
  cfg,       \* the settings it loaded
  got,       \* what it read: the file to migrate, or the table to save
  document,  \* the settings config.json was last rendered with
  now,       \* the clock, in seconds
  draws,     \* CSPRNG draws
  edits,     \* edits so far
  mishaps,   \* failures, kills and power losses so far
  stale,     \* history: who read the settings before the last edit
  replaced,  \* history: what migrations replaced
  raced      \* history: an edit fell into a migration of deployment.toml

fvars == <<file, backups, unsynced, holder, pc, cmd, cfg, got, document, now,
           draws, edits, mishaps, stale, replaced, raced>>

Mishap == mishaps < MaxMishaps /\ mishaps' = mishaps + 1
Goto(p, from, to) == pc[p] = from /\ pc' = [pc EXCEPT ![p] = to]

----------------------------------------------------------------------------
(* What the parsers make of a file.  A deployment.toml without the marker  *)
(* is schema 0 ("legacy"); one that says 0 itself is "zero".               *)

\* DeploymentConfig::load and validate.
LoadsConfig(f) == f.form \in {"legacy", "zero", "current"}

\* load_users and parse_users_bytes; a missing file is an empty table.
LoadsUsers(f) == f.form \in {"missing", "legacy", "current"}

\* detect_users_schema, and the checks of migrate_deployment_toml.
Refused(f) == f.form \in {"future", "corrupt"}

\* migrate_deployment_toml_text looks for a line with the marker.
NeedsMigration(f) == f.form = "legacy"

cmd_config_validate(toml, users) ==
  IF Refused(users) THEN "INVALID"
  ELSE IF toml.form \in {"legacy", "zero"} \/ users.form = "legacy"
  THEN "MIGRATION_REQUIRED" ELSE "OK"

\* The marker line is put in front, or the array into the envelope; both
\* are parsed again and compared with the original before anything is
\* written.
Migrated(f) == [f EXCEPT !.form = "current"]

----------------------------------------------------------------------------
(* main: deployment.toml is loaded first, then the lock is waited for.     *)

Command == {"config migrate", "user", "render-config"}

Start(p, c) ==
  /\ LoadsConfig(file[Toml])
  /\ Goto(p, "idle", "waiting")
  /\ cmd' = [cmd EXCEPT ![p] = c]
  /\ cfg' = [cfg EXCEPT ![p] = file[Toml].val]
  /\ UNCHANGED <<file, backups, unsynced, holder, got, document, now, draws,
                 edits, mishaps, stale, replaced, raced>>

First(c) == CASE c = "config migrate" -> Toml
              [] c = "user" -> "load"
              [] c = "render-config" -> "render"

\* Mutant: the lock is not waited for.
EnterUnlocked(p) ==
  /\ holder' = p
  /\ Goto(p, "waiting", First(cmd[p]))
  /\ UNCHANGED <<file, backups, unsynced, cmd, cfg, got, document, now, draws,
                 edits, mishaps, stale, replaced, raced>>

acquire_state_lock(p) ==
  /\ holder = Nobody
  /\ holder' = p
  /\ Goto(p, "waiting", First(cmd[p]))
  /\ UNCHANGED <<file, backups, unsynced, cmd, cfg, got, document, now, draws,
                 edits, mishaps, stale, replaced, raced>>

\* The processes of S are gone, and with them their memory and their lock.
Gone(S) ==
  /\ pc' = [p \in Admin |-> IF p \in S THEN "idle" ELSE pc[p]]
  /\ cmd' = [p \in Admin |-> IF p \in S THEN "none" ELSE cmd[p]]
  /\ cfg' = [p \in Admin |-> IF p \in S THEN None ELSE cfg[p]]
  /\ got' = [p \in Admin |-> IF p \in S THEN None ELSE got[p]]
  /\ holder' = IF holder \in S THEN Nobody ELSE holder
  /\ stale' = stale \ S

Exit(p) ==
  /\ Gone({p})
  /\ UNCHANGED <<file, backups, unsynced, document, now, draws, edits,
                 mishaps, replaced, raced>>

----------------------------------------------------------------------------
(* config migrate.  The label of a process is the file it examines, or the *)
(* step it takes with the file in got.                                     *)

\* Mutant: only the file that needs it is looked at.
OneFileOnly(f) == "reload"

AfterFile(f) == IF f = Toml THEN Users ELSE "reload"

\* The original is read and parsed, the migrated form computed and checked.
Examine(p, f) ==
  /\ pc[p] = f
  /\ ~Refused(file[f])
  /\ \/ /\ NeedsMigration(file[f])
        /\ Goto(p, f, "backup")
        /\ got' = [got EXCEPT ![p] = [of |-> f, old |-> file[f], sec |-> None,
                                      bytes |-> None]]
     \/ /\ ~NeedsMigration(file[f])
        /\ Goto(p, f, AfterFile(f))
        /\ UNCHANGED got
  /\ UNCHANGED <<file, backups, unsynced, holder, cmd, cfg, document, now,
                 draws, edits, mishaps, stale, replaced, raced>>

\* A corrupted or a newer file is refused and left alone.
ExamineRefuses(p, f) == pc[p] = f /\ Refused(file[f]) /\ Exit(p)

Put(b) == {x \in backups : x.of # b.of \/ x.sec # b.sec} \cup {b}

\* backup_before_mutate: the file is read again, and the backup of this
\* second created or truncated, ...
BackupOpens(p) ==
  /\ Goto(p, "backup", "backing")
  /\ got' = [got EXCEPT ![p].sec = now, ![p].bytes = file[got[p].of]]
  /\ backups' = Put([of |-> got[p].of, sec |-> now, is |-> Torn])
  /\ UNCHANGED <<file, unsynced, holder, cmd, cfg, document, now, draws,
                 edits, mishaps, stale, replaced, raced>>

\* ... written, and synced.
BackupWritten(p) ==
  /\ Goto(p, "backing", "swap")
  /\ backups' = Put([of |-> got[p].of, sec |-> got[p].sec,
                     is |-> got[p].bytes])
  /\ UNCHANGED <<file, unsynced, holder, cmd, cfg, got, document, now, draws,
                 edits, mishaps, stale, replaced, raced>>

\* Mutant: the file is replaced before it is backed up.
SwapBeforeBackup(p) ==
  LET f == got[p].of IN
  /\ pc[p] \in {"backup", "swap"}
  /\ pc' = [pc EXCEPT ![p] = "sync"]
  /\ file' = [file EXCEPT ![f] = Migrated(got[p].old)]
  /\ unsynced' = [unsynced EXCEPT ![f] = file[f]]
  /\ replaced' = replaced \cup {[of |-> f, is |-> file[f]]}
  /\ UNCHANGED <<backups, holder, cmd, cfg, got, document, now, draws, edits,
                 mishaps, stale, raced>>

\* atomic_write: temporary file, sync, rename, ...
Swap(p) ==
  LET f == got[p].of IN
  /\ Goto(p, "swap", "sync")
  /\ file' = [file EXCEPT ![f] = Migrated(got[p].old)]
  /\ unsynced' = [unsynced EXCEPT ![f] = file[f]]
  /\ replaced' = replaced \cup {[of |-> f, is |-> file[f]]}
  /\ UNCHANGED <<backups, holder, cmd, cfg, got, document, now, draws, edits,
                 mishaps, stale, raced>>

\* ... and sync of the directory.
SyncDirectory(p) ==
  /\ Goto(p, "sync", AfterFile(got[p].of))
  /\ unsynced' = [unsynced EXCEPT ![got[p].of] = None]
  /\ got' = [got EXCEPT ![p] = None]
  /\ UNCHANGED <<file, backups, holder, cmd, cfg, document, now, draws, edits,
                 mishaps, stale, replaced, raced>>

\* Reading, backing up or replacing fails: the error ends the command.
MigrateFails(p) ==
  /\ pc[p] \in File \cup {"backup", "backing", "swap"}
  /\ Mishap
  /\ Gone({p})
  /\ UNCHANGED <<file, backups, unsynced, document, now, draws, edits,
                 replaced, raced>>

\* Mutant: render with the settings loaded before the lock.
SkipReload(p) ==
  /\ Goto(p, "reload", "render")
  /\ stale' = stale \ {p}
  /\ UNCHANGED <<file, backups, unsynced, holder, cmd, cfg, got, document,
                 now, draws, edits, mishaps, replaced, raced>>

Reload(p) ==
  /\ LoadsConfig(file[Toml])
  /\ Goto(p, "reload", "render")
  /\ cfg' = [cfg EXCEPT ![p] = file[Toml].val]
  /\ stale' = stale \ {p}
  /\ UNCHANGED <<file, backups, unsynced, holder, cmd, got, document, now,
                 draws, edits, mishaps, replaced, raced>>

\* The document is rendered with the settings p holds.
Renders(p) ==
  /\ document' = cfg[p]
  /\ stale' = IF p \in stale THEN stale \cup {"document"}
              ELSE stale \ {"document"}

\* regenerate_singbox_config: its failure ends render-config, and is a
\* warning of a migration.
Render(p) ==
  /\ Goto(p, "render", "reported")
  /\ \/ /\ LoadsUsers(file[Users])
        /\ Renders(p)
        /\ UNCHANGED mishaps
     \/ /\ IF LoadsUsers(file[Users]) THEN Mishap ELSE UNCHANGED mishaps
        /\ UNCHANGED <<document, stale>>
  /\ UNCHANGED <<file, backups, unsynced, holder, cmd, cfg, got, now, draws,
                 edits, replaced, raced>>

Reported(p) == pc[p] = "reported" /\ Exit(p)

----------------------------------------------------------------------------
(* User commands.                                                          *)

Published == IF LoadsUsers(file[Users]) THEN file[Users].val ELSE {}

Store == INSTANCE UserStore WITH users <- Published

Draw == draws < MaxDraws /\ draws' = draws + 1

\* The table is loaded, changed and applied; an error ends the command.
LoadAndApply(p) ==
  /\ LoadsUsers(file[Users])
  /\ Goto(p, "load", "save")
  /\ \/ Draw /\ \E new \in Store!Drawn(file[Users].val, draws + 1, Never) :
                  got' = [got EXCEPT ![p] = new]
     \/ UNCHANGED draws /\ \E new \in Store!Undrawn(file[Users].val) :
                             got' = [got EXCEPT ![p] = new]
  /\ Renders(p)
  /\ UNCHANGED <<file, backups, unsynced, holder, cmd, cfg, now, edits,
                 mishaps, replaced, raced>>

LoadRefuses(p) ==
  /\ pc[p] = "load"
  /\ ~LoadsUsers(file[Users])
  /\ Exit(p)

\* save_users_atomic always writes the current envelope, and syncs.
save_users_atomic(p) ==
  /\ pc[p] = "save"
  /\ file' = [file EXCEPT ![Users] = [form |-> "current", val |-> got[p]]]
  /\ unsynced' = [unsynced EXCEPT ![Users] = None]
  /\ Gone({p})
  /\ UNCHANGED <<backups, document, now, draws, edits, mishaps, replaced,
                 raced>>

----------------------------------------------------------------------------
Kill(p) ==
  /\ pc[p] # "idle"
  /\ Mishap
  /\ Gone({p})
  /\ UNCHANGED <<file, backups, unsynced, document, now, draws, edits,
                 replaced, raced>>

\* A rename whose directory was not synced may or may not have reached the
\* disk.
PowerLoss ==
  /\ Mishap
  /\ Gone(Admin)
  /\ \E lost \in SUBSET {f \in File : unsynced[f] # None} :
       /\ file' = [f \in File |-> IF f \in lost THEN unsynced[f] ELSE file[f]]
       /\ replaced' = replaced \ {[of |-> f, is |-> unsynced[f]] : f \in lost}
  /\ unsynced' = [f \in File |-> None]
  /\ UNCHANGED <<backups, document, now, draws, edits, raced>>

Tick ==
  /\ now < MaxNow
  /\ now' = now + 1
  /\ UNCHANGED <<file, backups, unsynced, holder, pc, cmd, cfg, got, document,
                 draws, edits, mishaps, stale, replaced, raced>>

\* The operator saves deployment.toml with other settings.
Edit(s) ==
  /\ edits < MaxEdits
  /\ edits' = edits + 1
  /\ s # file[Toml].val
  /\ file' = [file EXCEPT ![Toml].val = s]
  /\ unsynced' = [unsynced EXCEPT ![Toml] = None]
  /\ stale' = {p \in Admin : pc[p] # "idle"} \cup {"document"}
  /\ raced' = (raced \/ \E p \in Admin :
                 pc[p] \in {"backup", "backing", "swap"} /\ got[p].of = Toml)
  /\ UNCHANGED <<backups, holder, pc, cmd, cfg, got, document, now, draws,
                 mishaps, replaced>>

FilesStep(p) ==
  \/ \E c \in Command : Start(p, c)
  \/ acquire_state_lock(p)
  \/ \E f \in File : Examine(p, f) \/ ExamineRefuses(p, f)
  \/ BackupOpens(p) \/ BackupWritten(p) \/ Swap(p) \/ SyncDirectory(p)
  \/ MigrateFails(p) \/ Reload(p) \/ Render(p) \/ Reported(p)
  \/ LoadAndApply(p) \/ LoadRefuses(p) \/ save_users_atomic(p)
  \/ Kill(p)

FilesNext ==
  \/ \E p \in Admin : FilesStep(p)
  \/ \E s \in Setting : Edit(s)
  \/ PowerLoss
  \/ Tick

FilesInit ==
  /\ file \in InitialFiles
  /\ backups = {}
  /\ unsynced = [f \in File |-> None]
  /\ holder = Nobody
  /\ pc = [p \in Admin |-> "idle"]
  /\ cmd = [p \in Admin |-> "none"]
  /\ cfg = [p \in Admin |-> None]
  /\ got = [p \in Admin |-> None]
  /\ document = file[Toml].val
  /\ now = 0
  /\ draws = 1
  /\ edits = 0
  /\ mishaps = 0
  /\ stale = {}
  /\ replaced = {}
  /\ raced = FALSE

FilesSpec == FilesInit /\ [][FilesNext]_fvars

----------------------------------------------------------------------------
\* A migration that reports "MODE: OK" has left both files in the current
\* format, also when an earlier one was killed between the two: what it
\* found migrated it leaves, the rest it migrates.  (A marker that says 0
\* is not replaced, see the README.)
MigratedMeansCurrent ==
  \A p \in Admin :
    pc[p] = "reported" /\ cmd[p] = "config migrate" =>
      \/ cmd_config_validate(file[Toml], file[Users]) = "OK"
      \/ file[Toml].form = "zero"

\* Whatever a migration replaced is in a whole backup, through kills, power
\* losses and repeated migrations in one second, unless the operator edited
\* the file while it was being migrated.
OriginalRecoverable ==
  \A r \in replaced :
    \/ \E b \in backups : b.of = r.of /\ b.is = r.is
    \/ r.of = Toml /\ raced

\* deployment.toml is read before the lock is waited for, and yet a command
\* renders with settings other than the file's only when the operator edited
\* it after the command began: migrations that went first change no setting.
SettingsCurrent ==
  raced \/ /\ \A p \in Admin : pc[p] # "idle" =>
                p \in stale \/ cfg[p] = file[Toml].val
           /\ "document" \in stale \/ document = file[Toml].val

\* What users.json holds for its readers changes by one whole user command
\* at a time: neither a migration nor a kill or a power loss in the middle
\* of one changes it.
MigrationInvisible == Store!Spec
=============================================================================
