# A TLA+ verification of vpn1

vpn1 is two systems in one repository:

- the **Hiddify-compatible deployment**, the supported surface: `vpn-admin`
  keeps users and keys and renders a sing-box document from them, the
  subscription service hands out profiles, systemd runs sing-box, and shell
  scripts install, update, renew and remove it all;
- the **native stack**, for development: a client daemon with a connection
  engine, a rendezvous service that signs relay bundles, and a relay agent.

This directory models both as state machines, checks them with TLC on small
instances, and proves the central guarantees of `vpn-admin`'s user commands,
the subscription service and the native stack with TLAPS for every value of
the constants. `PROJECT.json` maps every definition to the lines it models.

Run one check with, say, `tlc -config UserTransaction.cfg MCUserTransaction`,
and the proofs of a module with `tlapm UserTransactionProofs.tla`.

## Inventory

| Part | State | Operations | Meets | What makes it hard |
|---|---|---|---|---|
| User commands (`apps/admin/src/main.rs`) | users.json | create, enable, disable, rotate, rotate-token, remove | state lock, sing-box, vpn-subscription, timer | sing-box is reloaded before users.json is saved; a kill in between |
| Applying the document (`render_and_apply_singbox_config`) | config.json, its backup, the applied stamp | render, check, swap, restart, self-test, stamp, copy back | sing-box under systemd | restarts fail or go unanswered; the copy back is not atomic |
| Key rotations | key files, `.rotate-bak` siblings | backup, install file by file, restart both services, commit or roll back | the two above, vpn-subscription | a failure or a kill at any of some twenty steps; retries over stale siblings |
| Backup and restore | users.json and key files, siblings | archive, validate, replace, apply, roll back | rotations, timer | two kinds of files, two services, one rollback |
| Reconciliation timer | none of its own | render-config every minute | everything under the lock | has to repair what failures leave |
| State files (`config migrate`, `config validate`) | deployment.toml, users.json, `.pre-migration` backups | examine, back up, replace one file and then the other, render | user commands, an operator's editor | a cut migration; settings read before the lock |
| `doctor` | none of its own | six layers of checks, a summary, an exit status | every part of one host | takes no lock; must neither clear a broken host nor fail a working one |
| Subscription service | key material cached at start; rate limiter | limit, load users.json, look up, render; evict | user commands, rotations, restores | shares no lock with vpn-admin; stale cache; a bounded map of buckets |
| Certificate hook (`certbot-deploy-hook.sh`) | certificate and key, backups | keep, swap, check, reload, undo | restore, sing-box, nginx | two renames; signals; a lock shared with Rust |
| Updater (`update.sh`) | tree, binaries, units, config, manifest, marker | stage, switch, activate, verify, commit, roll back, repair, dev-rebuild | vpn-admin, systemd | a swap of many files; two locks; kills and reboots |
| Installer and remover (`install.sh`, `uninstall.sh`, `ownership.sh`) | eleven kinds of host resources, ownership record, manifest | install, repair, automatic rollback, remove | foreign software on the host | what was there before must come back |
| Connection engine (`client-daemon`, `policy`, `failure-classifier`) | score board, shutdown guard | connect, select, dial, score, cool down | the network | tasks share both between awaits; ticks arrive out of order |
| Bundles (`rendezvous`, `rendezvous-client`, `config`, `keytool`) | issued certificates, revocations, cache | issue, rotate, revoke, sign, verify, fetch, cache | operator, daemon | key rotation, expiry, torn cache |
| Relay agent | identity files; permits, timers | load or generate, serve; accept, dial, copy, time out | clients, disk | kills while saving; silent peers |

`PROJECT.json` lists the rest (status commands, rendering details, firewall
and benchmark scripts, containers, fuzz targets, unused crates) with the
reason why there is nothing to model or why it is left for later, and the
hazards of each part at the line where they bite.

## Modules

```
VpnHost <- ApplyConfig <- UserTransaction <- VpnAdmin <- Doctor
                 ^              |               (VpnAdmin: also KeyRotation)
                 |              +--- implements ---> UserStore
                 +- KeyRotation <- BackupRestore         ^  ^
StateFiles --- implements -------------------------------+  |
RateLimiter <- Subscription --- uses as its environment ----+
UserTransaction <- UserTransactionProofs <- RevocationProofs <- LiveProofs
RateLimiter <- LimiterProofs,  Subscription <- SubscriptionProofs
CertRenewal     Updater     Installer
ShutdownGuard + ScoreBoard <- ConnectionEngine <- EngineProofs
Rendezvous <- RendezvousProofs
RelayIdentity <- RelayAgent <- RelayProofs
```

An arrow means EXTENDS. Modules named `MC...` give constants their values.
Mutated forms of a few definitions, marked "Mutant:", stand before them. They
are used nowhere: each shows a bug that one of the properties would catch.

**VpnHost** is one server: the files (`users`, `config`, `bak`, `stamp`,
`keys`), what the running services loaded (`live`, `adv`), the clock, the lock
and the local state of every process. A process is a program counter with the
values its function holds (`prev`, `cand`, `doc`, `req`, `ret`). `Kill`,
`Reboot`, a sing-box that dies and systemd's restarts are defined once, here.
The document is reduced to the authorized credentials and the key material;
ids, credentials, tokens and keys are numbers drawn from one counter.

**ApplyConfig** is `render_and_apply_singbox_config` step by step: refuse,
take the already-current shortcut, back up, swap, restart and verify,
self-test, stamp, or copy back and restart again. An action ends where another
process could look or the machine could stop, that is, at each file operation
and each systemctl call.

**UserTransaction** adds the user commands: lock, load, change, apply, save,
and the undo when the save fails. **UserStore** is the abstract promise of
users.json (one whole command at a time) and `UserTransaction` is shown to
implement it (`Store!Spec`, the property `PublishesOneCommandAtATime`).

**StateFiles** has the two files with a versioned format. A file is what the
parsers make of it (legacy, current, future, corrupt, missing, or a marker
that says 0) and a value. Commands load deployment.toml before they wait for
the lock, migrations replace first the one file and then the other, and an
operator may edit deployment.toml at any time. Renames are durable only after
a sync, so a power loss may undo one. It implements the same `UserStore`, with
`users <- Published`, the table a reader would make of the file
(`MigrationInvisible`).

**Subscription** is a request to vpn-subscription: the limiter, the load of
users.json, the clock, the lookup and the profile. Of vpn-admin it uses
`UserStore` only, which is what the two refinements entitle it to. The history
variable `window` collects what users.json and the clock were while a request
ran. Limiter and expiry share one clock.

**Doctor** is `vpn-admin doctor` as an operator over a state of VpnAdmin and a
set of surrounding conditions (a tool missing, a port blocked, a certificate
ended). It is evaluated in every reachable state without a running command.
The conditions are of three kinds: those a host works in spite of, those that
break it, and one that `doctor` misjudges (below).

**KeyRotation** has `init --rotate` and `hysteria-obfs-rotate`, which take the
same steps over different files, and the whole rollback closure.
**VpnAdmin** composes user commands, rotations and the timer on one host.
**BackupRestore** adds `backup` and `restore` to the rotations.

**CertRenewal**, **Updater** and **Installer** model the shell scripts: one
action per command that changes the host, with the scripts' traps (`ERR`,
`EXIT`, signals) as the steps they run. Updater has two locks, several
invocations, and vpn-admin processes of the old and the new release; beside
config.json it has the stamp of what was last applied, and the configuration
sing-box really runs. Installer keeps, for each resource, whether it is
absent, foreign or vpn1's, beside what the ownership record says.
uninstall.sh takes no lock, so a removal may start while an install works.

**ConnectionEngine** runs tasks over **ShutdownGuard** (the window and its
cooldown) and **ScoreBoard** (failures and quarantine); an action is what a
task does between two awaits. A dial goes through the TCP connection and, for
direct-tls, the handshake; `met` collects the network conditions it ran into,
and the failure categories that the transport can report for them follow from
the error it would have seen. **Rendezvous** takes a signature for the key
that made it. **RelayAgent** is the direct-tls listener with its timers in
ticks, started from a **RelayIdentity** that may be killed while it is saved.
**RateLimiter** is the token bucket in integers; a token is `Cost` of them.

### Faults

Most modules count what goes wrong in `mishaps`: a command that fails or does
not answer, a signal, a kill, a reboot. Every fault the code can meet at a
step is an alternative of that step, bounded by `MaxMishaps`. Some
guarantees hold only up to a number of faults, or except after a certain
event; the condition is then in the property (`mishaps <= 1`, or a history
variable: `seen`, `stray`, `whole`, `killed`) and explained below.

## Runs

| Run | Instance | What it shows |
|---|---|---|
| `user_transaction` | 2 operators, timer, 1 user that expires, 2 mishaps | users.json changes by whole commands (`PublishesOneCommandAtATime`, a refinement), after the running server does (`PublishesAfterLive`); "live" is true (`WentLiveIsLive`); config.json is not left torn (`NeverLeftTorn`); a revoked credential never comes back (`RevokedStaysRevoked`) |
| `vpn_admin` | 1 operator, timer, no user at first, 2 draws, 1 expiry, 1 mishap, fair | every served profile is accepted while nothing fails (`ServedProfilesWork`); the timer brings the running server to the right document (`AdminReconciled`); `doctor` passes only a host that serves (`DoctorPassMeansServing`) and fails none that works (`NoFalseAlarm`) |
| `state_files` | 2 commands at a time, 6 pairs of formats, 2 draws, 1 edit, 1 mishap | "MODE: OK" means both files are current (`MigratedMeansCurrent`); originals are recoverable (`OriginalRecoverable`); settings read before the lock are still the file's (`SettingsCurrent`); the table changes by user commands only (`MigrationInvisible`, a refinement) |
| `subscription` | 3 peers, 2 buckets, 1 request at a time, 2 users, 2 commands, 2 ticks | the map is bounded (`LimiterTypeOK`), no interval grants more than a bucket and its refill (`NoBurst`), every answer is right for some moment of its request (`AnswerExplained`) |
| `restore` | 1 operator, timer, 3 archives, 2 mishaps | what restore and rotation report is true (`ChangedMeansAgreement`, `RolledBackMeansPrevious`); what they replace is never lost (`PreviousStateRecoverable`) |
| `renewal` | 2 renewals, restores, 2 mishaps, fair | a matching pair is always recoverable (`PairRecoverable`) and in place when the lock is free (`PairMatchesUnlocked`); reports are true (`HookReportTrue`); the hook ends (`HookEnds`) |
| `update` | 4 releases, 2 invocations, 3 modes, 1 mishap, fair | reports are true (`UpdateReportTrue`), a half-swapped host is noticed (`HalfSwapIsMarked`), every update ends (`EveryUpdateEnds`), the timer loads what is to be rendered (`RenderingCatchesUp`) |
| `update_migration` | 1 invocation to a release with a newer schema | **violated**: the update waits for a lock it holds itself (see below) |
| `install` | 2 shells, 4 invocations, 3 hosts with foreign units, vhost, sing-box, accounts, firewall rules, certificate or directory, 2 mishaps | removal restores the host (`UninstallRestores`), foreign files are kept (`PredecessorKept`), the rollback spares an accepted deployment (`RollbackSparesAccepted`), an accepted one is whole (`AcceptedMeansWhole`) |
| `engine` | 2 tasks, 2 candidates of different transport, 2 networks, threshold 1, fair | at most one dial per other task begins in a cooldown (`BoundedCycling`); an outage costs a direct-tls candidate one failure per connection at most (`LocalOutageSparesScores`); cooldown and quarantine are not dead ends (`Recovers`) |
| `rendezvous` | 2 release and 2 bundle keys, 3 ticks, 2 mishaps, fair | only certified bundles are used or cached (`TrustedIsCertified`); a daemon that asks comes up while the service answers with what it accepts (`OnlineComesUp`) |
| `relay` | 3 connections, 2 permits, 2 mishaps, fair | clients see one certificate (`PinKept`); sessions end on silence and only then (`SilenceEndsSessions`); permits come back (`PermitsReturn`) |

Distinct states found: `user_transaction` 279,541, `vpn_admin` 204,459,
`state_files` 854,458, `subscription` 1,314,751, `restore` 918,299, `renewal`
8,742, `update` 216,944, `install` 553,962, `engine` 409,150, `rendezvous`
218,472, `relay` 22,715.

### Bounds

- **Mishaps.** Two are enough for a failure and a failure of its rollback, or
  for a kill and a failure of the retry. `vpn_admin`, `update` and
  `state_files` have one: their properties are about recovery from a fault,
  and each composes several programs. (`state_files` also passes with two, in
  2,425,780 states.)
- **Draws** (`MaxFresh`). In `vpn_admin` two draws make every ordered pair of
  create, credential rotation, token rotation and key rotation; commands that
  draw nothing (disable, enable, remove) are not bounded. The host starts
  without users, as `vpn-admin init` leaves it, so a user is created first
  where one is needed.
- **Clock.** One tick crosses the only expiry. In `relay` the timeouts
  differ (2, 1 and 3 ticks), and an idle window is longer than a tick, so
  bytes fall anywhere in it.
- **Releases.** One older, one installed, two newer: one renders another
  config.json with the same sing-box, so that only render-config can load it,
  and one pins another sing-box as well, so a mixture is visible. Since all
  that can read the state write the same schema, a user command beside the
  update does what render-config does, and `update` has only the latter.
- **Invocations.** Two updates are one after another, or one that waits for
  the other's lock. Four invocations of the installer are an install, repairs
  or removals, and what follows a cut one. A behaviour of `install` is not
  followed past the point where two runs work at once (`MCApart`): every
  property of the module excepts what comes after.
- **Subscription.** Two buckets for three peers: every new peer forces an
  eviction. One request at a time is enough for `AnswerExplained`, since
  requests meet only in the limiter; the proof is for any number. Two commands
  are a change and its undoing within one request, and one user expires at the
  first tick.
- **State files.** Two commands are one that migrates and one that has read
  deployment.toml before it. One edit falls before, into or after a migration.
- **Engine.** A failure quarantines at once and a window of 4 fills in two
  connections, so cooldowns and quarantines overlap; a drawn tick may be
  overtaken by one other (`MaxAge`); the proofs of its two safety
  properties hold for any `MaxAge`.

`install`, `state_files` and `update_migration` do not check deadlock: the
number of invocations (of draws, of edits) is bounded, and then the system
rests. In the others a rest state
always has a step left (the timer, the clock, a weather change).
Symmetry is used for operators, shells, commands and peers, in runs without
liveness properties only.

### Fairness

- *A step of a running command is eventually taken* (`vpn_admin`, `renewal`,
  `update`): every systemctl call and every wait of the code has a timeout,
  and the OS schedules processes. In `vpn_admin` one weak condition covers the
  command that has the lock and, when none has, the timer
  (`OnUnitActiveSec=1min`). No operator has to act.
- *flock is granted* (strong fairness for the hook and the updater): the
  waiters are blocked in the kernel, which serves them in turn, and holders
  release it in between.
- *Engine*: applications keep connecting, a dial ends (it has a timeout),
  quarantine expires with time, and the weighted random choice takes every
  eligible candidate now and then (strong fairness of `Select`; it holds with
  probability one).
- *Relay*: timers fire, time passes, systemd restarts the process. No peer has
  to send anything.
- *Rendezvous*: a daemon that runs takes its next step. Nothing starts one
  that has stopped: client-daemon has no unit and no supervisor
  (`deploy/local/run-dev-slice.sh:51` starts it once). So `OnlineComesUp` asks
  nothing of a daemon that stops, and a start is not assumed.
- *Nothing* is assumed of failures, kills, reboots, the network or operators.

### Conditions on the properties

While modelling, the code was found to do less than a comment or a message
says in a number of places. Where that limits a property, the property carries
the condition; without it TLC finds the counterexample.

- `WentLiveIsLive`, `ChangedMeansAgreement`: config.applied.sha256 is not
  invalidated before config.json is replaced, and rotations do not update it
  (main.rs:1352). After two faults a command can take an old match for proof
  that its document is live. One fault cannot do it: that is proved.
- `PublishesAfterLive` excepts a command whose apply returned "not live": when
  systemctl stops answering after the swap, the command goes on without
  consulting `require_live_apply` (main.rs:1367).
- `NeverLeftTorn` allows one fault: the copy back of config.json, which
  truncates first, is itself the consequence of a fault (main.rs:1387).
- `RolledBackMeansPrevious` allows one fault, the one that starts the
  rollback, and so says nothing of a rollback step that fails: a rotation's
  rollback counts a service that systemctl cannot reach as recovered
  (main.rs:765). The message after the undo of a failed save has
  the same shape (main.rs:2044), and no property is stated of it.
- `ChangedMeansAgreement` excepts a restore in which systemctl did not
  answer: success is printed all the same (main.rs:5680).
- `AdminReconciled` requires a keyset that belongs together: a rotation killed
  between two key files leaves one that cannot be rendered until an operator
  puts the siblings back (main.rs:793).
- `HalfSwapIsMarked` excepts a rollback that failed, since it removes the
  marker all the same (update.sh:681), and a dev-rebuild.
- `UpdateReportTrue` speaks of updates that found the recorded release whole
  and running: the marker is looked for before the lock is held
  (update.sh:143), and repair does not replace sing-box (update.sh:523).
- `UpdateReportTrue` does not say that sing-box has loaded the new config.json
  when the update is reported complete. If systemctl does not answer
  render-config, it writes the file, leaves the running sing-box alone and
  exits 0 (main.rs:1367-1383); the script takes the changed file for a
  reloaded one (update.sh:795), and `doctor` compares files. What the property
  does say is that config.applied.sha256 then differs from config.json, so the
  timer's next render-config loads it (`RenderingCatchesUp`, which is about
  the file and the configuration sing-box runs). This is for one fault;
  after two, an old stamp can match again (see `WentLiveIsLive`).
- `UninstallRestores` excepts sing-box, of which no copy is kept
  (install.sh:1075), and two kinds of stray resources. One was made by a run
  that stopped, by a kill or a failing command, before it was recorded:
  firewall.sh opens 443/tcp, 443/udp and the subscription port in turn and
  writes its record after the last (firewall.sh:71-88), so if the second add
  fails, the rollback finds no record and leaves the first port open, and a
  later install takes it for foreign. ownership.sh:11 says that a crash at any
  stage "still leaves an accurate record of everything done so far". The
  other is what a removal could not remove and reported (a user, a group, a
  package, a firewall rule): the removal goes on and deletes the record
  (uninstall.sh:351-373, 457-477, 516-525), so a second removal does not try
  again. A failing `rm` is not modelled.
- `PredecessorKept` and `UninstallRestores` except a new install after a cut
  removal: it finds the path marked as saved and the copy gone
  (uninstall.sh:118).
- All properties of Installer except two runs that work at once. uninstall.sh
  takes no lock and unlinks the lock file (uninstall.sh:610), so a run that
  already waits for the old file and one that opens a new one both proceed. A
  run that waited through a removal is excepted as well: it looked for
  /opt/vpn1 before it waited (install.sh:399) and records a tree as
  pre-existing that is gone, so that no removal ever deletes the new one.
- `PairMatchesUnlocked` excepts KILL. A hook that is killed leaves
  `.renew-bak` files, and those stop later renewals until an operator acts
  (certbot-deploy-hook.sh:101), so no property says that renewals always
  take effect.
- `OnlineComesUp` needs an answering service: a torn cache is of no use
  without one (rendezvous-client/src/lib.rs:118). A relay with a torn key file
  does not come up again (server.rs:46), so no property says that it does.
- `TrustedIsCertified` does not mention revocation or the expiry of a bundle in
  use. The daemon verifies with an empty revocation list, and it keeps using
  the bundle it started with after that has expired;
  docs/RENDEZVOUS_DESIGN.md:32-42 says that an expired bundle never "silently
  remains trusted" and that a key can be revoked by a list. The lists are
  issued and served in the model (`revoked`, `server.list`), and no property
  reads them.
- `LocalOutageSparesScores` is about the score board and direct-tls only, and
  allows one failure per connection and outage. A dial that began online and
  fails in its handshake, or by its timeout, when the host has gone offline is
  charged to the relay, since the error does not tell; every later dial is
  refused by the host itself, and that error does. The shutdown guard is fed
  by local outages as well (engine.rs:171).
- `BoundedCycling` allows a few dials in a cooldown, one for each other
  connection that had passed the check. The comment at
  failure-classifier/src/lib.rs:106-111 says that there are none, and
  concludes that the window holds exactly the failures that armed the
  cooldown. Clearing the window is right all the same (`Recovers`).
- `PermitsReturn` takes an ingress relay's write of the destination to the next
  hop as part of the dial. It has no timeout of its own
  (relay-agent/src/lib.rs:202), but its few bytes fit the empty send buffer of
  a new connection.
- `LimiterTypeOK` bounds the map. The first eviction pass, meant for idle
  buckets, never matches one (subscription/src/lib.rs:113); the bound is kept
  by the second.
- `MigratedMeansCurrent` excepts a deployment.toml that says
  `schema_version = 0` itself: a migration calls it already current while
  `config validate` keeps reporting MIGRATION_REQUIRED.
- `OriginalRecoverable` and `SettingsCurrent` except an edit of
  deployment.toml that falls into its migration: the edit takes no lock.
- `config migrate` replaces deployment.toml before it looks at users.json, and
  sing-box validates after the files are in place, although the command's
  description promises "Refuses (leaving all state untouched) on corrupted
  input" and to commit only what was validated (main.rs:202). No property
  relies on either; the originals stay recoverable.
- `DoctorPassMeansServing` and `NoFalseAlarm` are about a host without a
  running command, since `doctor` takes no lock. It compares config.json, not
  the document sing-box runs; that the two agree follows from its handshakes
  only as far as keys and one user go, and the property says no more.
  `NoFalseAlarm` is about conditions that `doctor` rightly does without
  (`Tolerated`). A certificate that ended less than a day ago is not among
  them, yet `doctor` only warns of it, with "0 day(s)": the count truncates toward zero, and
  main.rs:2190 says "negative if already expired".

**The finding with a run of its own.** `config migrate` is a mutating command
and takes /run/lock/vpn1.lock. update.sh calls it while it holds that lock,
without handing the lock down (update.sh:760), and the wait has no timeout.
`update_migration` shows an update, with nothing gone wrong, that neither
completes nor returns to the previous release, against update.sh:8.

## Proofs

Every theorem holds for all values of the constants that meet the named
assumptions of the module it is about: any number of operators, users,
requests, tasks, keys, connections and mishaps, any timeouts and rates. TLC
evaluates the assumptions on every run.

| Theorem | Module | States | Run |
|---|---|---|---|
| `TypeCorrect` | UserTransactionProofs | `UserSpec => []UserTypeOK` | user_transaction |
| `StoreRefined` | UserTransactionProofs | `UserSpec => PublishesOneCommandAtATime` | user_transaction |
| `RevocationPermanent` | RevocationProofs | `UserSpec => []RevokedStaysRevoked` | user_transaction |
| `LiveReportTrue` | LiveProofs | `UserSpec => []WentLiveIsLive` | user_transaction |
| `ConfigLeftWhole` | LiveProofs | `UserSpec => []NeverLeftTorn` | user_transaction |
| `PublishedAfterLive` | LiveProofs | `UserSpec => PublishesAfterLive` | user_transaction |
| `LimiterNoBurst`, `LimiterBounded` | LimiterProofs | `LimiterSpec => []NoBurst`, `LimiterSpec => []LimiterTypeOK` | subscription |
| `ServiceNoBurst` | SubscriptionProofs | `SubscriptionSpec => []NoBurst` | subscription |
| `DefaultOffered` | SubscriptionProofs | the default route of a profile is in its selector, for any sequence of endpoints | subscription, as part of `AnswerExplained` |
| `AnswersExplained` | SubscriptionProofs | `SubscriptionSpec => []AnswerExplained` | subscription |
| `CyclingBounded` | EngineProofs | `EngineSpec => []BoundedCycling` | engine |
| `OutagesSpareScores` | EngineProofs | `EngineSpec => []LocalOutageSparesScores` | engine |
| `OnlyCertifiedTrusted` | RendezvousProofs | `RendezvousSpec => []TrustedIsCertified` | rendezvous |
| `PinIsKept` | RelayProofs | `RelaySpec => []PinKept` | relay |
| `SilenceDecides` | RelayProofs | `RelaySpec => SilenceEndsSessions` | relay |

### User commands

The assumptions are those of `VpnHost` and `UserTransaction`: the timer is no
operator, bounds are naturals, the special values (no file, torn, down, never)
are not documents, keys or dates, and the initial table holds at most one
user, whose id and secrets were drawn before the first command; the others are
made by commands. The argument goes up in layers, each an inductive invariant
that uses the ones below it.

1. `TypeInv`: the types, a coherent keyset, a document before it is applied, a
   backup before it is needed. Types alone are not inductive, since a restart
   loads whatever is in the file.
2. `StoreInv`: only the holder of the lock is active (`LockInv`); what it will
   save is the published table with its one command applied (`TableInv`);
   everything in a table was drawn before (`FreshInv`). A save is then a step
   of `UserStore` and nothing else changes users.json.
3. `RevokedInv`: the document a process applies comes from its candidate table
   (`DocInv`), and neither config.json, nor the running server, nor a table in
   use, nor a backup that may be copied back holds a revoked credential
   (`CleanInv`). The backup may hold one until the next command overwrites it,
   which is why the clause about it names the steps from the swap on.
4. `LiveInv`, for at most one mishap: a stamp that matches config.json tells
   what sing-box runs, except between a swap and the restart after it. The
   clauses for no mishap yet are needed to show that the first one cannot
   break the stamp.
5. `PublishInv`: ids are unique, and what was rendered is the candidate table
   as of some moment of the command. The server may have rendered before an
   expiry that users.json already reflects, so equality would be false.

### Subscription service

- `LimiterInv` says of every peer that what it was granted and what its bucket
  holds are together no more than a full bucket and the refill up to the
  bucket's time (`Granted`). `NoBurst` alone is not inductive: it does not
  mention the bucket.
- `ServiceInv`: a request that is not idle has the present state in its
  window; one that has loaded users.json holds a table from its window
  (`Snapshot`), with unique tokens, and a token that is also in the present
  table expires at the same time in both (`SameExpiry`). The last clause is
  what makes a refusal right: the file is read before the clock, so the user
  may be found in the old table and expired by the later clock, and no single
  moment may have had both unless the present table agrees on the expiry.
  The assumption `TableAssumption` is what `UserStore` keeps: ids and tokens
  of the initial table are unique, and drawn before the first command.
- `DefaultOffered` uses that a non-empty set of naturals has a least element.

### Native stack

- `CyclingInv`: in a cooldown, the dials begun and the tasks that have passed
  the check but not begun theirs are together fewer than the tasks. The task
  that arms the cooldown is the one missing; whoever passes the check ends it.
- `OutageInv`: a task that has been charged with a failure in the present
  outage has no dial left that may be charged again: what it dials with
  direct-tls it dials without a route, which the error tells (`Spent`). That
  at most one failure was counted is not inductive without it.
- `CertifiedInv`: the service's two certificates were issued, each by itself;
  that they form a chain is known only of bundles that verified.
- `IdentityInv`: an identity that was served is whole in both files. While the
  key is written, the certificate beside it is its own.
- `RelayInv`: a window in which a byte moved has been silent for no longer than
  it lasts; one without a byte for at least as long, and for one window more
  at most.

### Only model-checked

`KeyRotation`, `VpnAdmin` and `Doctor`, `BackupRestore`, `StateFiles` (its
refinement included), `CertRenewal`, `Updater`, `Installer`, and all liveness.
Out of the prover's reach are liveness under fairness, ENABLED, and induction
over data; the fairness properties (`AdminReconciled`, `HookEnds`,
`EveryUpdateEnds`, `RenderingCatchesUp`, `Recovers`, `OnlineComesUp`,
`PermitsReturn`) stay with TLC.

## Not modelled

- **Storage below rename.** In most modules a completed rename survives a
  reboot. `StateFiles` lets a power loss undo one that was not synced;
  reordering of several is not modelled.
- **deployment.toml outside StateFiles.** Paths, ports and modes are fixed in
  the other modules; a restore does not apply the file.
- **config migrate in Updater** is one step on a schema number; its own steps
  are StateFiles.
- **Formats**: URIs, JSON, tar, TLS, QUIC, signatures. A conversion matters
  here only for what it keeps apart. Errors of rendering (a transport that
  does not fit its endpoint) cannot happen with the standard endpoints.
- **The QUIC listener.** Its sessions are those of RelayAgent. What is its own
  (how long a handshake or a silent connection lasts, how many streams one may
  open) is left at the defaults of quinn, outside this repository.
- **Doctor's other outputs**: `--report` and `--performance` print
  measurements and redacted logs. `status` and `version` decide nothing.
- **The certificate pair inside restore** (its steps are those of the key
  files), test, health and benchmark scripts, containers, bootstraps.
- **Unused code**: the connection state machine and the kill switch have unit
  tests and no callers.
- **Types** are invariants of the runs of `UserTransaction` and `RateLimiter`;
  the latter also says that the map is bounded. The other modules spend their
  runs on behaviour.
