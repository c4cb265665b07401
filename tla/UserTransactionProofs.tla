------------------------ MODULE UserTransactionProofs ------------------------
(***************************************************************************)
(* Proofs about UserTransaction, for any number of operators, users,       *)
(* draws, clock ticks and mishaps: types, and that it implements UserStore.*)
(***************************************************************************)
EXTENDS UserTransaction, TLAPS

----------------------------------------------------------------------------
(* The inductive invariant.                                                *)

Busy(p) == pc[p] \notin {"idle", "done"}

\* Types, and what they need: the keyset stays coherent, a document is
\* rendered before it is applied, and a backup exists before it is needed.
Applying(p) == pc[p] \in {"backup", "swap", "reload", "selftest", "stamp"}
Swapping(p) == pc[p] \in {"swap", "reload", "selftest", "stamp", "restore",
                          "restoring", "reload2"}
TypeInv ==
  /\ UserTypeOK
  /\ Coherent(keys)
  /\ \A p \in Proc : /\ Applying(p) => doc[p] \in Doc
                     /\ Swapping(p) => bak # NoFile

----------------------------------------------------------------------------
(* The operators.                                                          *)

LEMMA RenderType ==
  ASSUME NEW us \in SUBSET CompatUser, NEW ks \in KeyState, NEW t \in Nat,
         Coherent(ks)
  PROVE  render_singbox_server_config(us, ks, t) \in Doc
<1>1. Authorized(us, t) \in SUBSET (Nat \X Secret)
  BY DEF Authorized, CompatUser, Secret
<1>2. /\ ks["private.key"] \in Secret
      /\ ks["short_id.txt"] \in Secret \cup {NoFile}
      /\ ks[ObfsFile] \in Secret \cup {NoFile}
  BY DEF KeyState, KeyFile, Coherent, ObfsFile
<1> QED
  BY <1>1, <1>2 DEF render_singbox_server_config, Doc

LEMMA TableType ==
  ASSUME NEW us \in SUBSET CompatUser, NEW n \in Nat, NEW s \in Secret,
         NEW b \in BOOLEAN
  PROVE  /\ Store!WithEnabled(us, n, b) \in SUBSET CompatUser
         /\ Store!WithCred(us, n, s) \in SUBSET CompatUser
         /\ Store!WithToken(us, n, s) \in SUBSET CompatUser
         /\ Store!Without(us, n) \in SUBSET CompatUser
BY DEF Store!WithEnabled, Store!WithCred, Store!WithToken, Store!Without,
       CompatUser, Secret

LEMMA AdvertisedType ==
  ASSUME NEW ks \in KeyState, Coherent(ks)
  PROVE  Readable(ks) /\ Advertised(ks) \in
           [pub: Secret, sid: Secret, obfs: Secret \cup {NoFile}]
BY ValueAssumption DEF KeyState, KeyFile, Coherent, Readable, Advertised, ObfsFile, Secret

----------------------------------------------------------------------------
(* Types.                                                                  *)

LEMMA InitType == UserInit => UserTypeOK /\ Coherent(keys)
<1> SUFFICES ASSUME UserInit PROVE UserTypeOK /\ Coherent(keys)
  OBVIOUS
<1>1. keys \in KeyState /\ Coherent(keys)
  BY ValueAssumption DEF UserInit, Init, KeyState, KeyFile, Coherent, ObfsFile, Secret
<1>2. users \in SUBSET CompatUser /\ now \in Nat /\ now \in 0 .. MaxNow
  BY InitialUsersAssumption, BoundAssumption DEF UserInit, Init
<1>3. config \in Doc
  BY <1>1, <1>2, RenderType DEF UserInit, Init
<1>4. adv \in [pub: Secret, sid: Secret, obfs: Secret \cup {NoFile}]
  BY <1>1, AdvertisedType DEF UserInit, Init
<1> QED
  BY <1>1, <1>2, <1>3, <1>4
  DEF UserInit, Init, UserTypeOK, Label, Command, rendered_config_fingerprint

LEMMA GoneType ==
  ASSUME TypeInv, NEW S \in SUBSET Proc, Gone(S), UNCHANGED disk,
         live' \in Doc \cup {Down},
         adv' \in [pub: Secret, sid: Secret, obfs: Secret \cup {NoFile}],
         UNCHANGED <<now, fresh, revoked>>, mishaps' \in Nat
  PROVE  TypeInv'
BY Zenon DEF TypeInv, UserTypeOK, Applying, Swapping, Gone, disk, Label, Command

LEMMA StartedType ==
  ASSUME UserTypeOK, Coherent(keys)
  PROVE  /\ Started \in Doc \cup {Down}
         /\ SubStarted \in [pub: Secret, sid: Secret, obfs: Secret \cup {NoFile}]
BY AdvertisedType DEF UserTypeOK, Started, SubStarted

LEMMA ApplyType ==
  ASSUME TypeInv, NEW p \in Proc, RenderAndApply(p), UNCHANGED revoked
  PROVE  TypeInv'
<1> USE DEF TypeInv, UserTypeOK, Applying, Swapping, disk, services, locals,
            Goto, Return, Mishap, Fine, Label
<1> USE ValueAssumption
<1>0. Rendered(p) \in Doc
  BY RenderType DEF Rendered
<1>1. CASE CannotRender(p)
  BY <1>1 DEF CannotRender
<1>2. CASE RefuseUnavailable(p)
  BY <1>2 DEF RefuseUnavailable
<1>3. CASE AlreadyCurrent(p)
  BY <1>0, <1>3 DEF AlreadyCurrent, Current
<1>4. CASE MustApply(p)
  BY <1>0, <1>4 DEF MustApply
<1>5. CASE Backup(p)
  BY <1>5 DEF Backup, CopyToBackup
<1>6. CASE Swap(p)
  BY <1>6 DEF Swap, SwapIn
<1>7. CASE ApplyFails(p)
  BY <1>7 DEF ApplyFails
<1>8. CASE ReloadUnavailable(p)
  BY <1>8 DEF ReloadUnavailable
<1>9. CASE Reload(p)
  BY StartedType, <1>9 DEF Reload, ReloadOk, ReloadFails
<1>10. CASE SelfTest(p)
  BY <1>10 DEF SelfTest
<1>11. CASE Stamp(p)
  BY <1>11 DEF Stamp, rendered_config_fingerprint
<1>12. CASE RestoreBegins(p)
  BY <1>12 DEF RestoreBegins, CopyBackBegins
<1>13. CASE RestoreEnds(p)
  BY <1>13 DEF RestoreEnds, CopyBackEnds
<1>14. CASE RestoreFails(p)
  BY <1>14 DEF RestoreFails
<1>15. CASE RecoveryReload(p)
  BY StartedType, <1>15 DEF RecoveryReload, ReloadOk, ReloadFails
<1> QED
  BY Zenon, <1>1, <1>2, <1>3, <1>4, <1>5, <1>6, <1>7, <1>8,
     <1>9, <1>10, <1>11, <1>12, <1>13, <1>14, <1>15 DEF RenderAndApply

LEMMA BeginType ==
  ASSUME TypeInv, NEW p \in Proc, NEW c \in Command, NEW n \in {"render", "save"},
         NEW us \in SUBSET CompatUser, Begin(p, c, n, us),
         fresh' \in Nat, UNCHANGED revoked
  PROVE  TypeInv'
<1> PICK offline \in BOOLEAN : req' = [req EXCEPT ![p] = ~offline]
  BY Zenon DEF Begin
<1> QED
  BY DEF Begin, TypeInv, UserTypeOK, Applying, Swapping, disk, services, Goto, Label

LEMMA CommandType ==
  ASSUME TypeInv, NEW p \in Proc, UserCommand(p), UNCHANGED revoked
  PROVE  TypeInv'
<1>0. users \in SUBSET CompatUser /\ fresh \in Nat /\ Secret = Nat
  BY DEF TypeInv, UserTypeOK, Secret
<1>1. CASE cmd_user_create(p)
  <2> PICK e \in 0 .. MaxNow \cup {Never} :
        /\ Draw
        /\ Begin(p, "create", "render",
                 Store!WithUser(users, [id |-> fresh, enabled |-> TRUE,
                   cred |-> fresh, token |-> fresh, expires |-> e]))
    BY Zenon, <1>1 DEF cmd_user_create
  <2>1. Store!WithUser(users, [id |-> fresh, enabled |-> TRUE, cred |-> fresh,
           token |-> fresh, expires |-> e]) \in SUBSET CompatUser
    <3>1. e \in Nat \cup {Never}
      BY BoundAssumption
    <3>2. [id |-> fresh, enabled |-> TRUE, cred |-> fresh, token |-> fresh,
           expires |-> e] \in CompatUser
      BY <1>0, <3>1 DEF CompatUser
    <3> QED
      BY Zenon, <1>0, <3>2 DEF Store!WithUser
  <2>2. fresh' \in Nat
    BY <1>0 DEF Draw
  <2> QED
    BY Zenon, <2>1, <2>2, BeginType DEF Command
<1>2. CASE cmd_user_set_enabled(p)
  <2> PICK r \in users, b \in BOOLEAN : /\ Begin(p, "set-enabled", "render", Store!WithEnabled(users, r.id, b))
                                    /\ UNCHANGED fresh
    BY <1>2 DEF cmd_user_set_enabled
  <2>1. r.id \in Nat /\ fresh' \in Nat
    BY <1>0 DEF CompatUser
  <2>2. Store!WithEnabled(users, r.id, b) \in SUBSET CompatUser
    BY Zenon, <1>0, <2>1, TableType
  <2> QED
    BY <2>1, <2>2, BeginType DEF Command
<1>3. CASE rotate_and_apply(p)
  <2> PICK r \in users : /\ Draw
                      /\ Begin(p, "rotate", "render", Store!WithCred(users, r.id, fresh))
    BY <1>3 DEF rotate_and_apply
  <2>1. r.id \in Nat /\ fresh' \in Nat
    BY <1>0 DEF Draw, CompatUser
  <2>2. Store!WithCred(users, r.id, fresh) \in SUBSET CompatUser
    BY Zenon, <1>0, <2>1, TableType
  <2> QED
    BY <2>1, <2>2, BeginType DEF Command
<1>4. CASE cmd_user_rotate_token(p)
  <2> PICK r \in users : /\ Draw
                      /\ Begin(p, "rotate-token", "save", Store!WithToken(users, r.id, fresh))
    BY <1>4 DEF cmd_user_rotate_token
  <2>1. r.id \in Nat /\ fresh' \in Nat
    BY <1>0 DEF Draw, CompatUser
  <2>2. Store!WithToken(users, r.id, fresh) \in SUBSET CompatUser
    BY Zenon, <1>0, <2>1, TableType
  <2> QED
    BY <2>1, <2>2, BeginType DEF Command
<1>5. CASE cmd_user_remove(p)
  <2> PICK r \in users : /\ Begin(p, "remove", "render", Store!Without(users, r.id))
                      /\ UNCHANGED fresh
    BY <1>5 DEF cmd_user_remove
  <2>1. r.id \in Nat /\ fresh' \in Nat
    BY <1>0 DEF CompatUser
  <2>2. Store!Without(users, r.id) \in SUBSET CompatUser
    BY Zenon, <1>0, <2>1, TableType
  <2> QED
    BY <2>1, <2>2, BeginType DEF Command
<1> QED
  BY <1>1, <1>2, <1>3, <1>4, <1>5 DEF UserCommand

LEMMA StepType ==
  ASSUME TypeInv, NEW p \in Proc, Step(p)
  PROVE  TypeInv'
<1> USE DEF TypeInv, UserTypeOK, Applying, Swapping, disk, services, locals,
            Goto, Mishap, Label
<1>1. CASE RenderAndApply(p) /\ UNCHANGED revoked
  BY <1>1, ApplyType
<1>2. CASE Save(p)
  <2>1. Creds(users) \subseteq Secret
    BY DEF Creds, CompatUser
  <2> QED
    BY <1>2, <2>1 DEF Save
<1>3. CASE SaveFails(p) /\ UNCHANGED revoked
  BY <1>3 DEF SaveFails, Command
<1>4. CASE Exit(p) /\ UNCHANGED revoked
  <2>1. live' \in Doc \cup {Down} /\ mishaps' \in Nat /\
        adv' \in [pub: Secret, sid: Secret, obfs: Secret \cup {NoFile}]
    BY <1>4 DEF Exit
  <2> QED
    BY <1>4, <2>1, GoneType DEF Exit
<1> QED
  BY <1>1, <1>2, <1>3, <1>4 DEF Step

LEMMA WeatherType ==
  ASSUME TypeInv, Weather \/ Reboot \/ (\E p \in Proc : Kill(p)), UNCHANGED revoked
  PROVE  TypeInv'
<1> USE DEF TypeInv, UserTypeOK, Applying, Swapping, disk, services, locals, Mishap
<1>1. CASE SingBoxDies
  BY <1>1 DEF SingBoxDies
<1>2. CASE SystemdRestarts
  BY <1>2, StartedType DEF SystemdRestarts
<1>3. CASE SubscriptionRestarts
  BY <1>3, StartedType DEF SubscriptionRestarts
<1>4. CASE Tick
  BY <1>4, BoundAssumption DEF Tick
<1>5. CASE Reboot
  <2>1. live' \in Doc \cup {Down} /\ mishaps' \in Nat /\
        adv' \in [pub: Secret, sid: Secret, obfs: Secret \cup {NoFile}]
    BY <1>5, StartedType DEF Reboot
  <2> QED
    BY <1>5, <2>1, GoneType DEF Reboot
<1>6. ASSUME NEW p \in Proc, Kill(p) PROVE TypeInv'
  <2>1. live' \in Doc \cup {Down} /\ mishaps' \in Nat /\
        adv' \in [pub: Secret, sid: Secret, obfs: Secret \cup {NoFile}]
    BY <1>6 DEF Kill
  <2> QED
    BY <1>6, <2>1, GoneType DEF Kill
<1> QED
  BY <1>1, <1>2, <1>3, <1>4, <1>5, <1>6 DEF Weather

LEMMA TypeStep == TypeInv /\ [UserNext]_uvars => TypeInv'
<1> SUFFICES ASSUME TypeInv, [UserNext]_uvars PROVE TypeInv'
  OBVIOUS
<1>1. ASSUME NEW p \in Operator, UserCommand(p), UNCHANGED revoked PROVE TypeInv'
  BY <1>1, CommandType DEF Proc
<1>2. CASE Reconcile
  BY <1>2 DEF Reconcile, RenderConfig, TypeInv, UserTypeOK, Applying, Swapping,
              disk, services, Goto, Label, Command, Proc
<1>3. ASSUME NEW p \in Proc, Step(p) PROVE TypeInv'
  BY <1>3, StepType
<1>4. CASE (Weather \/ Reboot \/ (\E p \in Proc : Kill(p))) /\ UNCHANGED revoked
  BY <1>4, WeatherType
<1>5. CASE UNCHANGED uvars
  BY <1>5 DEF uvars, vars, disk, services, locals, TypeInv, UserTypeOK, Applying, Swapping
<1> QED
  BY <1>1, <1>2, <1>3, <1>4, <1>5 DEF UserNext

\* Every reachable state is well typed: the stamp always names a document,
\* vpn-subscription never fails to start, and nothing but a torn copy ever
\* takes config.json's place.
THEOREM TypeCorrect == UserSpec => []UserTypeOK
<1>1. UserInit => TypeInv
  BY InitType DEF TypeInv, UserInit, Init, Applying, Swapping
<1>2. TypeInv => UserTypeOK
  BY DEF TypeInv
<1> QED
  BY <1>1, <1>2, TypeStep, PTL DEF UserSpec


----------------------------------------------------------------------------
(* users.json changes by one whole command at a time: UserTransaction      *)
(* implements UserStore.                                                   *)

\* Only the holder of the lock is anywhere but at rest.
LockInv == \A p \in Proc : pc[p] # "idle" => lock = p

\* A command works on the published table: what it will save is that table
\* with the one command applied, what it applies otherwise is that table.
Mutation == {"create", "set-enabled", "rotate", "rotate-token", "remove"}
TableInv ==
  \A p \in Proc : Busy(p) =>
    \/ /\ cmd[p] \in Mutation
       /\ prev[p] = users
       /\ Store!OneCommand(users, cand[p])
    \/ /\ cmd[p] \in {"render-config", "undo"}
       /\ pc[p] # "save"
       /\ cand[p] = users

\* Everything in a table was drawn before.
DrawnBefore(us) == \A r \in us : r.id < fresh /\ r.cred < fresh
FreshInv ==
  /\ DrawnBefore(users)
  /\ \A p \in Proc : Busy(p) => DrawnBefore(cand[p])
  /\ \A c \in revoked : c < fresh

StoreInv == LockInv /\ TableInv /\ FreshInv


\* What render_and_apply_singbox_config leaves alone, and where it returns.
LEMMA ApplyFrame ==
  ASSUME TypeInv, NEW p \in Proc, RenderAndApply(p)
  PROVE  /\ UNCHANGED <<users, keys, adv, now, lock, cmd, prev, cand, req, fresh>>
         /\ \A q \in Proc \ {p} : /\ pc'[q] = pc[q]
                                  /\ doc'[q] = doc[q]
                                  /\ ret'[q] = ret[q]
         /\ Busy(p) /\ pc'[p] # "idle"
         /\ pc'[p] = "save" => cmd[p] \notin {"render-config", "undo"}
<1> USE DEF TypeInv, UserTypeOK, disk, services, locals, Goto, Return, Busy
<1>1. CASE CannotRender(p)
  BY <1>1 DEF CannotRender
<1>2. CASE RefuseUnavailable(p)
  BY <1>2 DEF RefuseUnavailable
<1>3. CASE AlreadyCurrent(p)
  BY <1>3 DEF AlreadyCurrent
<1>4. CASE MustApply(p)
  BY <1>4 DEF MustApply
<1>5. CASE Backup(p)
  BY <1>5 DEF Backup, CopyToBackup
<1>6. CASE Swap(p)
  BY <1>6 DEF Swap, SwapIn
<1>7. CASE ApplyFails(p)
  BY <1>7 DEF ApplyFails
<1>8. CASE ReloadUnavailable(p)
  BY <1>8 DEF ReloadUnavailable
<1>9. CASE Reload(p)
  BY <1>9 DEF Reload
<1>10. CASE SelfTest(p)
  BY <1>10 DEF SelfTest
<1>11. CASE Stamp(p)
  BY <1>11 DEF Stamp
<1>12. CASE RestoreBegins(p)
  BY <1>12 DEF RestoreBegins, CopyBackBegins
<1>13. CASE RestoreEnds(p)
  BY <1>13 DEF RestoreEnds, CopyBackEnds
<1>14. CASE RestoreFails(p)
  BY <1>14 DEF RestoreFails
<1>15. CASE RecoveryReload(p)
  BY <1>15 DEF RecoveryReload
<1> QED
  BY <1>1, <1>2, <1>3, <1>4, <1>5, <1>6, <1>7, <1>8,
     <1>9, <1>10, <1>11, <1>12, <1>13, <1>14, <1>15 DEF RenderAndApply

\* A command that began holds the lock and works on the published table.
LEMMA BeginStore ==
  ASSUME TypeInv, StoreInv, NEW p \in Proc, NEW c \in Mutation,
         NEW n \in {"render", "save"}, NEW us \in SUBSET CompatUser,
         Begin(p, c, n, us), Store!OneCommand(users, us),
         fresh' \in Nat, fresh' >= fresh,
         \A r \in us : r.id < fresh' /\ r.cred < fresh',
         UNCHANGED revoked
  PROVE  StoreInv'
<1> USE DEF TypeInv, UserTypeOK, Begin, Goto, disk, services
<1>1. LockInv'
  BY ProcAssumption DEF StoreInv, LockInv
<1>2. \A q \in Proc : q # p => pc'[q] = "idle"
  BY ProcAssumption DEF StoreInv, LockInv
<1>3. TableInv'
  BY <1>2 DEF TableInv, Busy
<1>4. FreshInv'
  <2>1. \A r \in users : r.id \in Nat /\ r.cred \in Nat
    BY DEF CompatUser, Secret
  <2>2. \A x \in revoked : x \in Nat
    BY DEF Secret
  <2> QED
    BY <1>2, <2>1, <2>2 DEF StoreInv, FreshInv, DrawnBefore, Busy
<1> QED
  BY <1>1, <1>3, <1>4 DEF StoreInv

LEMMA CommandStore ==
  ASSUME TypeInv, StoreInv, NEW p \in Proc, UserCommand(p), UNCHANGED revoked
  PROVE  StoreInv'
<1>0. /\ users \in SUBSET CompatUser /\ fresh \in Nat /\ Secret = Nat
      /\ \A r \in users : /\ r.id \in Nat /\ r.cred \in Nat
                          /\ r.id < fresh /\ r.cred < fresh
  BY DEF TypeInv, UserTypeOK, Secret, CompatUser, StoreInv, FreshInv, DrawnBefore
<1>1. CASE cmd_user_create(p)
  <2> PICK e \in 0 .. MaxNow \cup {Never} :
        /\ Draw
        /\ Begin(p, "create", "render",
                 Store!WithUser(users, [id |-> fresh, enabled |-> TRUE,
                   cred |-> fresh, token |-> fresh, expires |-> e]))
    BY Zenon, <1>1 DEF cmd_user_create
  <2> DEFINE new == [id |-> fresh, enabled |-> TRUE, cred |-> fresh,
                     token |-> fresh, expires |-> e]
             us == Store!WithUser(users, new)
  <2>1. fresh' \in Nat /\ fresh' = fresh + 1
    BY <1>0 DEF Draw
  <2>2. new \in CompatUser
    <3>1. e \in Nat \cup {Never}
      BY BoundAssumption
    <3> QED
      BY <1>0, <3>1 DEF CompatUser
  <2>3. us \in SUBSET CompatUser
    BY Zenon, <1>0, <2>2 DEF Store!WithUser
  <2>4. \A x \in us : x.id < fresh' /\ x.cred < fresh'
    BY <1>0, <2>1 DEF Store!WithUser
  <2>5. Store!Created(users, us)
    <3>1. new \in us /\ new.enabled /\ \A x \in users : x.id # new.id
      BY <1>0 DEF Store!WithUser
    <3> HIDE DEF new
    <3> QED
      BY <3>1 DEF Store!Created
  <2>6. Store!OneCommand(users, us)
    BY <2>5 DEF Store!OneCommand
  <2>7. Begin(p, "create", "render", us) /\ fresh' >= fresh
    BY <1>0, <2>1
  <2> HIDE DEF us
  <2> QED
    BY <2>1, <2>3, <2>4, <2>6, <2>7, BeginStore DEF Mutation
<1>2. CASE cmd_user_set_enabled(p)
  <2> PICK r \in users, b \in BOOLEAN : 
        /\ Begin(p, "set-enabled", "render", Store!WithEnabled(users, r.id, b))
        /\ UNCHANGED fresh
    BY <1>2 DEF cmd_user_set_enabled
  <2> DEFINE us == Store!WithEnabled(users, r.id, b)
  <2>1. r.id \in Nat /\ fresh' \in Nat /\ fresh' >= fresh
    BY <1>0 DEF CompatUser, Draw
  <2>2. us \in SUBSET CompatUser
    BY Zenon, <1>0, <2>1, TableType
  <2>3. \A x \in us : x.id < fresh' /\ x.cred < fresh'
    BY <1>0, <2>1 DEF Store!WithEnabled, CompatUser, Draw
  <2>4. Store!EnabledSet(users, us)
    BY Zenon, <1>0 DEF Store!EnabledSet, Store!WithEnabled, CompatUser
  <2>5. Store!OneCommand(users, us)
    BY <2>4 DEF Store!OneCommand
  <2> QED
    BY <2>1, <2>2, <2>3, <2>5, BeginStore DEF Mutation
<1>3. CASE rotate_and_apply(p)
  <2> PICK r \in users : 
        /\ Draw
        /\ Begin(p, "rotate", "render", Store!WithCred(users, r.id, fresh))
    BY <1>3 DEF rotate_and_apply
  <2> DEFINE us == Store!WithCred(users, r.id, fresh)
  <2>1. r.id \in Nat /\ fresh' \in Nat /\ fresh' >= fresh
    BY <1>0 DEF CompatUser, Draw
  <2>2. us \in SUBSET CompatUser
    BY Zenon, <1>0, <2>1, TableType
  <2>3. \A x \in us : x.id < fresh' /\ x.cred < fresh'
    BY <1>0, <2>1 DEF Store!WithCred, CompatUser, Draw
  <2>4. Store!CredentialsRotated(users, us)
    <3>1. [r EXCEPT !.cred = fresh] \in us /\ [r EXCEPT !.cred = fresh].cred = fresh
      BY <1>0 DEF Store!WithCred, CompatUser
    <3> QED
      BY Zenon, <3>1 DEF Store!CredentialsRotated
  <2>5. Store!OneCommand(users, us)
    BY <2>4 DEF Store!OneCommand
  <2> QED
    BY <2>1, <2>2, <2>3, <2>5, BeginStore DEF Mutation
<1>4. CASE cmd_user_rotate_token(p)
  <2> PICK r \in users : 
        /\ Draw
        /\ Begin(p, "rotate-token", "save", Store!WithToken(users, r.id, fresh))
    BY <1>4 DEF cmd_user_rotate_token
  <2> DEFINE us == Store!WithToken(users, r.id, fresh)
  <2>1. r.id \in Nat /\ fresh' \in Nat /\ fresh' >= fresh
    BY <1>0 DEF CompatUser, Draw
  <2>2. us \in SUBSET CompatUser
    BY Zenon, <1>0, <2>1, TableType
  <2>3. \A x \in us : x.id < fresh' /\ x.cred < fresh'
    BY <1>0, <2>1 DEF Store!WithToken, CompatUser, Draw
  <2>4. Store!TokenRotated(users, us)
    <3>1. [r EXCEPT !.token = fresh] \in us /\ [r EXCEPT !.token = fresh].token = fresh
      BY <1>0 DEF Store!WithToken, CompatUser
    <3> QED
      BY Zenon, <3>1 DEF Store!TokenRotated
  <2>5. Store!OneCommand(users, us)
    BY <2>4 DEF Store!OneCommand
  <2> QED
    BY <2>1, <2>2, <2>3, <2>5, BeginStore DEF Mutation
<1>5. CASE cmd_user_remove(p)
  <2> PICK r \in users : 
        /\ Begin(p, "remove", "render", Store!Without(users, r.id))
        /\ UNCHANGED fresh
    BY <1>5 DEF cmd_user_remove
  <2> DEFINE us == Store!Without(users, r.id)
  <2>1. r.id \in Nat /\ fresh' \in Nat /\ fresh' >= fresh
    BY <1>0 DEF CompatUser, Draw
  <2>2. us \in SUBSET CompatUser
    BY Zenon, <1>0, <2>1, TableType
  <2>3. \A x \in us : x.id < fresh' /\ x.cred < fresh'
    BY <1>0, <2>1 DEF Store!Without, CompatUser, Draw
  <2>4. Store!Removed(users, us)
    BY <1>0 DEF Store!Removed, Store!Without, CompatUser
  <2>5. Store!OneCommand(users, us)
    BY <2>4 DEF Store!OneCommand
  <2> QED
    BY <2>1, <2>2, <2>3, <2>5, BeginStore DEF Mutation
<1> QED
  BY <1>1, <1>2, <1>3, <1>4, <1>5 DEF UserCommand

LEMMA GoneStore ==
  ASSUME TypeInv, StoreInv, NEW S \in SUBSET Proc, Gone(S),
         UNCHANGED <<users, fresh, revoked>>
  PROVE  StoreInv'
<1> USE DEF TypeInv, UserTypeOK, Gone
<1>1. \A q \in Proc : pc'[q] # "idle" =>
        q \notin S /\ pc'[q] = pc[q] /\ cmd'[q] = cmd[q] /\ prev'[q] = prev[q]
        /\ cand'[q] = cand[q]
  OBVIOUS
<1>2. LockInv'
  BY <1>1 DEF StoreInv, LockInv
<1>3. TableInv'
  BY <1>1 DEF StoreInv, TableInv, Busy
<1>4. FreshInv'
  BY <1>1 DEF StoreInv, FreshInv, DrawnBefore, Busy
<1> QED
  BY <1>2, <1>3, <1>4 DEF StoreInv

LEMMA StepStore ==
  ASSUME TypeInv, StoreInv, NEW p \in Proc, Step(p)
  PROVE  StoreInv'
<1>0. pc[p] # "idle" => \A q \in Proc : q # p => pc[q] = "idle"
  BY DEF StoreInv, LockInv
<1>1. CASE RenderAndApply(p) /\ UNCHANGED revoked
  <2>0. /\ UNCHANGED <<users, lock, cmd, prev, cand, fresh, revoked>>
        /\ Busy(p) /\ pc'[p] # "idle"
        /\ pc'[p] = "save" => cmd[p] \notin {"render-config", "undo"}
        /\ \A q \in Proc : q # p => pc'[q] = pc[q]
    BY <1>1, ApplyFrame
  <2>1. LockInv'
    BY <2>0 DEF StoreInv, LockInv, Busy
  <2>2. \A q \in Proc : Busy(q)' => Busy(q)
    BY <2>0 DEF Busy
  <2>3. TableInv'
    BY <2>0, <2>2 DEF StoreInv, TableInv, Mutation
  <2>4. FreshInv'
    BY <2>0, <2>2 DEF StoreInv, FreshInv, DrawnBefore
  <2> QED
    BY <2>1, <2>3, <2>4 DEF StoreInv
<1>2. CASE Save(p)
  <2>1. /\ pc[p] = "save" /\ users' = cand[p] /\ UNCHANGED <<lock, cand, fresh>>
        /\ revoked' \subseteq revoked \cup Creds(users)
        /\ \A q \in Proc : pc'[q] = IF q = p THEN "done" ELSE pc[q]
    BY <1>2 DEF Save, Goto, TypeInv, UserTypeOK, locals
  <2>2. \A q \in Proc : ~Busy(q)'
    BY <1>0, <2>1 DEF Busy
  <2>3. LockInv' /\ TableInv'
    BY <2>1, <2>2 DEF StoreInv, LockInv, TableInv
  <2>4. DrawnBefore(users) /\ DrawnBefore(cand[p]) /\ \A c \in revoked : c < fresh
    BY <2>1 DEF StoreInv, FreshInv, Busy
  <2>5. \A c \in revoked' : c < fresh
    BY <2>1, <2>4 DEF DrawnBefore, Creds
  <2> QED
    BY <2>1, <2>2, <2>3, <2>4, <2>5 DEF StoreInv, FreshInv, DrawnBefore
<1>3. CASE SaveFails(p) /\ UNCHANGED revoked
  <2>1. /\ pc[p] = "save" /\ UNCHANGED <<users, lock, prev, fresh, revoked>>
        /\ \A q \in Proc : q # p => pc'[q] = pc[q]
        /\ \/ pc'[p] = "done"
           \/ pc'[p] = "render" /\ cmd'[p] = "undo" /\ cand'[p] = prev[p]
    BY <1>3 DEF SaveFails, Goto, TypeInv, UserTypeOK, disk, services
  <2>2. LockInv'
    BY <2>1 DEF StoreInv, LockInv
  <2>3. \A q \in Proc : Busy(q)' => q = p
    BY <1>0, <2>1 DEF Busy
  <2>4. prev[p] = users
    BY <2>1 DEF StoreInv, TableInv, Busy
  <2>5. TableInv'
    BY <2>1, <2>3, <2>4 DEF TableInv, Busy
  <2>6. FreshInv'
    BY <2>1, <2>3, <2>4 DEF StoreInv, FreshInv, DrawnBefore, Busy
  <2> QED
    BY <2>2, <2>5, <2>6 DEF StoreInv
<1>4. CASE Exit(p) /\ UNCHANGED revoked
  BY <1>4, GoneStore DEF Exit, disk
<1> QED
  BY <1>1, <1>2, <1>3, <1>4 DEF Step

LEMMA StoreStep == TypeInv /\ StoreInv /\ [UserNext]_uvars => StoreInv'
<1> SUFFICES ASSUME TypeInv, StoreInv, [UserNext]_uvars PROVE StoreInv'
  OBVIOUS
<1> USE DEF disk, services, locals
<1>1. ASSUME NEW p \in Operator, UserCommand(p), UNCHANGED revoked PROVE StoreInv'
  BY <1>1, CommandStore DEF Proc
<1>2. CASE Reconcile
  <2> USE <1>2, ProcAssumption DEF Reconcile, RenderConfig, Goto, TypeInv, UserTypeOK, Proc
  <2>0. \A q \in Proc : q # Timer => pc'[q] = "idle"
    BY DEF StoreInv, LockInv
  <2>1. LockInv' /\ TableInv'
    BY <2>0 DEF LockInv, TableInv, Busy
  <2>2. FreshInv'
    BY <2>0 DEF StoreInv, FreshInv, DrawnBefore, Busy
  <2> QED
    BY <2>1, <2>2 DEF StoreInv
<1>3. ASSUME NEW p \in Proc, Step(p) PROVE StoreInv'
  BY <1>3, StepStore
<1>4. ASSUME NEW p \in Proc, Kill(p), UNCHANGED revoked PROVE StoreInv'
  BY <1>4, GoneStore DEF Kill
<1>5. CASE Reboot /\ UNCHANGED revoked
  BY <1>5, GoneStore DEF Reboot
<1>6. CASE Weather /\ UNCHANGED revoked
  BY <1>6 DEF Weather, SingBoxDies, SystemdRestarts, SubscriptionRestarts, Tick,
              StoreInv, LockInv, TableInv, FreshInv, DrawnBefore, Busy
<1>7. CASE UNCHANGED uvars
  BY <1>7 DEF uvars, vars, StoreInv, LockInv, TableInv, FreshInv, DrawnBefore, Busy
<1> QED
  BY <1>1, <1>2, <1>3, <1>4, <1>5, <1>6, <1>7 DEF UserNext

LEMMA StoreAlways == UserSpec => [](TypeInv /\ StoreInv)
<1>1. UserInit => TypeInv
  BY InitType DEF TypeInv, UserInit, Init, Applying, Swapping
<1>2. UserInit => StoreInv
  BY InitialUsersAssumption
  DEF UserInit, Init, StoreInv, LockInv, TableInv, FreshInv, DrawnBefore, Busy
<1> QED
  BY <1>1, <1>2, TypeStep, StoreStep, PTL DEF UserSpec

\* vpn-admin implements the user store it promises: whatever fails or is
\* killed, users.json only ever changes to the result of one command applied
\* to the table published before (apply_users_and_save under the lock).
THEOREM StoreRefined == UserSpec => PublishesOneCommandAtATime
<1>1. UserInit => Store!Init
  BY InitialUsersAssumption DEF UserInit, Init, Store!Init, Store!UniqueIds
<1>2. TypeInv /\ StoreInv /\ [UserNext]_uvars => [Store!Next]_users
  <2> SUFFICES ASSUME TypeInv, StoreInv, [UserNext]_uvars, users' # users
               PROVE  Store!Next
    OBVIOUS
  <2> USE DEF disk, services, locals
  <2>1. ASSUME NEW p \in Proc, Save(p) PROVE Store!Next
    BY <2>1 DEF Save, Goto, StoreInv, TableInv, Busy, Store!Next
  <2>2. ASSUME NEW p \in Proc, Step(p) PROVE Save(p)
    BY <2>2, ApplyFrame DEF Step, SaveFails, Exit
  <2>3. ASSUME NEW p \in Proc PROVE ~UserCommand(p)
    BY Zenon DEF UserCommand, cmd_user_create, cmd_user_set_enabled, rotate_and_apply,
           cmd_user_rotate_token, cmd_user_remove, Begin
  <2> QED
    BY Zenon, <2>1, <2>2, <2>3
    DEF UserNext, uvars, vars, Reconcile, RenderConfig, Kill, Reboot, Weather, Proc,
        SingBoxDies, SystemdRestarts, SubscriptionRestarts, Tick
<1> QED
  BY <1>1, <1>2, StoreAlways, PTL DEF UserSpec, Store!Spec, PublishesOneCommandAtATime

=============================================================================
