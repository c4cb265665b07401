---------------------------- MODULE LiveProofs ----------------------------
(***************************************************************************)
(* Proofs that vpn-admin's "went live" is true and config.json left whole, *)
(* as long as at most one thing has gone wrong, and that users.json is     *)
(* published only after the running server follows it.                     *)
(***************************************************************************)
EXTENDS RevocationProofs

InRestore(p) == pc[p] \in {"restore", "restoring", "reload2"}
Tested(p) == pc[p] \in {"selftest", "stamp"}

\* A stamp that matches config.json says what sing-box runs.
StampTrue ==
  stamp = rendered_config_fingerprint(config) => live \in {config, Down}

\* The inductive invariant.  The stamp is true except between a swap and the
\* restart that follows it.  A process killed there, with nothing else gone
\* wrong, still leaves it true: it then names the document sing-box runs,
\* which the swap has replaced in config.json.
LiveInv ==
  mishaps <= 1 =>
    /\ \A p \in Proc :
         /\ Tested(p) => live \in {config, Down}
         /\ pc[p] \in {"save", "done"} /\ ret[p] = "live" =>
              config = doc[p] /\ live \in {doc[p], Down}
         /\ pc[p] = "restoring" => config = Torn
    /\ config = Torn => \E p \in Proc : pc[p] = "restoring"
    /\ bak # Torn
    /\ (\A p \in Proc : pc[p] # "reload" /\ ~InRestore(p)) => StampTrue
    /\ mishaps = 0 =>
         /\ live # Down
         /\ \A p \in Proc : ~InRestore(p)
         /\ (\A p \in Proc : ~Tested(p)) =>
              stamp = rendered_config_fingerprint(live)
         /\ (\A p \in Proc : pc[p] # "reload") => live = config

LEMMA ApplyLive ==
  ASSUME TypeInv, LockInv, RevokedInv, LiveInv, NEW p \in Proc, RenderAndApply(p)
  PROVE  LiveInv'
<1> SUFFICES ASSUME mishaps' <= 1 PROVE LiveInv'
  BY DEF LiveInv
<1>0. /\ \A q \in Proc : q # p => pc[q] = "idle" /\ pc'[q] = "idle" /\ ret'[q] = ret[q]
      /\ pc'[p] # "idle"
  BY ApplyFrame DEF LockInv, Busy
<1>2. Rendered(p) \in Doc
  BY RenderType DEF Rendered, TypeInv, UserTypeOK
<1> USE ValueAssumption
    DEF TypeInv, UserTypeOK, Applying, Swapping, RevokedInv, DocInv,
        LiveInv, InRestore, Tested, StampTrue, rendered_config_fingerprint,
        disk, services, locals, Goto, Return, Mishap, Fine
<1>3. CASE CannotRender(p)
  BY <1>0, <1>3 DEF CannotRender
<1>4. CASE RefuseUnavailable(p)
  BY <1>0, <1>4 DEF RefuseUnavailable
<1>5. CASE AlreadyCurrent(p)
  BY <1>0, <1>2, <1>5 DEF AlreadyCurrent, Current
<1>6. CASE MustApply(p)
  BY <1>0, <1>2, <1>6 DEF MustApply, Current
<1>7. CASE Backup(p)
  BY <1>0, <1>7 DEF Backup, CopyToBackup
<1>8. CASE Swap(p)
  BY <1>0, <1>8 DEF Swap, SwapIn
<1>9. CASE ApplyFails(p)
  BY <1>0, <1>9 DEF ApplyFails
<1>10. CASE ReloadUnavailable(p)
  BY <1>0, <1>10 DEF ReloadUnavailable
<1>11. CASE Reload(p)
  BY <1>0, <1>11 DEF Reload, ReloadOk, ReloadFails, Started
<1>12. CASE SelfTest(p)
  BY <1>0, <1>12 DEF SelfTest
<1>13. CASE Stamp(p)
  BY <1>0, <1>13 DEF Stamp
<1>14. CASE RestoreBegins(p)
  BY <1>0, <1>14 DEF RestoreBegins, CopyBackBegins
<1>15. CASE RestoreEnds(p)
  BY <1>0, <1>15 DEF RestoreEnds, CopyBackEnds
<1>16. CASE RestoreFails(p)
  BY <1>0, <1>16 DEF RestoreFails
<1>17. CASE RecoveryReload(p)
  BY <1>0, <1>17 DEF RecoveryReload, ReloadOk, ReloadFails, Started
<1> QED
  BY Zenon, <1>3, <1>4, <1>5, <1>6, <1>7, <1>8, <1>9, <1>10,
     <1>11, <1>12, <1>13, <1>14, <1>15, <1>16, <1>17 DEF RenderAndApply

\* A process that is gone leaves the stamp true: if this is the first mishap,
\* the killed process had at most swapped a document other than the running
\* one into config.json.
LEMMA GoneLive ==
  ASSUME TypeInv, StoreInv, RevokedInv, LiveInv, NEW S \in SUBSET Proc, Gone(S),
         UNCHANGED disk, live' \in {live, Started},
         \/ Mishap /\ (live' = live \/ S = Proc)
         \/ Fine /\ live' = live /\ \E p \in S : S = {p} /\ pc[p] = "done"
  PROVE  LiveInv'
<1> SUFFICES ASSUME mishaps' <= 1 PROVE LiveInv'
  BY DEF LiveInv
<1>1. \A q \in Proc : /\ q \in S => pc'[q] = "idle"
                      /\ q \notin S => pc'[q] = pc[q] /\ doc'[q] = doc[q] /\ ret'[q] = ret[q]
  BY DEF Gone, TypeInv, UserTypeOK
<1>2. \A q, r \in Proc : pc[q] # "idle" /\ pc[r] # "idle" => q = r
  BY DEF StoreInv, LockInv
<1>3. UNCHANGED <<config, bak, stamp>> /\ mishaps \in Nat /\ Started \in {config, Down}
  BY DEF disk, Started, TypeInv, UserTypeOK
<1>4. CASE Mishap
  <2>1. mishaps = 0 /\ mishaps' = 1
    BY <1>3, <1>4 DEF Mishap
  <2>2. /\ \A q \in Proc : ~InRestore(q)
        /\ bak # Torn /\ config # Torn
        /\ (\A q \in Proc : pc[q] # "reload") => StampTrue
    BY <2>1 DEF LiveInv, InRestore
  <2>3. \A q \in Proc : Tested(q) => live \in {config, Down}
    BY <2>1 DEF LiveInv
  <2>4. \A q \in Proc : pc[q] \in {"save", "done"} /\ ret[q] = "live" =>
          config = doc[q] /\ live \in {doc[q], Down}
    BY <2>1 DEF LiveInv
  <2>5. CASE live' = live
    <3>1. StampTrue'
      <4>1. CASE \A q \in Proc : pc[q] # "reload"
        BY <1>3, <2>2, <2>5, <4>1 DEF StampTrue, rendered_config_fingerprint
      <4>2. CASE \E q \in Proc : pc[q] = "reload"
        <5>1. \A q \in Proc : ~Tested(q)
          BY <1>2, <4>2 DEF Tested
        <5>2. stamp = rendered_config_fingerprint(live)
          BY <2>1, <5>1 DEF LiveInv
        <5> QED
          BY <1>3, <2>5, <5>2 DEF StampTrue, rendered_config_fingerprint
      <4> QED
        BY <4>1, <4>2
    <3> QED
      BY <1>1, <1>3, <2>1, <2>2, <2>3, <2>4, <2>5, <3>1 DEF LiveInv, InRestore, Tested
  <2>6. CASE S = Proc /\ live' = Started
    <3>1. live' \in {config, Down} /\ \A q \in Proc : pc'[q] = "idle"
      BY <1>1, <1>3, <2>6
    <3>2. StampTrue'
      BY <1>3, <3>1 DEF StampTrue
    <3> QED
      BY <1>3, <2>1, <2>2, <3>1, <3>2 DEF LiveInv, InRestore, Tested
  <2> QED
    BY <1>4, <2>5, <2>6 DEF Mishap, Fine
<1>5. CASE Fine /\ live' = live /\ \E p \in S : S = {p} /\ pc[p] = "done"
  <2>1. \A q \in Proc : pc[q] # "done" => pc'[q] = pc[q]
    BY <1>1, <1>2, <1>5
  <2>2. \A q \in Proc : pc'[q] # "idle" =>
          pc'[q] = pc[q] /\ doc'[q] = doc[q] /\ ret'[q] = ret[q]
    BY <1>1
  <2>3. \A q \in Proc : (Tested(q)' <=> Tested(q)) /\ (InRestore(q)' <=> InRestore(q))
                        /\ (pc'[q] = "reload" <=> pc[q] = "reload")
    BY <2>1, <2>2 DEF Tested, InRestore
  <2>4. mishaps' = mishaps /\ live' = live
    BY <1>5 DEF Fine
  <2> QED
    BY <1>3, <2>1, <2>2, <2>3, <2>4
       DEF LiveInv, StampTrue, rendered_config_fingerprint
<1> QED
  BY <1>4, <1>5

LEMMA BeginLive ==
  ASSUME TypeInv, StoreInv, RevokedInv, LiveInv, NEW p \in Proc,
         lock = Nobody, \E n \in {"render", "save"} : Goto(p, "idle", n),
         UNCHANGED <<config, bak, stamp, live, doc, ret, mishaps>>
  PROVE  LiveInv'
<1>1. \A q \in Proc : pc[q] = "idle" /\ ret[q] = "none" /\ (q # p => pc'[q] = "idle")
  BY ProcAssumption DEF StoreInv, LockInv, RevokedInv, DocInv, Goto, TypeInv, UserTypeOK
<1>2. pc'[p] \in {"render", "save"}
  BY DEF Goto, TypeInv, UserTypeOK
<1> QED
  BY <1>1, <1>2 DEF LiveInv, InRestore, Tested, StampTrue, rendered_config_fingerprint

LEMMA StepLive ==
  ASSUME TypeInv, StoreInv, RevokedInv, LiveInv, NEW p \in Proc, Step(p)
  PROVE  LiveInv'
<1>0. pc[p] # "idle" => \A q \in Proc : q # p => pc[q] = "idle"
  BY DEF StoreInv, LockInv
<1>1. CASE RenderAndApply(p)
  BY <1>1, ApplyLive DEF StoreInv
<1>2. CASE Save(p)
  BY <1>0, <1>2 DEF Save, Goto, TypeInv, UserTypeOK, services, locals,
                    LiveInv, InRestore, Tested, StampTrue, rendered_config_fingerprint
<1>3. CASE SaveFails(p)
  BY <1>0, <1>3 DEF SaveFails, Goto, Mishap, TypeInv, UserTypeOK, disk, services,
                    LiveInv, InRestore, Tested, StampTrue, rendered_config_fingerprint
<1>4. CASE Exit(p)
  BY <1>4, GoneLive DEF Exit, Fine, services
<1> QED
  BY <1>1, <1>2, <1>3, <1>4 DEF Step

LEMMA LiveStep ==
  TypeInv /\ StoreInv /\ RevokedInv /\ LiveInv /\ [UserNext]_uvars => LiveInv'
<1> SUFFICES ASSUME TypeInv, StoreInv, RevokedInv, LiveInv, [UserNext]_uvars
             PROVE  LiveInv'
  OBVIOUS
<1>1. ASSUME NEW p \in Operator, UserCommand(p) PROVE LiveInv'
  <2>1. /\ lock = Nobody
        /\ \E n \in {"render", "save"} : Goto(p, "idle", n)
        /\ UNCHANGED <<config, bak, stamp, live, doc, ret, mishaps>>
    BY Zenon, <1>1 DEF UserCommand, cmd_user_create, cmd_user_set_enabled, rotate_and_apply,
                cmd_user_rotate_token, cmd_user_remove, Begin, disk, services
  <2> QED
    BY <2>1, BeginLive DEF Proc
<1>2. CASE Reconcile
  BY <1>2, BeginLive DEF Reconcile, RenderConfig, disk, services, Proc
<1>3. ASSUME NEW p \in Proc, Step(p) PROVE LiveInv'
  BY <1>3, StepLive
<1>4. ASSUME NEW p \in Proc, Kill(p) PROVE LiveInv'
  BY <1>4, GoneLive DEF Kill, services
<1>5. CASE Reboot
  BY <1>5, GoneLive DEF Reboot
<1>6. CASE SingBoxDies
  <2>1. /\ mishaps' = mishaps + 1 /\ mishaps \in Nat /\ live' = Down
        /\ UNCHANGED <<config, bak, stamp, pc, doc, ret>>
    BY <1>6 DEF SingBoxDies, Mishap, disk, locals, TypeInv, UserTypeOK
  <2> QED
    BY <2>1 DEF LiveInv, InRestore, Tested, StampTrue
<1>7. CASE SystemdRestarts
  <2>1. /\ live = Down /\ live' = config /\ config \in Doc
        /\ UNCHANGED <<config, bak, stamp, pc, doc, ret, mishaps>>
    BY <1>7 DEF SystemdRestarts, Started, disk, locals
  <2> QED
    BY <2>1, ValueAssumption DEF RevokedInv, DocInv, LiveInv, InRestore, Tested, StampTrue
<1>8. CASE SubscriptionRestarts
  <2>1. /\ mishaps' = mishaps + 1 /\ mishaps \in Nat
        /\ UNCHANGED <<config, bak, stamp, live, pc, doc, ret>>
    BY <1>8 DEF SubscriptionRestarts, Mishap, disk, locals, TypeInv, UserTypeOK
  <2> QED
    BY <2>1 DEF LiveInv, InRestore, Tested, StampTrue
<1>9. CASE Tick
  <2>1. UNCHANGED <<config, bak, stamp, live, pc, doc, ret, mishaps>>
    BY <1>9 DEF Tick, disk, services, locals
  <2> QED
    BY <2>1 DEF LiveInv, InRestore, Tested, StampTrue
<1>10. CASE UNCHANGED uvars
  <2>1. UNCHANGED <<config, bak, stamp, live, pc, doc, ret, mishaps>>
    BY <1>10 DEF uvars, vars, disk, services, locals
  <2> QED
    BY <2>1 DEF LiveInv, InRestore, Tested, StampTrue
<1> QED
  BY Zenon, <1>1, <1>2, <1>3, <1>4, <1>5, <1>6, <1>7, <1>8, <1>9, <1>10 DEF UserNext, Weather

LEMMA LiveAlways == UserSpec => [](TypeInv /\ StoreInv /\ RevokedInv /\ LiveInv)
<1>1. UserInit /\ TypeInv => LiveInv
  BY ValueAssumption DEF UserInit, Init, TypeInv, UserTypeOK, LiveInv, InRestore, Tested,
     StampTrue, rendered_config_fingerprint
<1> QED
  BY <1>1, LiveStep, RevokedAlways, PTL DEF UserSpec

\* With at most one failure, kill or reboot so far, a command that reports
\* its document live is right: sing-box runs it, or is down.
THEOREM LiveReportTrue == UserSpec => []WentLiveIsLive
<1>1. LiveInv => WentLiveIsLive
  BY DEF LiveInv, WentLiveIsLive
<1> QED
  BY <1>1, LiveAlways, PTL

\* With at most one failure, kill or reboot so far, config.json is torn only
\* while the process copying the backup over it is still at work.
THEOREM ConfigLeftWhole == UserSpec => []NeverLeftTorn
<1>1. LiveInv => NeverLeftTorn
  BY DEF LiveInv, NeverLeftTorn
<1> QED
  BY <1>1, LiveAlways, PTL

----------------------------------------------------------------------------
(* users.json is published only after the running server accepts what it   *)
(* distributes and rejects what it withdraws.                              *)

\* What was rendered is the candidate table as of some moment of the command,
\* and what is saved without rendering only changed a token.
AuthInv ==
  \A p \in Proc :
    /\ Applying(p) \/ Applied(p) =>
         \E t \in 0 .. now : doc[p].auth = Authorized(cand[p], t)
    /\ pc[p] = "save" => ret[p] # "err"
    /\ pc[p] = "save" /\ ret[p] = "none" => Store!TokenRotated(users, cand[p])

PublishInv == Store!UniqueIds /\ AuthInv

\* A command never changes when a user expires.
LEMMA ExpiryKept ==
  ASSUME NEW us \in SUBSET CompatUser, NEW cs, Store!OneCommand(us, cs),
         \A x, y \in us : x.id = y.id => x = y,
         NEW r \in us, NEW s \in cs, s.id = r.id
  PROVE  s.expires = r.expires
<1> USE DEF CompatUser, Secret
<1>1. CASE Store!Created(us, cs)
  BY <1>1 DEF Store!Created, Store!WithUser
<1>2. CASE Store!EnabledSet(us, cs)
  BY <1>2 DEF Store!EnabledSet, Store!WithEnabled
<1>3. CASE Store!CredentialsRotated(us, cs)
  BY <1>3 DEF Store!CredentialsRotated, Store!WithCred
<1>4. CASE Store!TokenRotated(us, cs)
  BY <1>4 DEF Store!TokenRotated, Store!WithToken
<1>5. CASE Store!Removed(us, cs)
  BY <1>5 DEF Store!Removed, Store!Without
<1> QED
  BY <1>1, <1>2, <1>3, <1>4, <1>5 DEF Store!OneCommand

\* A command keeps ids unique.
LEMMA IdsStayUnique ==
  ASSUME NEW us \in SUBSET CompatUser, NEW cs, Store!OneCommand(us, cs),
         \A x, y \in us : x.id = y.id => x = y
  PROVE  \A x, y \in cs : x.id = y.id => x = y
<1> USE DEF CompatUser, Secret
<1>1. CASE Store!Created(us, cs)
  BY <1>1 DEF Store!Created, Store!WithUser
<1>2. CASE Store!EnabledSet(us, cs)
  BY <1>2 DEF Store!EnabledSet, Store!WithEnabled
<1>3. CASE Store!CredentialsRotated(us, cs)
  BY <1>3 DEF Store!CredentialsRotated, Store!WithCred
<1>4. CASE Store!TokenRotated(us, cs)
  BY <1>4 DEF Store!TokenRotated, Store!WithToken
<1>5. CASE Store!Removed(us, cs)
  BY <1>5 DEF Store!Removed, Store!Without
<1> QED
  BY <1>1, <1>2, <1>3, <1>4, <1>5 DEF Store!OneCommand

\* A credential active now was active at every earlier moment.
LEMMA ActiveBefore ==
  ASSUME NEW us \in SUBSET CompatUser, NEW t \in Nat, NEW n \in Nat, t <= n
  PROVE  Authorized(us, n) \subseteq Authorized(us, t)
<1>1. \A r \in us : is_active(r, n) => is_active(r, t)
  BY DEF is_active, CompatUser
<1> QED
  BY <1>1 DEF Authorized

\* A new token does not change who is authorized.
LEMMA TokenNotAuthority ==
  ASSUME NEW us \in SUBSET CompatUser, NEW cs, NEW n \in Nat, Store!TokenRotated(us, cs)
  PROVE  Authorized(cs, n) = Authorized(us, n)
<1> PICK r \in us, s \in cs : cs = Store!WithToken(us, r.id, s.token)
  BY DEF Store!TokenRotated
<1> DEFINE f(x) == IF x.id = r.id THEN [x EXCEPT !.token = s.token] ELSE x
<1>1. \A x \in us : /\ f(x).id = x.id /\ f(x).cred = x.cred
                    /\ f(x).enabled = x.enabled /\ f(x).expires = x.expires
  BY DEF CompatUser
<1>2. cs = {f(x) : x \in us}
  BY DEF Store!WithToken
<1>3. \A x \in us : is_active(f(x), n) = is_active(x, n)
  BY <1>1 DEF is_active
<1> HIDE DEF f
<1> QED
  BY <1>1, <1>2, <1>3 DEF Authorized

\* What a table withdraws now, no earlier rendering of it authorizes.
LEMMA WithdrawnRejected ==
  ASSUME NEW us \in SUBSET CompatUser, NEW cs \in SUBSET CompatUser,
         Store!OneCommand(us, cs), \A x, y \in us : x.id = y.id => x = y,
         NEW t \in Nat, NEW n \in Nat, t <= n,
         NEW a \in Authorized(us, n), a \notin Authorized(cs, n)
  PROVE  a \notin Authorized(cs, t)
<1> SUFFICES ASSUME a \in Authorized(cs, t) PROVE FALSE
  OBVIOUS
<1>1. PICK r \in us : is_active(r, n) /\ a = <<r.id, r.cred>>
  BY DEF Authorized
<1>2. PICK s \in cs : is_active(s, t) /\ a = <<s.id, s.cred>>
  BY DEF Authorized
<1>3. s.expires = r.expires
  BY <1>1, <1>2, ExpiryKept
<1>4. is_active(s, n)
  BY <1>1, <1>2, <1>3 DEF is_active
<1> QED
  BY <1>2, <1>4 DEF Authorized

----------------------------------------------------------------------------
LEMMA ApplyAuth ==
  ASSUME TypeInv, LockInv, AuthInv, NEW p \in Proc, RenderAndApply(p)
  PROVE  AuthInv'
<1>0. /\ \A q \in Proc : q # p => pc[q] = "idle" /\ pc'[q] = "idle"
      /\ pc'[p] # "idle" /\ UNCHANGED <<now, users, cand>>
  BY ApplyFrame DEF LockInv, Busy
<1>1. /\ now \in 0 .. now
      /\ Rendered(p).auth = Authorized(cand[p], now)
  BY DEF TypeInv, UserTypeOK, Rendered, render_singbox_server_config
<1> USE DEF TypeInv, UserTypeOK, Applying, Applied, AuthInv, Goto, Return
<1>2. CASE CannotRender(p)
  BY <1>0, <1>2 DEF CannotRender
<1>3. CASE RefuseUnavailable(p)
  BY <1>0, <1>3 DEF RefuseUnavailable
<1>4. CASE AlreadyCurrent(p)
  BY <1>0, <1>1, <1>4 DEF AlreadyCurrent
<1>5. CASE MustApply(p)
  BY <1>0, <1>1, <1>5 DEF MustApply
<1>6. CASE Backup(p)
  BY <1>0, <1>6 DEF Backup, locals
<1>7. CASE Swap(p)
  BY <1>0, <1>7 DEF Swap, locals
<1>8. CASE ApplyFails(p)
  BY <1>0, <1>8 DEF ApplyFails
<1>9. CASE ReloadUnavailable(p)
  BY <1>0, <1>9 DEF ReloadUnavailable
<1>10. CASE Reload(p)
  BY <1>0, <1>10 DEF Reload, locals
<1>11. CASE SelfTest(p)
  BY <1>0, <1>11 DEF SelfTest, locals
<1>12. CASE Stamp(p)
  BY <1>0, <1>12 DEF Stamp
<1>13. CASE RestoreBegins(p)
  BY <1>0, <1>13 DEF RestoreBegins, locals
<1>14. CASE RestoreEnds(p)
  BY <1>0, <1>14 DEF RestoreEnds, locals
<1>15. CASE RestoreFails(p)
  BY <1>0, <1>15 DEF RestoreFails
<1>16. CASE RecoveryReload(p)
  BY <1>0, <1>16 DEF RecoveryReload
<1> QED
  BY <1>2, <1>3, <1>4, <1>5, <1>6, <1>7, <1>8, <1>9,
     <1>10, <1>11, <1>12, <1>13, <1>14, <1>15, <1>16 DEF RenderAndApply

\* Nobody is applying or saving when a command begins, or a process is gone.
LEMMA RestAuth ==
  ASSUME TypeInv, AuthInv, UNCHANGED <<users, now>>,
         \A q \in Proc : \/ pc'[q] \notin {"save"} /\ ~Applying(q)'
                         \/ pc'[q] = pc[q] /\ doc'[q] = doc[q] /\ ret'[q] = ret[q]
                            /\ cand'[q] = cand[q]
  PROVE  AuthInv'
BY DEF AuthInv, Applying, Applied

LEMMA GoneAuth ==
  ASSUME TypeInv, AuthInv, NEW S \in SUBSET Proc, Gone(S), UNCHANGED <<users, now>>
  PROVE  AuthInv'
<1>1. \A q \in Proc : \/ pc'[q] = "idle"
                      \/ pc'[q] = pc[q] /\ doc'[q] = doc[q] /\ ret'[q] = ret[q]
                         /\ cand'[q] = cand[q]
  BY DEF Gone, TypeInv, UserTypeOK
<1> QED
  BY <1>1, RestAuth DEF Applying

LEMMA BeginAuth ==
  ASSUME TypeInv, StoreInv, DocInv, AuthInv, NEW p \in Proc, UserCommand(p)
  PROVE  AuthInv'
<1>0. lock = Nobody /\ UNCHANGED <<users, now, doc, ret>>
  BY Zenon DEF UserCommand, cmd_user_create, cmd_user_set_enabled, rotate_and_apply,
         cmd_user_rotate_token, cmd_user_remove, Begin, disk, services
<1>1. \A q \in Proc : pc[q] = "idle" /\ ret[q] = "none"
  BY <1>0, ProcAssumption DEF StoreInv, LockInv, DocInv, TypeInv, UserTypeOK
<1>2. \A q \in Proc : q # p => pc'[q] = "idle"
  BY Zenon, <1>1 DEF UserCommand, cmd_user_create, cmd_user_set_enabled, rotate_and_apply,
         cmd_user_rotate_token, cmd_user_remove, Begin, Goto, TypeInv, UserTypeOK
<1>3. CASE cmd_user_rotate_token(p)
  <2> PICK r \in users :
        /\ Draw
        /\ Begin(p, "rotate-token", "save", Store!WithToken(users, r.id, fresh))
    BY <1>3 DEF cmd_user_rotate_token
  <2> DEFINE us == Store!WithToken(users, r.id, fresh)
  <2>1. [r EXCEPT !.token = fresh] \in us /\ [r EXCEPT !.token = fresh].token = fresh
    BY Zenon DEF Store!WithToken, TypeInv, UserTypeOK, CompatUser
  <2>2. Store!TokenRotated(users, us)
    BY Zenon, <2>1 DEF Store!TokenRotated
  <2>3. pc'[p] = "save" /\ cand'[p] = us
    BY DEF Begin, Goto, TypeInv, UserTypeOK
  <2> HIDE DEF us
  <2> QED
    BY <1>0, <1>1, <1>2, <2>2, <2>3 DEF AuthInv, Applying, Applied
<1>4. CASE ~cmd_user_rotate_token(p)
  <2>1. pc'[p] = "render"
    BY Zenon, <1>4 DEF UserCommand, cmd_user_create, cmd_user_set_enabled, rotate_and_apply,
                cmd_user_remove, Begin, Goto, TypeInv, UserTypeOK
  <2> QED
    BY <1>0, <1>2, <2>1, RestAuth DEF Applying
<1> QED
  BY <1>3, <1>4

LEMMA StepAuth ==
  ASSUME TypeInv, StoreInv, AuthInv, NEW p \in Proc, Step(p)
  PROVE  AuthInv'
<1>0. pc[p] # "idle" => \A q \in Proc : q # p => pc[q] = "idle"
  BY DEF StoreInv, LockInv
<1>1. CASE RenderAndApply(p)
  BY <1>1, ApplyAuth DEF StoreInv
<1>2. CASE Save(p)
  <2>1. \A q \in Proc : pc'[q] \in {"idle", "done"}
    BY <1>0, <1>2 DEF Save, Goto, TypeInv, UserTypeOK
  <2> QED
    BY <2>1 DEF AuthInv, Applying, Applied
<1>3. CASE SaveFails(p)
  <2>1. \A q \in Proc : pc'[q] \in {"idle", "done", "render"}
    BY <1>0, <1>3 DEF SaveFails, Goto, TypeInv, UserTypeOK
  <2> QED
    BY <2>1 DEF AuthInv, Applying, Applied
<1>4. CASE Exit(p)
  BY <1>4, GoneAuth DEF Exit, disk
<1> QED
  BY <1>1, <1>2, <1>3, <1>4 DEF Step

LEMMA PublishStep ==
  TypeInv /\ StoreInv /\ DocInv /\ PublishInv /\ [UserNext]_uvars
    /\ [Store!Next]_users => PublishInv'
<1> SUFFICES ASSUME TypeInv, StoreInv, DocInv, PublishInv, [UserNext]_uvars,
                    [Store!Next]_users
             PROVE  PublishInv'
  OBVIOUS
<1> USE DEF PublishInv
<1>0. Store!UniqueIds'
  BY IdsStayUnique DEF Store!UniqueIds, Store!Next, TypeInv, UserTypeOK
<1>1. ASSUME NEW p \in Operator, UserCommand(p) PROVE AuthInv'
  BY <1>1, BeginAuth DEF Proc
<1>2. CASE Reconcile
  <2>1. \A q \in Proc : pc'[q] \in {"idle", "render"}
    BY <1>2, ProcAssumption DEF Reconcile, RenderConfig, Goto, Proc, StoreInv, LockInv,
                                TypeInv, UserTypeOK
  <2> QED
    BY <1>0, <2>1 DEF AuthInv, Applying, Applied
<1>3. ASSUME NEW p \in Proc, Step(p) PROVE AuthInv'
  BY <1>3, StepAuth
<1>4. ASSUME NEW p \in Proc, Kill(p) PROVE AuthInv'
  BY <1>4, GoneAuth DEF Kill, disk
<1>5. CASE Reboot
  BY <1>0, <1>5, GoneAuth DEF Reboot, disk
<1>6. CASE SingBoxDies \/ SystemdRestarts \/ SubscriptionRestarts
  BY <1>0, <1>6, RestAuth DEF SingBoxDies, SystemdRestarts, SubscriptionRestarts, disk, locals
<1>7. CASE Tick
  <2>1. 0 .. now \subseteq 0 .. now'
    BY <1>7 DEF Tick, TypeInv, UserTypeOK
  <2> QED
    BY <1>0, <1>7, <2>1 DEF Tick, AuthInv, Applying, Applied, disk, locals
<1>8. CASE UNCHANGED uvars
  BY <1>0, <1>8, RestAuth DEF uvars, vars, disk, locals
<1> QED
  BY <1>0, <1>1, <1>2, <1>3, <1>4, <1>5, <1>6, <1>7, <1>8 DEF UserNext, Weather

----------------------------------------------------------------------------
\* When users.json is published and the server runs, the server already
\* accepts every credential the new table newly distributes and already
\* rejects every one it withdraws, unless more than one thing went wrong
\* before, or the command was told its document is not live.
THEOREM PublishedAfterLive == UserSpec => PublishesAfterLive
<1>1. UserInit => PublishInv
  BY InitialUsersAssumption DEF UserInit, Init, PublishInv, Store!UniqueIds, AuthInv,
     Applying, Applied
<1>2. UserSpec => []PublishInv
  BY <1>1, PublishStep, RevokedAlways, StoreRefined, PTL
     DEF UserSpec, RevokedInv, Store!Spec, PublishesOneCommandAtATime
<1>3. ASSUME TypeInv, StoreInv, LiveInv, PublishInv, NEW p \in Proc, Save(p),
             mishaps <= 1, ret[p] # "notlive", live # Down
      PROVE  /\ Authorized(users', now) \ Authorized(users, now) \subseteq live.auth
             /\ (Authorized(users, now) \ Authorized(users', now)) \cap live.auth = {}
  <2>0. /\ pc[p] = "save" /\ users' = cand[p] /\ now \in Nat
        /\ users \in SUBSET CompatUser /\ cand[p] \in SUBSET CompatUser
        /\ ret[p] \in {"none", "live"}
    BY <1>3, BoundAssumption DEF Save, Goto, TypeInv, UserTypeOK, PublishInv, AuthInv
  <2>1. CASE ret[p] = "none"
    <3>1. Store!TokenRotated(users, cand[p])
      BY <1>3, <2>0, <2>1 DEF PublishInv, AuthInv
    <3> QED
      BY <2>0, <3>1, TokenNotAuthority
  <2>2. CASE ret[p] = "live"
    <3>1. live = doc[p]
      BY <1>3, <2>0, <2>2 DEF LiveInv
    <3>2. PICK t \in 0 .. now : live.auth = Authorized(cand[p], t)
      BY <1>3, <2>0, <2>2, <3>1 DEF PublishInv, AuthInv, Applied
    <3>3. t \in Nat /\ t <= now
      BY <2>0
    <3>4. Store!OneCommand(users, cand[p]) /\ \A x, y \in users : x.id = y.id => x = y
      BY <1>3, <2>0 DEF StoreInv, TableInv, Busy, PublishInv, Store!UniqueIds
    <3> QED
      BY <2>0, <3>2, <3>3, <3>4, ActiveBefore, WithdrawnRejected
  <2> QED
    BY <2>0, <2>1, <2>2
<1>4. TypeInv /\ StoreInv /\ LiveInv /\ PublishInv =>
        [\A p \in Proc :
           Save(p) /\ mishaps <= 1 /\ ret[p] # "notlive" /\ live # Down =>
             /\ Authorized(users', now) \ Authorized(users, now) \subseteq live.auth
             /\ (Authorized(users, now) \ Authorized(users', now)) \cap live.auth
                  = {}]_uvars
  BY <1>3
<1> QED
  BY <1>2, <1>4, LiveAlways, PTL DEF PublishesAfterLive
=============================================================================
