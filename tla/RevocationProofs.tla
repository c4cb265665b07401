-------------------------- MODULE RevocationProofs --------------------------
(***************************************************************************)
(* A revoked credential stays revoked, whatever the commands, faults and   *)
(* reboots that follow.                                                    *)
(***************************************************************************)
EXTENDS UserTransactionProofs

\* The document a process applies authorizes users of its candidate table,
\* and is in config.json from the swap until the command ends well.
DocCreds(d) == {a[2] : a \in d.auth}
Applied(p) == pc[p] = "save" /\ ret[p] = "live"
DocInv ==
  \A p \in Proc :
    /\ pc[p] = "idle" => ret[p] = "none"
    /\ Applying(p) \/ Applied(p) => DocCreds(doc[p]) \subseteq Creds(cand[p])
    /\ pc[p] \in {"reload", "selftest", "stamp"} \/ Applied(p) => config = doc[p]

\* No document that sing-box can be started from holds a revoked credential,
\* and neither does a table that can still be rendered or saved.  The backup
\* may, until the next command overwrites it.
Clean(d) == d \in Doc => DocCreds(d) \cap revoked = {}
CleanInv ==
  /\ Clean(config)
  /\ Clean(live)
  /\ Creds(users) \cap revoked = {}
  /\ \A p \in Proc : /\ Busy(p) => Creds(cand[p]) \cap revoked = {}
                     /\ Swapping(p) => Clean(bak)

RevokedInv == DocInv /\ CleanInv


LEMMA RenderCreds ==
  ASSUME NEW us, NEW ks, NEW t
  PROVE  DocCreds(render_singbox_server_config(us, ks, t)) \subseteq Creds(us)
<1>1. \A a \in Authorized(us, t) : \E r \in us : a = <<r.id, r.cred>>
  BY DEF Authorized
<1>2. render_singbox_server_config(us, ks, t).auth = Authorized(us, t)
  BY DEF render_singbox_server_config
<1> QED
  BY <1>1, <1>2 DEF DocCreds, Creds

\* What a step of render_and_apply_singbox_config does to the documents.
Unmoved == UNCHANGED <<config, bak, live, doc>>
ApplyEffect(p) ==
  \/ /\ pc'[p] \in {"done", "save"} /\ ret'[p] \in {"err", "notlive"}
     /\ Unmoved
  \/ /\ pc'[p] \in {"done", "save"} /\ doc'[p] = Rendered(p)
     /\ config = Rendered(p) /\ UNCHANGED <<config, bak, live>>
  \/ /\ pc'[p] = "backup" /\ doc'[p] = Rendered(p)
     /\ UNCHANGED <<config, bak, live>>
  \/ /\ pc[p] = "backup" /\ pc'[p] = "swap" /\ bak' = config
     /\ UNCHANGED <<config, live, doc>>
  \/ /\ pc[p] = "swap" /\ pc'[p] = "reload" /\ config' = doc[p]
     /\ UNCHANGED <<bak, live, doc>>
  \/ /\ pc[p] = "reload" /\ pc'[p] \in {"selftest", "restore"}
     /\ live' \in {live, config, Down} /\ UNCHANGED <<config, bak, doc>>
  \/ /\ pc[p] = "selftest" /\ pc'[p] \in {"stamp", "restore"} /\ Unmoved
  \/ /\ pc[p] = "stamp" /\ pc'[p] \in {"done", "save"} /\ Unmoved
  \/ /\ pc[p] = "restore" /\ pc'[p] = "restoring" /\ config' = Torn
     /\ UNCHANGED <<bak, live, doc>>
  \/ /\ pc[p] = "restoring" /\ pc'[p] = "reload2" /\ config' = bak
     /\ UNCHANGED <<bak, live, doc>>
  \/ /\ pc'[p] = "done" /\ live' \in {live, config, Down}
     /\ UNCHANGED <<config, bak, doc>>

LEMMA ApplyEffects ==
  ASSUME TypeInv, NEW p \in Proc, RenderAndApply(p)
  PROVE  ApplyEffect(p)
<1> USE DEF TypeInv, UserTypeOK, disk, services, locals, Goto, Return, ApplyEffect,
            Unmoved
<1>1. CASE CannotRender(p)
  BY <1>1 DEF CannotRender
<1>2. CASE RefuseUnavailable(p)
  BY <1>2 DEF RefuseUnavailable
<1>3. CASE AlreadyCurrent(p)
  BY <1>3 DEF AlreadyCurrent, Current
<1>4. CASE MustApply(p)
  BY <1>4 DEF MustApply
<1>5. CASE Backup(p)
  <2>1. config # NoFile
    BY ValueAssumption
  <2> QED
    BY <1>5, <2>1 DEF Backup, CopyToBackup
<1>6. CASE Swap(p)
  BY <1>6 DEF Swap, SwapIn
<1>7. CASE ApplyFails(p)
  BY <1>7 DEF ApplyFails
<1>8. CASE ReloadUnavailable(p)
  BY <1>8 DEF ReloadUnavailable
<1>9. CASE Reload(p)
  BY <1>9 DEF Reload, ReloadOk, ReloadFails, Started
<1>10. CASE SelfTest(p)
  BY <1>10 DEF SelfTest
<1>11. CASE Stamp(p)
  BY <1>11 DEF Stamp
<1>12. CASE RestoreBegins(p)
  BY <1>12 DEF RestoreBegins, CopyBackBegins
<1>13. CASE RestoreEnds(p)
  BY <1>13 DEF RestoreEnds, CopyBackEnds
<1>14. CASE RestoreFails(p)
  BY <1>14 DEF RestoreFails
<1>15. CASE RecoveryReload(p)
  BY <1>15 DEF RecoveryReload, ReloadOk, ReloadFails, Started
<1> QED
  BY Zenon, <1>1, <1>2, <1>3, <1>4, <1>5, <1>6, <1>7, <1>8,
     <1>9, <1>10, <1>11, <1>12, <1>13, <1>14, <1>15 DEF RenderAndApply

LEMMA ApplyRevoked ==
  ASSUME TypeInv, LockInv, RevokedInv, NEW p \in Proc, RenderAndApply(p),
         UNCHANGED revoked
  PROVE  RevokedInv'
<1>0. /\ \A q \in Proc : q # p => pc[q] = "idle" /\ pc'[q] = "idle" /\ ret'[q] = ret[q]
      /\ pc'[p] # "idle" /\ Busy(p) /\ UNCHANGED <<users, cand>>
  BY ApplyFrame DEF LockInv, Busy
<1>1. DocCreds(Rendered(p)) \subseteq Creds(cand[p])
  BY RenderCreds DEF Rendered
<1>2. Down \notin Doc /\ Torn \notin Doc
  BY ValueAssumption
<1>3. ApplyEffect(p)
  BY ApplyEffects
<1>4. DocInv'
  <2>1. \A q \in Proc : q # p =>
          ~Applying(q)' /\ ~Applied(q)' /\ pc'[q] = "idle" /\ ret'[q] = "none"
    BY <1>0 DEF RevokedInv, DocInv, Applying, Applied
  <2>2. (Applying(p) \/ Applied(p) => DocCreds(doc[p]) \subseteq Creds(cand[p]))'
    BY <1>0, <1>1, <1>3 DEF ApplyEffect, Unmoved, RevokedInv, DocInv, Applying, Applied
  <2>3. (pc[p] \in {"reload", "selftest", "stamp"} \/ Applied(p) => config = doc[p])'
    <3>1. pc[p] \in {"reload", "selftest", "stamp"} => config = doc[p]
      BY DEF RevokedInv, DocInv
    <3> QED
      BY <1>0, <1>3, <3>1 DEF ApplyEffect, Unmoved, Applied, Busy
  <2> QED
    BY <1>0, <2>1, <2>2, <2>3 DEF DocInv
<1>5. CleanInv'
  <2>1. \A q \in Proc : q # p => ~Busy(q)' /\ ~Swapping(q)'
    BY <1>0 DEF Busy, Swapping
  <2>2. Creds(cand[p]) \cap revoked = {} /\ Creds(users) \cap revoked = {}
    BY <1>0 DEF RevokedInv, CleanInv
  <2>3. Clean(config)' /\ Clean(live)' /\ (Swapping(p) => Clean(bak))'
    <3>1. pc[p] = "swap" => Clean(doc[p])
      BY <2>2 DEF RevokedInv, DocInv, Applying, Clean
    <3>2. Clean(config) /\ Clean(live) /\ (Swapping(p) => Clean(bak))
      BY DEF RevokedInv, CleanInv
    <3> QED
      BY <1>2, <1>3, <3>1, <3>2 DEF ApplyEffect, Unmoved, Clean, Swapping
  <2> QED
    BY <1>0, <2>1, <2>2, <2>3 DEF CleanInv
<1> QED
  BY <1>4, <1>5 DEF RevokedInv

LEMMA BeginRevoked ==
  ASSUME TypeInv, StoreInv, RevokedInv, NEW p \in Proc, NEW c,
         NEW n \in {"render", "save"}, NEW us, Begin(p, c, n, us),
         Creds(us) \subseteq Creds(users) \cup {fresh}, UNCHANGED revoked
  PROVE  RevokedInv'
<1>1. fresh \notin revoked
  <2>1. \A x \in revoked : x \in Nat /\ x < fresh
    BY DEF TypeInv, UserTypeOK, Secret, StoreInv, FreshInv
  <2> QED
    BY <2>1 DEF TypeInv, UserTypeOK
<1>2. \A q \in Proc : pc[q] = "idle" /\ (q # p => pc'[q] = "idle")
  BY ProcAssumption DEF Begin, Goto, StoreInv, LockInv, TypeInv, UserTypeOK
<1>3. pc'[p] = n /\ cand'[p] = us /\ UNCHANGED <<users, config, bak, live, doc, ret>>
  BY DEF Begin, Goto, TypeInv, UserTypeOK, disk, services
<1>4. DocInv'
  BY <1>2, <1>3 DEF RevokedInv, DocInv, Applying, Applied
<1>5. CleanInv'
  BY <1>1, <1>2, <1>3 DEF RevokedInv, CleanInv, Clean, Busy, Swapping
<1> QED
  BY <1>4, <1>5 DEF RevokedInv

LEMMA CommandRevoked ==
  ASSUME TypeInv, StoreInv, RevokedInv, NEW p \in Proc, UserCommand(p),
         UNCHANGED revoked
  PROVE  RevokedInv'
<1>0. users \in SUBSET CompatUser
  BY DEF TypeInv, UserTypeOK
<1>1. CASE cmd_user_create(p)
  <2> PICK e \in 0 .. MaxNow \cup {Never} :
        Begin(p, "create", "render",
              Store!WithUser(users, [id |-> fresh, enabled |-> TRUE,
                cred |-> fresh, token |-> fresh, expires |-> e]))
    BY Zenon, <1>1 DEF cmd_user_create
  <2>1. Creds(Store!WithUser(users, [id |-> fresh, enabled |-> TRUE,
                cred |-> fresh, token |-> fresh, expires |-> e]))
          \subseteq Creds(users) \cup {fresh}
    BY SMTT(30) DEF Creds, Store!WithUser
  <2> QED
    BY Zenon, <2>1, BeginRevoked
<1>2. CASE cmd_user_set_enabled(p)
  <2> PICK r \in users, b \in BOOLEAN : 
        Begin(p, "set-enabled", "render", Store!WithEnabled(users, r.id, b))
    BY <1>2 DEF cmd_user_set_enabled
  <2>1. Creds(Store!WithEnabled(users, r.id, b)) \subseteq Creds(users) \cup {fresh}
    BY <1>0 DEF Creds, Store!WithEnabled, CompatUser
  <2> QED
    BY <2>1, BeginRevoked
<1>3. CASE rotate_and_apply(p)
  <2> PICK r \in users : 
        Begin(p, "rotate", "render", Store!WithCred(users, r.id, fresh))
    BY <1>3 DEF rotate_and_apply
  <2>1. Creds(Store!WithCred(users, r.id, fresh)) \subseteq Creds(users) \cup {fresh}
    BY <1>0 DEF Creds, Store!WithCred, CompatUser
  <2> QED
    BY <2>1, BeginRevoked
<1>4. CASE cmd_user_rotate_token(p)
  <2> PICK r \in users : 
        Begin(p, "rotate-token", "save", Store!WithToken(users, r.id, fresh))
    BY <1>4 DEF cmd_user_rotate_token
  <2>1. Creds(Store!WithToken(users, r.id, fresh)) \subseteq Creds(users) \cup {fresh}
    BY <1>0 DEF Creds, Store!WithToken, CompatUser
  <2> QED
    BY <2>1, BeginRevoked
<1>5. CASE cmd_user_remove(p)
  <2> PICK r \in users : 
        Begin(p, "remove", "render", Store!Without(users, r.id))
    BY <1>5 DEF cmd_user_remove
  <2>1. Creds(Store!Without(users, r.id)) \subseteq Creds(users) \cup {fresh}
    BY <1>0 DEF Creds, Store!Without, CompatUser
  <2> QED
    BY <2>1, BeginRevoked
<1> QED
  BY <1>1, <1>2, <1>3, <1>4, <1>5 DEF UserCommand

LEMMA GoneRevoked ==
  ASSUME TypeInv, RevokedInv, NEW S \in SUBSET Proc, Gone(S),
         UNCHANGED <<disk, revoked>>, Clean(live)'
  PROVE  RevokedInv'
<1>1. \A q \in Proc : pc'[q] # "idle" =>
        pc'[q] = pc[q] /\ doc'[q] = doc[q] /\ ret'[q] = ret[q] /\ cand'[q] = cand[q]
  BY DEF Gone, TypeInv, UserTypeOK
<1>2. \A q \in Proc : pc'[q] = "idle" => ret'[q] = "none"
  BY DEF Gone, TypeInv, UserTypeOK, RevokedInv, DocInv
<1> QED
  BY <1>1, <1>2 DEF RevokedInv, DocInv, CleanInv, Clean, Applying, Applied,
                    Swapping, Busy, disk

LEMMA StepRevoked ==
  ASSUME TypeInv, StoreInv, RevokedInv, NEW p \in Proc, Step(p)
  PROVE  RevokedInv'
<1>0. pc[p] # "idle" => \A q \in Proc : q # p => pc[q] = "idle"
  BY DEF StoreInv, LockInv
<1> USE DEF disk, services, locals
<1>1. CASE RenderAndApply(p) /\ UNCHANGED revoked
  BY <1>1, ApplyRevoked DEF StoreInv
<1>2. CASE Save(p)
  <2>1. /\ pc[p] = "save" /\ pc'[p] = "done" /\ users' = cand[p]
        /\ \A q \in Proc : q # p => pc[q] = "idle" /\ pc'[q] = "idle"
        /\ UNCHANGED <<config, bak, live, doc, ret, cand>>
    BY <1>0, <1>2 DEF Save, Goto, TypeInv, UserTypeOK
  <2>2. DocInv'
    BY <2>1 DEF RevokedInv, DocInv, Applying, Applied
  <2>3. CASE revoked' = revoked
    BY <2>1, <2>2, <2>3 DEF RevokedInv, CleanInv, Clean, Busy, Swapping
  <2>4. CASE /\ Applied(p) /\ live \in {doc[p], Down}
             /\ revoked' = revoked \cup (Creds(users) \ Creds(cand[p]))
    <3>1. config = doc[p] /\ DocCreds(doc[p]) \subseteq Creds(cand[p])
      BY <2>4 DEF RevokedInv, DocInv
    <3>2. Creds(cand[p]) \cap revoked = {}
      BY <2>1 DEF RevokedInv, CleanInv, Busy
    <3>3. Clean(config)' /\ Clean(live)' /\ (Creds(users) \cap revoked = {})'
      BY <2>1, <2>4, <3>1, <3>2, ValueAssumption DEF Clean
    <3> QED
      BY <2>1, <2>2, <3>3 DEF RevokedInv, CleanInv, Busy, Swapping
  <2> QED
    BY <1>2, <2>1, <2>3, <2>4 DEF Save, Applied
<1>3. CASE SaveFails(p) /\ UNCHANGED revoked
  <2>1. /\ UNCHANGED <<users, config, bak, live, doc, revoked>>
        /\ \A q \in Proc : q # p => pc[q] = "idle" /\ pc'[q] = "idle" /\ ret'[q] = ret[q]
        /\ \/ pc'[p] = "done"
           \/ pc'[p] = "render" /\ cand'[p] = users
    <3>1. pc[p] = "save" => prev[p] = users
      BY DEF StoreInv, TableInv, Busy
    <3> QED
      BY <1>0, <1>3, <3>1 DEF SaveFails, Goto, TypeInv, UserTypeOK
  <2> QED
    BY <2>1 DEF RevokedInv, DocInv, CleanInv, Clean, Applying, Applied, Busy, Swapping
<1>4. CASE Exit(p) /\ UNCHANGED revoked
  BY <1>4, GoneRevoked DEF Exit, RevokedInv, CleanInv, Clean
<1> QED
  BY <1>1, <1>2, <1>3, <1>4 DEF Step

LEMMA RevokedStep == TypeInv /\ StoreInv /\ RevokedInv /\ [UserNext]_uvars => RevokedInv'
<1> SUFFICES ASSUME TypeInv, StoreInv, RevokedInv, [UserNext]_uvars PROVE RevokedInv'
  OBVIOUS
<1>0. Started \in Doc \cup {Down} /\ (Started = config \/ Started = Down)
  BY StartedType DEF TypeInv, Started
<1> USE DEF disk, services, locals
<1>1. ASSUME NEW p \in Operator, UserCommand(p), UNCHANGED revoked PROVE RevokedInv'
  BY <1>1, CommandRevoked DEF Proc
<1>2. CASE Reconcile
  <2>1. \A q \in Proc : pc[q] = "idle" /\ (q # Timer => pc'[q] = "idle")
    BY <1>2, ProcAssumption DEF Reconcile, RenderConfig, Goto, Proc, StoreInv, LockInv,
                                TypeInv, UserTypeOK
  <2>2. /\ pc'[Timer] = "render" /\ cand'[Timer] = users
        /\ UNCHANGED <<users, config, bak, live, doc, ret, revoked>>
    BY <1>2 DEF Reconcile, RenderConfig, Goto, Proc, TypeInv, UserTypeOK
  <2> QED
    BY <2>1, <2>2 DEF RevokedInv, DocInv, CleanInv, Clean, Applying, Applied, Busy, Swapping
<1>3. ASSUME NEW p \in Proc, Step(p) PROVE RevokedInv'
  BY <1>3, StepRevoked
<1>4. ASSUME NEW p \in Proc, Kill(p), UNCHANGED revoked PROVE RevokedInv'
  BY <1>4, GoneRevoked DEF Kill, RevokedInv, CleanInv, Clean
<1>5. CASE Reboot /\ UNCHANGED revoked
  BY <1>0, <1>5, GoneRevoked, ValueAssumption DEF Reboot, RevokedInv, CleanInv, Clean
<1>6. CASE Weather /\ UNCHANGED revoked
  BY <1>0, <1>6, ValueAssumption
  DEF Weather, SingBoxDies, SystemdRestarts, SubscriptionRestarts, Tick,
      RevokedInv, DocInv, CleanInv, Clean, Applying, Applied, Busy, Swapping
<1>7. CASE UNCHANGED uvars
  BY <1>7 DEF uvars, vars, RevokedInv, DocInv, CleanInv, Clean, Applying, Applied,
              Busy, Swapping
<1> QED
  BY <1>1, <1>2, <1>3, <1>4, <1>5, <1>6, <1>7 DEF UserNext

LEMMA RevokedAlways == UserSpec => [](TypeInv /\ StoreInv /\ RevokedInv)
<1>1. UserInit => RevokedInv
  BY DEF UserInit, Init, RevokedInv, DocInv, CleanInv, Clean, Applying, Applied,
         Busy, Swapping
<1> QED
  BY <1>1, RevokedStep, StoreAlways, PTL DEF UserSpec

\* A credential that a command withdrew and pushed to the running server is
\* never accepted again: not after any number of failed reloads, restored
\* backups, kills, crashes and reboots, in any order.
THEOREM RevocationPermanent == UserSpec => []RevokedStaysRevoked
<1>1. TypeInv /\ RevokedInv => RevokedStaysRevoked
  <2> SUFFICES ASSUME TypeInv, RevokedInv, live # Down, NEW a \in live.auth
               PROVE  a[2] \notin revoked
    BY DEF RevokedStaysRevoked
  <2>1. live \in Doc /\ Clean(live)
    BY DEF TypeInv, UserTypeOK, RevokedInv, CleanInv
  <2> QED
    BY <2>1 DEF Clean, DocCreds
<1> QED
  BY <1>1, RevokedAlways, PTL
=============================================================================
