--------------------------- MODULE UserTransaction ---------------------------
(***************************************************************************)
(* The user commands of vpn-admin (cmd_user_create, cmd_user_set_enabled,  *)
(* rotate_and_apply, cmd_user_rotate_token, cmd_user_remove): under the    *)
(* state lock, load users.json, change the table, push the rendered        *)
(* document to the running sing-box (ApplyConfig), and only then publish   *)
(* users.json; when publishing fails, push the previous table again.       *)
(* The reconciliation timer runs beside them.                              *)
(***************************************************************************)
EXTENDS ApplyConfig

CONSTANT OfflineUsed  \* whether operators may set VPN1_ALLOW_OFFLINE_MUTATION

ASSUME OfflineAssumption == OfflineUsed \in BOOLEAN

VARIABLE revoked  \* history: credentials withdrawn by a command that went live

uvars == <<vars, revoked>>

Store == INSTANCE UserStore

\* Mutant: the lock is not waited for.
BeginUnlocked(p, c, next, table) ==
  /\ lock' = p
  /\ Goto(p, "idle", next)
  /\ cmd' = [cmd EXCEPT ![p] = c]
  /\ prev' = [prev EXCEPT ![p] = users]
  /\ cand' = [cand EXCEPT ![p] = table]
  /\ req' = [req EXCEPT ![p] = TRUE]
  /\ UNCHANGED <<disk, services, now, doc, ret, mishaps>>

\* The lock is taken before the table is loaded and kept to the end.
Begin(p, c, next, table) ==
  /\ lock = Nobody
  /\ lock' = p
  /\ Goto(p, "idle", next)
  /\ cmd' = [cmd EXCEPT ![p] = c]
  /\ prev' = [prev EXCEPT ![p] = users]
  /\ cand' = [cand EXCEPT ![p] = table]
  /\ \E offline \in BOOLEAN :
       /\ offline => OfflineUsed
       /\ req' = [req EXCEPT ![p] = ~offline]
  /\ UNCHANGED <<disk, services, now, doc, ret, mishaps>>

\* A new secret is drawn.
Draw == fresh < MaxFresh /\ fresh' = fresh + 1

cmd_user_create(p) ==
  \E e \in 0 .. MaxNow \cup {Never} :
    /\ Draw
    /\ Begin(p, "create", "render",
             Store!WithUser(users, [id |-> fresh, enabled |-> TRUE,
               cred |-> fresh, token |-> fresh, expires |-> e]))

cmd_user_set_enabled(p) ==
  \E r \in users, b \in BOOLEAN :
    /\ Begin(p, "set-enabled", "render", Store!WithEnabled(users, r.id, b))
    /\ UNCHANGED fresh

rotate_and_apply(p) ==
  \E r \in users :
    /\ Draw
    /\ Begin(p, "rotate", "render", Store!WithCred(users, r.id, fresh))

\* Only users.json changes: the document does not hold tokens.
cmd_user_rotate_token(p) ==
  \E r \in users :
    /\ Draw
    /\ Begin(p, "rotate-token", "save", Store!WithToken(users, r.id, fresh))

\* Mutant: publish the removal without applying it.
RemoveFromStoreOnly(p) ==
  \E r \in users :
    /\ Begin(p, "remove", "save", Store!Without(users, r.id))
    /\ UNCHANGED fresh

cmd_user_remove(p) ==
  \E r \in users :
    /\ Begin(p, "remove", "render", Store!Without(users, r.id))
    /\ UNCHANGED fresh

Creds(us) == {r.cred : r \in us}

\* save_users_atomic: temporary file, fsync, rename.
Save(p) ==
  /\ Goto(p, "save", "done")
  /\ users' = cand[p]
  /\ revoked' = IF ret[p] = "live" /\ live \in {doc[p], Down}
                THEN revoked \cup (Creds(users) \ Creds(cand[p]))
                ELSE revoked
  /\ UNCHANGED <<config, bak, stamp, keys, services, now, lock, locals, fresh,
                 mishaps>>

\* The loaded document is taken back by rendering the previous table.
SaveFails(p) ==
  /\ Mishap
  /\ \/ /\ cmd[p] = "rotate-token"
        /\ Goto(p, "save", "done")
        /\ ret' = [ret EXCEPT ![p] = "err"]
        /\ UNCHANGED <<cmd, cand>>
     \/ /\ cmd[p] # "rotate-token"
        /\ Goto(p, "save", "render")
        /\ cmd' = [cmd EXCEPT ![p] = "undo"]
        /\ cand' = [cand EXCEPT ![p] = prev[p]]
        /\ UNCHANGED ret
  /\ UNCHANGED <<disk, services, now, lock, prev, doc, req, fresh>>

UserCommand(p) ==
  \/ cmd_user_create(p)
  \/ cmd_user_set_enabled(p)
  \/ rotate_and_apply(p)
  \/ cmd_user_rotate_token(p)
  \/ cmd_user_remove(p)

\* What a process that has the lock does next.
Step(p) ==
  \/ RenderAndApply(p) /\ UNCHANGED revoked
  \/ Save(p)
  \/ SaveFails(p) /\ UNCHANGED revoked
  \/ Exit(p) /\ UNCHANGED revoked

Reconcile == RenderConfig(Timer) /\ UNCHANGED revoked

UserNext ==
  \/ \E p \in Operator : UserCommand(p) /\ UNCHANGED revoked
  \/ Reconcile
  \/ \E p \in Proc : Step(p)
  \/ \E p \in Proc : Kill(p) /\ UNCHANGED revoked
  \/ Reboot /\ UNCHANGED revoked
  \/ Weather /\ UNCHANGED revoked

UserInit == Init /\ revoked = {}

UserSpec == UserInit /\ [][UserNext]_uvars

----------------------------------------------------------------------------
Label == {"idle", "render", "backup", "swap", "reload", "selftest", "stamp",
          "restore", "restoring", "reload2", "save", "done"}
Command == {"none", "render-config", "create", "set-enabled", "rotate",
            "rotate-token", "remove", "undo"}

\* Types of the whole state; config.json holds a document or is torn.
UserTypeOK ==
  /\ users \subseteq CompatUser
  /\ config \in Doc \cup {Torn}
  /\ bak \in Doc \cup {Torn, NoFile}
  /\ stamp \in [sha256: Doc]
  /\ keys \in KeyState
  /\ live \in Doc \cup {Down}
  /\ adv \in [pub: Secret, sid: Secret, obfs: Secret \cup {NoFile}]
  /\ now \in 0 .. MaxNow
  /\ lock \in Proc \cup {Nobody}
  /\ pc \in [Proc -> Label]
  /\ cmd \in [Proc -> Command]
  /\ prev \in [Proc -> SUBSET CompatUser]
  /\ cand \in [Proc -> SUBSET CompatUser]
  /\ doc \in [Proc -> Doc \cup {NoFile}]
  /\ req \in [Proc -> BOOLEAN]
  /\ ret \in [Proc -> {"none", "live", "notlive", "err"}]
  /\ fresh \in Nat
  /\ mishaps \in Nat
  /\ revoked \subseteq Secret

\* users.json changes by one whole command at a time, applied to the table
\* published before it: the lock covers load to save, so no command
\* overwrites another's change, whatever is killed or fails in between.
PublishesOneCommandAtATime == Store!Spec

\* A command that ends with "went live" (user mutations print their blast
\* radius on it, render-config prints "already current" or "verified
\* active") left sing-box running exactly the document it rendered, or not
\* running at all, as long as at most one thing has gone wrong.
WentLiveIsLive ==
  mishaps <= 1 =>
    \A p \in Proc : pc[p] = "done" /\ ret[p] = "live" =>
                       live \in {doc[p], Down}

\* The order apply_users_and_save promises: when users.json is published,
\* a credential it newly distributes is already accepted by the running
\* server, and one it withdraws is already rejected.
PublishesAfterLive ==
  [][\A p \in Proc :
       Save(p) /\ mishaps <= 1 /\ ret[p] # "notlive" /\ live # Down =>
         /\ Authorized(users', now) \ Authorized(users, now) \subseteq live.auth
         /\ (Authorized(users, now) \ Authorized(users', now)) \cap live.auth
              = {}]_uvars

\* One failure or one kill never leaves a torn config.json behind: only a
\* process still copying the backup over it may see it torn.
NeverLeftTorn ==
  mishaps <= 1 /\ config = Torn => \E p \in Proc : pc[p] = "restoring"

\* A credential whose removal or rotation went live is never accepted
\* again: no rollback, backup, restart or reboot brings it back, however
\* many things fail.
RevokedStaysRevoked ==
  live # Down => \A a \in live.auth : a[2] \notin revoked
=============================================================================
