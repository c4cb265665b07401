------------------------------ MODULE UserStore ------------------------------
(***************************************************************************)
(* What the user store promises its readers (vpn-subscription, the timer,  *)
(* the next command): users.json changes by one whole command at a time,   *)
(* applied to the table that was published before it.  No command's        *)
(* change is lost, none is published half done, and ids stay unique.       *)
(* UserTransaction is shown to implement this.                             *)
(***************************************************************************)
EXTENDS Integers

VARIABLE users

\* What each command does to the table it loaded.
WithUser(us, r) == us \cup {r}
WithEnabled(us, id, b) ==
  {IF r.id = id THEN [r EXCEPT !.enabled = b] ELSE r : r \in us}
WithCred(us, id, c) ==
  {IF r.id = id THEN [r EXCEPT !.cred = c] ELSE r : r \in us}
WithToken(us, id, t) ==
  {IF r.id = id THEN [r EXCEPT !.token = t] ELSE r : r \in us}
Without(us, id) == {r \in us : r.id # id}

UniqueIds == \A r, s \in users : r.id = s.id => r = s

\* The tables one command may make of `us': with the new secret n (a new
\* user that expires at e, new credentials, a new token), or without one.
Drawn(us, n, e) ==
  {WithUser(us, [id |-> n, enabled |-> TRUE, cred |-> n, token |-> n,
                 expires |-> e])}
  \cup {WithCred(us, r.id, n) : r \in us}
  \cup {WithToken(us, r.id, n) : r \in us}
Undrawn(us) ==
  {WithEnabled(us, r.id, b) : r \in us, b \in BOOLEAN}
  \cup {Without(us, r.id) : r \in us}

\* `new' is `old' with one command applied.
Created(old, new) ==
  \E r \in new : /\ \A s \in old : s.id # r.id
                /\ r.enabled
                /\ new = WithUser(old, r)
EnabledSet(old, new) ==
  \E r \in old, b \in BOOLEAN : new = WithEnabled(old, r.id, b)
CredentialsRotated(old, new) ==
  \E r \in old, s \in new : new = WithCred(old, r.id, s.cred)
TokenRotated(old, new) ==
  \E r \in old, s \in new : new = WithToken(old, r.id, s.token)
Removed(old, new) ==
  \E r \in old : new = Without(old, r.id)

OneCommand(old, new) ==
  \/ Created(old, new)
  \/ EnabledSet(old, new)
  \/ CredentialsRotated(old, new)
  \/ TokenRotated(old, new)
  \/ Removed(old, new)

Init == UniqueIds

Next == OneCommand(users, users')

Spec == Init /\ [][Next]_users
=============================================================================
