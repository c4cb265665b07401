------------------------------ MODULE VpnAdmin ------------------------------
(***************************************************************************)
(* All of vpn-admin's transactions on one host: user commands, key         *)
(* rotations and the reconciliation timer, serialized by the state lock,   *)
(* over the same files and services.                                       *)
(***************************************************************************)
EXTENDS UserTransaction, KeyRotation

rotation == <<keybak, rotlocals, committed>>
avars == <<vars, revoked, rotation>>

\* What a process that has the lock does next, whatever it runs.
AdminStep(p) ==
  \/ RenderAndApply(p) /\ UNCHANGED <<revoked, rotation>>
  \/ Save(p) /\ UNCHANGED rotation
  \/ SaveFails(p) /\ UNCHANGED <<revoked, rotation>>
  \/ Rotate(p) /\ UNCHANGED revoked
  \/ Exit(p) /\ Forget({p}) /\ UNCHANGED revoked

AdminReconcile == RenderConfig(Timer) /\ UNCHANGED <<revoked, rotation>>

AdminNext ==
  \/ \E p \in Operator : UserCommand(p) /\ UNCHANGED <<revoked, rotation>>
  \/ \E p \in Operator, c \in Rotation : BeginRotate(p, c) /\ UNCHANGED revoked
  \/ AdminReconcile
  \/ \E p \in Proc : AdminStep(p)
  \/ \E p \in Proc : Kill(p) /\ Forget({p}) /\ UNCHANGED revoked
  \/ Reboot /\ Forget(Proc) /\ UNCHANGED revoked
  \/ Weather /\ UNCHANGED <<revoked, rotation>>

AdminInit == RotInit /\ revoked = {}

AdminSpec == AdminInit /\ [][AdminNext]_avars

\* A running command goes on to its end: every call it makes returns (each
\* systemctl call and each wait in reload_and_verify is bounded).  While no
\* command runs the timer fires (OnUnitActiveSec=1min).  No operator has to
\* act.
AdminFairness == WF_avars(AdminReconcile \/ \E p \in Proc : AdminStep(p))

FairAdminSpec == AdminSpec /\ AdminFairness

----------------------------------------------------------------------------
\* Between commands, with nothing gone wrong, every profile that
\* vpn-subscription serves (a credential from users.json with the key
\* material cached at its last start) is one the running sing-box accepts,
\* in whatever order user commands, rotations and reconciliations ran.
ServedProfilesWork ==
  mishaps = 0 /\ lock = Nobody =>
    /\ Agree(live, adv)
    /\ Authorized(users, now) \subseteq live.auth

\* Once operators stop issuing commands, the running server ends up with,
\* and keeps, the document that users.json, the key files and the clock
\* call for, even after a kill or a failure in the middle of a user command
\* or a rotation, unless the kill left private.key and public.key apart.
AdminReconciled ==
  <>[](\A p \in Operator : pc[p] = "idle") =>
    <>[](Coherent(keys) => live = render_singbox_server_config(users, keys, now))
=============================================================================
