------------------------------ MODULE MCUpdater ------------------------------
(* A host on release r1, an older release r0 and newer ones r2 and r3.      *)
EXTENDS Updater, TLC

CONSTANTS r0, r1, r2, r3

\* r2 renders another config.json; r3 does and pins a newer sing-box, too.
MCSingBox == r0 :> 1 @@ r1 :> 1 @@ r2 :> 1 @@ r3 :> 2
MCFormat == r0 :> 1 @@ r1 :> 1 @@ r2 :> 2 @@ r3 :> 3
\* r1 writes a newer schema than r0; r2 and r3 write that of r1.  The state is
\* never of another schema then, and a user command does what render-config does.
MCSchema == r0 :> 0 @@ r1 :> 1 @@ r2 :> 1 @@ r3 :> 1
\* r2 writes a newer schema than r1.
MCSchemaNewer == r0 :> 0 @@ r1 :> 1 @@ r2 :> 2 @@ r3 :> 2
=============================================================================
