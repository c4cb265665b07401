--------------------------- MODULE MCBackupRestore ---------------------------
EXTENDS BackupRestore

\* The archives hold another user and older keys (8), once without and once
\* with the obfuscation password, and a keyset torn by a killed rotation.
MCUser ==
  {[id |-> 0, enabled |-> TRUE, cred |-> 0, token |-> 0, expires |-> Never]}

MCOldUser ==
  {[id |-> 9, enabled |-> TRUE, cred |-> 9, token |-> 9, expires |-> 1]}

MCKeys(obfs) == [f \in KeyFile |-> IF f = ObfsFile THEN obfs ELSE 8]

MCArchives ==
  {[users |-> MCOldUser, keys |-> MCKeys(NoFile)],
   [users |-> MCOldUser, keys |-> MCKeys(8)],
   [users |-> MCOldUser, keys |-> [MCKeys(8) EXCEPT !["public.key"] = 7]]}
=============================================================================
