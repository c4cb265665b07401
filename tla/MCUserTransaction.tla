-------------------------- MODULE MCUserTransaction --------------------------
EXTENDS UserTransaction, TLC

\* One enabled user that expires.
MCUserExpiring ==
  {[id |-> 0, enabled |-> TRUE, cred |-> 0, token |-> 0, expires |-> 1]}

\* Operators are interchangeable.
MCSymmetry == Permutations(Operator)
=============================================================================
