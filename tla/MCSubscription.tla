--------------------------- MODULE MCSubscription ---------------------------
EXTENDS Subscription, TLC

\* One user that expires and one that does not.
MCTable == {[id |-> 0, enabled |-> TRUE, cred |-> 0, token |-> 0,
             expires |-> 1],
            [id |-> 1, enabled |-> TRUE, cred |-> 1, token |-> 1,
             expires |-> Never]}

MCKeys == [pub |-> 0, sid |-> 0, obfs |-> None]

MCSymmetry == Permutations(Peer)
=============================================================================
