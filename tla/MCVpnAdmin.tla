----------------------------- MODULE MCVpnAdmin -----------------------------
EXTENDS Doctor

\* The host as `vpn-admin init' leaves it: every user is created by a command.
MCNoUser == {}

\* At most one condition, alone or where it matters more: when the relay does
\* not answer, doctor judges by the journal; an AAAA record is probed.
MCSurroundings ==
  {{}} \cup {{c} \cup d : c \in Tolerated \cup Wrong \cup Misjudged,
             d \in {{}, {"slow relay"}, {"AAAA record"}}}
=============================================================================
