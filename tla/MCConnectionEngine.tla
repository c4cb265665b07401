------------------------- MODULE MCConnectionEngine -------------------------
(* One candidate on each transport.                                        *)
EXTENDS ConnectionEngine, TLC

CONSTANTS c1, c2

\* The host goes offline and comes back; the first candidate is blocked for
\* good.  The second cannot tell an outage from a relay that does not answer.
MCNetworks ==
  {[online |-> TRUE, answers |-> {c2}], [online |-> FALSE, answers |-> {c2}]}

MCTransport == (c1 :> "direct-tls") @@ (c2 :> "noise-quic")
=============================================================================
