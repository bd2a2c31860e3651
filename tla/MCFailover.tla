----------------------------- MODULE MCFailover -----------------------------
\* Three hosts.
EXTENDS Failover

CONSTANTS a, b, c

PeersMC == <<a, b, c>>
=============================================================================
