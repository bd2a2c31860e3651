----------------------------- MODULE MCWriteAPI -----------------------------
EXTENDS ReadAPI
CONSTANTS x, y, h

\* x is used for an environment and for a host, a cluster of x has the name of a
\* host, as one of y has, and one the name of x.
MCPlain == {x, y, h}
MCEnv == {x, y}
MCHost == {x, h}
MCCluster == {<<x, x>>, <<x, h>>, <<y, h>>}
=============================================================================
