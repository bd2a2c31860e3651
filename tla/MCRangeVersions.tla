-------------------------- MODULE MCRangeVersions --------------------------
EXTENDS RangeVersions, TLC
CONSTANTS r1, r2

MCReaders == {r1, r2}

Symmetry == Permutations(MCReaders)

-----------------------------------------------------------------------------
T == INSTANCE TxLog

Histories == UNION {[1 .. n -> 0 .. 3] : n \in 0 .. 6}

\* A call has the version in the log that is its place among all calls
\* (berkeley_dbcxx_txlog.cpp), once, in the first state.
VersionsArePlacesMC == Init => T!VersionsArePlaces(Histories)
=============================================================================
