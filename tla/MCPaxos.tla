------------------------------ MODULE MCPaxos -------------------------------
EXTENDS Paxos, TLC
CONSTANTS p1, p2, r1, r2

MCNum == 0 .. NumMod - 1

\* p1 takes r1 as the first of the list, p2 takes the FAILOVER request r2 as
\* the second.  MQServer sends every request to all proposers: p2 also gets
\* the one that is not for it.
MCView == {(p1 :> <<p1, p2>>) @@ (p2 :> <<p1, p2>>)}
MCPending == {(p1 :> {r1}) @@ (p2 :> {r1, r2})}

\* Both prepare the same number, or a refused p1 raises its number to the one
\* that p2 prepared.
MCNumber == {(p1 :> 1) @@ (p2 :> 1), (p1 :> 1) @@ (p2 :> 2)}

\* One proposer alone in its list takes both requests.
MCSoloView == {p1 :> <<p1>>}
MCSoloPending == {p1 :> {r1, r2}}
MCSoloNumber == [Proposer -> {0, 1, 3}]

Symmetry == Permutations(Accepter)
=============================================================================
