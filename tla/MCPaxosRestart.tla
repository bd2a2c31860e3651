--------------------------- MODULE MCPaxosRestart ---------------------------
EXTENDS PaxosRestart, TLC
CONSTANTS p1, p2, r1, r2

MCNum == 0 .. NumMod - 1
MCView == {(p1 :> <<p1, p2>>) @@ (p2 :> <<p1, p2>>)}
MCPending == {(p1 :> {r1}) @@ (p2 :> {r2})}
MCNumber == {[p \in Proposer |-> 1]}
Symmetry == Permutations(Accepter)

(***************************************************************************)
(* "Range++ implements PAXOS atomic broadcast for guaranteed ordering, and *)
(* fault tolerance" (README.md): a proposal number stands for one request  *)
(* also when a daemon is restarted.                                        *)
(***************************************************************************)
ChosenUniqueDespiteRestart == ChosenUnique
=============================================================================
