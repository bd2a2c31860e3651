----------------------------- MODULE QuorumSize -----------------------------
(***************************************************************************)
(* The quorum that proposers and learners compute from the number of       *)
(* accepters: std::ceil(accepters_.size() * 0.60).                         *)
(***************************************************************************)
EXTENDS Integers, FiniteSets

\* ceil(n * 0.60) in integers; agrees with the double computation for every
\* value the uint16_t that holds it can take.
Quorum(n) == (3 * n + 4) \div 5

\* Whether the subset S of Node reaches the quorum of Node.
IsQuorum(S, Node) == Cardinality(S) >= Quorum(Cardinality(Node))
=============================================================================
