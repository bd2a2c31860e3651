----------------------------- MODULE MCLearner ------------------------------
EXTENDS Learner
CONSTANTS h1, h2
MCHome == [r \in Request |-> h1]
Symmetry == Permutations(Accepter) \cup Permutations(Request)
=============================================================================
