--------------------------- MODULE MCWorkerThreads --------------------------
EXTENDS WorkerThreads

\* The learner is the only worker whose q_wait() has a timeout.
MCLearnerOnly == <<"learner">>
MCTimed == {"learner"}
=============================================================================
