----------------------------- MODULE AccepterLog ----------------------------
(***************************************************************************)
(* What the accepters promise to the learners: each accepter accepts       *)
(* requests under strictly increasing proposal numbers, so it sends at     *)
(* most one LEARN for a number.  This is the abstract specification that   *)
(* the proposer/accepter protocol (module Paxos) implements, and the       *)
(* environment in which the learners (module Learner) are studied.         *)
(***************************************************************************)
EXTENDS QuorumSize

CONSTANTS
    Accepter,   \* the hosts that run an accepter
    Request,    \* the write requests of the clients
    Num         \* the proposal numbers

ASSUME AccepterAssumption == IsFiniteSet(Accepter) /\ Accepter # {}
ASSUME NumAssumption  == Num \subseteq Nat

VARIABLE log    \* the acceptances so far, each of them a LEARN sent

Acceptance == [acc : Accepter, num : Num, req : Request]

LogInit == log = {}

\* Accepter::accept succeeding on accepter a.
LogAccept(a, n, r) ==
    /\ \A e \in log : e.acc = a => e.num < n
    /\ log' = log \cup {[acc |-> a, num |-> n, req |-> r]}

LogNext == \E a \in Accepter, n \in Num, r \in Request : LogAccept(a, n, r)

LogSpec == LogInit /\ [][LogNext]_log

-----------------------------------------------------------------------------
\* The accepters that accepted r under number n.
AcceptersOf(n, r) == {a \in Accepter : [acc |-> a, num |-> n, req |-> r] \in log}

\* A request is chosen under a number once a quorum accepted it there.
ChosenAt(n, r) == IsQuorum(AcceptersOf(n, r), Accepter)

LogTypeOK == log \subseteq Acceptance

(***************************************************************************)
(* No accepter accepts two requests under one number: the second of two    *)
(* PROPOSEs for a number is refused by Accepter::accept.                   *)
(***************************************************************************)
AcceptedOncePerNumber ==
    \A e, f \in log : e.acc = f.acc /\ e.num = f.num => e.req = f.req

(***************************************************************************)
(* The sequencer's core guarantee: a proposal number stands for at most    *)
(* one request, however many proposers compete for it.                     *)
(***************************************************************************)
ChosenUnique ==
    \A n \in Num : \A r, s \in Request :
        ChosenAt(n, r) /\ ChosenAt(n, s) => r = s
=============================================================================
