---------------------------- MODULE PaxosRestart ----------------------------
(***************************************************************************)
(* Module Paxos with daemons that stop and start again.  Neither the       *)
(* accepter nor the proposer keeps anything on disk: the constructors of   *)
(* stored/paxos_accepter.cpp and stored/paxos_proposer.cpp run again.      *)
(***************************************************************************)
EXTENDS Paxos

CONSTANT MaxRestarts    \* bound on the number of restarts
VARIABLE restarts

RestartInit == Init /\ restarts = 0

\* A new Accepter object: promised_proposal_num_(0), and
\* accepted_proposal_num_ is not initialised.
RestartAccepter(a) ==
    /\ promised' = [promised EXCEPT ![a] = 0]
    /\ \E n \in InitAccepted : accepted' = [accepted EXCEPT ![a] = n]
    /\ UNCHANGED <<pvars, promises, log, sent, won, done>>

\* A new Proposer object: the request in hand and what was queued are gone
\* (not what is still on its way), and proposal_number_ is not initialised.
RestartProposer(p) ==
    /\ \E left \in SUBSET pending[p] :
        pending' = [pending EXCEPT ![p] = left]
    /\ pc' = [pc EXCEPT ![p] = "idle"]
    /\ handling' = [handling EXCEPT ![p] = NoRequest]
    /\ bow_out' = [bow_out EXCEPT ![p] = 1]
    /\ \E f \in InitNumber : number' = [number EXCEPT ![p] = f[p]]
    /\ CloseCall(p)
    /\ UNCHANGED <<view, avars, sent, won, done>>

Restart ==
    /\ restarts < MaxRestarts
    /\ restarts' = restarts + 1
    /\ \/ \E a \in Accepter : RestartAccepter(a)
       \/ \E p \in Proposer : RestartProposer(p)

RestartNext == (Next /\ UNCHANGED restarts) \/ Restart

RestartSpec == RestartInit /\ [][RestartNext]_<<vars, restarts>>

=============================================================================
