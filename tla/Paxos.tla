------------------------------- MODULE Paxos --------------------------------
(***************************************************************************)
(* Proposers and accepters of the store daemon (stored/paxos_proposer.cpp, *)
(* stored/paxos_accepter.cpp) over the UDP client of stored/network.cpp.   *)
(*                                                                         *)
(* A proposer takes one request at a time and repeats prepare() and        *)
(* propose() until a quorum accepted it or it bows out.  Nothing is        *)
(* adopted from earlier rounds: a proposal number orders a request, it     *)
(* does not decide a value.                                                *)
(*                                                                         *)
(* Datagrams may be lost, duplicated and reordered: those sent to the      *)
(* accepters stay in "sent" for ever and may be taken any number of times  *)
(* or never.  A reply goes to the ephemeral port of the call that asked,   *)
(* so it is only kept while that call is open.                             *)
(***************************************************************************)
EXTENDS AccepterLog, Sequences

CONSTANTS
    Proposer,      \* the hosts that run a proposer
    NoRequest,     \* the value of "handling" between two requests
    Failover,      \* the requests of type FAILOVER
    NumMod,        \* 2^64 in the code: proposal numbers wrap there
    BowOut,        \* 42 in the code: the limit of the attempts counter
    InitNumber,    \* what the proposers' uninitialised proposal_number_ may be
    InitAccepted,  \* what the uninitialised accepted_proposal_num_ may hold
    InitPending,   \* which requests may be sent to which proposers
    InitView,      \* the proposers lists the nodes' databases may hold
    Timeouts,      \* whether calls may time out with too few replies
    Duplicates     \* the proposers whose datagrams may be duplicated

ASSUME PaxosAssumption ==
    /\ NumMod \in Nat \ {0}
    /\ Num = 0 .. NumMod - 1
    /\ BowOut \in Nat \ {0}
    /\ InitNumber \subseteq [Proposer -> Num]
    /\ InitAccepted \subseteq Num
    /\ InitPending \subseteq [Proposer -> SUBSET Request]
    /\ Failover \subseteq Request
    /\ NoRequest \notin Request
    /\ Timeouts \in BOOLEAN
    /\ Duplicates \subseteq Proposer

VARIABLES
    \* Proposer
    view,       \* view[p]: the proposers cluster in p's own database
    pending,    \* pending[p]: requests sent to p that it has not taken yet
    pc,         \* pc[p]: "idle", or the call it is waiting in
    handling,   \* handling[p]: the request being proposed
    bow_out,    \* bow_out[p]: the attempts counter
    number,     \* number[p]: proposal_number_
    replies,    \* replies[p]: datagrams that reached the open call's sockets
    \* Accepter
    promised,   \* promised[a]: promised_proposal_num_
    accepted,   \* accepted[a]: accepted_proposal_num_
    \* Network
    sent,       \* PREPARE and PROPOSE datagrams sent so far
    \* History
    promises,   \* the promises the accepters made
    won,        \* the numbers for which prepare() returned true, and to whom
    done        \* the requests for which propose() returned true

pvars == <<view, pending, pc, handling, bow_out, number, replies>>
avars == <<promised, accepted, promises, log>>
vars  == <<pvars, avars, sent, won, done>>

Prepares == [type : {"PREPARE"}, from : Proposer, num : Num]
Proposes == [type : {"PROPOSE"}, from : Proposer, num : Num, req : Request]
Reply    == [acc : Accepter, type : {"PROMISE", "ACCEPTED", "NACK"}, num : Num]

TypeOK ==
    /\ LogTypeOK
    /\ pending  \in [Proposer -> SUBSET Request]
    /\ pc       \in [Proposer -> {"idle", "prepare", "propose"}]
    /\ handling \in [Proposer -> Request \cup {NoRequest}]
    /\ bow_out  \in [Proposer -> 1 .. BowOut + 1]
    /\ number   \in [Proposer -> Num]
    /\ replies  \in [Proposer -> SUBSET Reply]
    /\ promised \in [Accepter -> Num]
    /\ accepted \in [Accepter -> Num]
    /\ sent     \subseteq Prepares \cup Proposes
    /\ promises \subseteq [acc : Accepter, num : Num, from : Proposer]
    /\ won      \subseteq [num : Num, from : Proposer]
    /\ done     \subseteq [num : Num, req : Request]

Init ==
    /\ LogInit
    /\ view \in InitView
    /\ pending \in InitPending
    /\ pc = [p \in Proposer |-> "idle"]
    /\ handling = [p \in Proposer |-> NoRequest]
    /\ bow_out = [p \in Proposer |-> 1]
    /\ number \in InitNumber
    /\ replies = [p \in Proposer |-> {}]
    /\ promised = [a \in Accepter |-> 0]
    /\ accepted \in [Accepter -> InitAccepted]
    /\ sent = {}
    /\ promises = {}
    /\ won = {}
    /\ done = {}

-----------------------------------------------------------------------------
(* Proposer *)

\* cfg_->node_id() == distinguished_proposer(secondary), in p's own database.
IsDistinguished(p, secondary) ==
    /\ view[p] # <<>>
    /\ p = view[p][IF secondary /\ Len(view[p]) > 1 THEN 2 ELSE 1]

\* Sending prepare()'s datagrams: the part of the call up to the wait.
StartPrepare(p, n) ==
    /\ pc' = [pc EXCEPT ![p] = "prepare"]
    /\ sent' = sent \cup {[type |-> "PREPARE", from |-> p, num |-> n]}

StartPropose(p, n) ==
    /\ pc' = [pc EXCEPT ![p] = "propose"]
    /\ sent' = sent \cup {[type |-> "PROPOSE", from |-> p, num |-> n,
                           req |-> handling[p]]}

\* Proposer::event_task takes the next request from its queue; it is dropped
\* when the node's own database names another distinguished proposer.
Take(p, r) ==
    /\ pc[p] = "idle"
    /\ r \in pending[p]
    /\ pending' = [pending EXCEPT ![p] = @ \ {r}]
    /\ IF IsDistinguished(p, r \in Failover)
       THEN /\ handling' = [handling EXCEPT ![p] = r]
            /\ bow_out' = [bow_out EXCEPT ![p] = 1]
            /\ StartPrepare(p, number[p])
       ELSE UNCHANGED <<handling, bow_out, pc, sent>>
    /\ UNCHANGED <<view, number, replies, avars, won, done>>

\* R is what timed_receive() returns: at most one reply of each accepter, a
\* quorum of them, or fewer when the deadline expired first.
Collected(p, R) ==
    /\ R \subseteq replies[p]
    /\ \A x, y \in R : x.acc = y.acc => x = y
    /\ \/ Cardinality(R) = Quorum(Cardinality(Accepter))
       \/ Timeouts /\ Cardinality(R) < Quorum(Cardinality(Accepter))

\* A variant that does not look at the type of the replies.
AnyReplies(R, kind) == IsQuorum(R, Accepter)

\* A reply set with which prepare() or propose() succeeds.
Unanimous(R, kind) == IsQuorum({x \in R : x.type = kind}, Accepter)

\* highest_seen_proposal: the own number or one that a NACK of R carried.
SeenProposals(p, R) ==
    {number[p]} \cup {x.num : x \in {y \in R : y.type = "NACK"}}

\* A variant that keeps the highest number it has seen.
KeepNumber(p, R) ==
    \E h \in SeenProposals(p, R) :
        /\ \A n \in SeenProposals(p, R) : n <= h
        /\ number' = [number EXCEPT ![p] = h]

\* proposal_number_ = highest_seen_proposal + 1, a uint64_t.
RaiseNumber(p, R) ==
    \E h \in SeenProposals(p, R) :
        /\ \A n \in SeenProposals(p, R) : n <= h
        /\ number' = [number EXCEPT ![p] = (h + 1) % NumMod]

\* The call returns: its sockets close, and replies still on their way to
\* them are lost.
CloseCall(p) == replies' = [replies EXCEPT ![p] = {}]

\* prepare() returns true.
PreparePromised(p) ==
    /\ pc[p] = "prepare"
    /\ \E R \in SUBSET replies[p] :
        Collected(p, R) /\ Unanimous(R, "PROMISE")
    /\ won' = won \cup {[num |-> number[p], from |-> p]}
    /\ StartPropose(p, number[p])
    /\ CloseCall(p)
    /\ UNCHANGED <<view, pending, handling, bow_out, number, avars, done>>

\* prepare() returns false.  The inner loop backs off and tries again while
\* bow_out++ < 42; after that the request is proposed all the same.
PrepareRefused(p) ==
    /\ pc[p] = "prepare"
    /\ \E R \in SUBSET replies[p] :
        /\ Collected(p, R)
        /\ ~ Unanimous(R, "PROMISE")
        /\ RaiseNumber(p, R)
    /\ bow_out' = [bow_out EXCEPT ![p] = @ + 1]
    /\ IF bow_out[p] < BowOut
       THEN StartPrepare(p, number'[p])
       ELSE StartPropose(p, number'[p])
    /\ CloseCall(p)
    /\ UNCHANGED <<view, pending, handling, avars, won, done>>

\* propose() returns true: the request is finished.
ProposeAccepted(p) ==
    /\ pc[p] = "propose"
    /\ \E R \in SUBSET replies[p] :
        /\ Collected(p, R)
        /\ Unanimous(R, "ACCEPTED")
        /\ RaiseNumber(p, R)
    /\ done' = done \cup {[num |-> number[p], req |-> handling[p]]}
    /\ pc' = [pc EXCEPT ![p] = "idle"]
    /\ handling' = [handling EXCEPT ![p] = NoRequest]
    /\ CloseCall(p)
    /\ UNCHANGED <<view, pending, bow_out, avars, sent, won>>

\* propose() returns false: another round while bow_out < 42, else the
\* request is given up.
ProposeRefused(p) ==
    /\ pc[p] = "propose"
    /\ \E R \in SUBSET replies[p] :
        /\ Collected(p, R)
        /\ ~ Unanimous(R, "ACCEPTED")
        /\ RaiseNumber(p, R)
    /\ IF bow_out[p] < BowOut
       THEN /\ StartPrepare(p, number'[p])
            /\ UNCHANGED handling
       ELSE /\ pc' = [pc EXCEPT ![p] = "idle"]
            /\ handling' = [handling EXCEPT ![p] = NoRequest]
            /\ UNCHANGED sent
    /\ CloseCall(p)
    /\ UNCHANGED <<view, pending, bow_out, avars, won, done>>

-----------------------------------------------------------------------------
(* Accepter *)

\* The call that sent datagram m is still waiting on its sockets.
Open(m) ==
    /\ number[m.from] = m.num
    /\ \/ m.type = "PREPARE" /\ pc[m.from] = "prepare"
       \/ m.type = "PROPOSE" /\ pc[m.from] = "propose" /\ handling[m.from] = m.req

\* With no duplication an accepter answers a call once.
Answered(a, m) == Open(m) /\ \E x \in replies[m.from] : x.acc = a

\* send_ack() of an Ack with proposal number n to the sender of m.
SendAck(a, m, type, n) ==
    replies' = IF Open(m)
               THEN [replies EXCEPT ![m.from] =
                       @ \cup {[acc |-> a, type |-> type, num |-> n]}]
               ELSE replies

\* A variant that promises a number again.
PromiseAgain(a, m) ==
    /\ m.type = "PREPARE"
    /\ m.num >= promised[a]
    /\ promised' = [promised EXCEPT ![a] = m.num]
    /\ promises' = promises \cup {[acc |-> a, num |-> m.num, from |-> m.from]}
    /\ SendAck(a, m, "PROMISE", m.num)
    /\ UNCHANGED <<accepted, log>>

\* Accepter::promise, a new highest number.
Promise(a, m) ==
    /\ m.type = "PREPARE"
    /\ m.num > promised[a]
    /\ promised' = [promised EXCEPT ![a] = m.num]
    /\ promises' = promises \cup {[acc |-> a, num |-> m.num, from |-> m.from]}
    /\ SendAck(a, m, "PROMISE", m.num)
    /\ UNCHANGED <<accepted, log>>

\* A variant that accepts under a number it has used.
AcceptAgain(a, m) ==
    /\ m.type = "PROPOSE"
    /\ m.num = promised[a]
    /\ m.num >= accepted[a]
    /\ accepted' = [accepted EXCEPT ![a] = m.num]
    /\ log' = log \cup {[acc |-> a, num |-> m.num, req |-> m.req]}
    /\ SendAck(a, m, "ACCEPTED", m.num)
    /\ UNCHANGED <<promised, promises>>

\* Accepter::accept, the promised number and not yet used.  The LEARN sent to
\* the learners is the new entry of the log.  Who prepared the number is not
\* looked at.
Accept(a, m) ==
    /\ m.type = "PROPOSE"
    /\ m.num = promised[a]
    /\ m.num > accepted[a]
    /\ accepted' = [accepted EXCEPT ![a] = m.num]
    /\ log' = log \cup {[acc |-> a, num |-> m.num, req |-> m.req]}
    /\ SendAck(a, m, "ACCEPTED", m.num)
    /\ UNCHANGED <<promised, promises>>

\* Accepter::nack: the other branch of promise() and of accept().  Nothing
\* comes of it unless the call still waits.
Nack(a, m) ==
    /\ Open(m)
    /\ \/ m.type = "PREPARE" /\ m.num <= promised[a]
       \/ m.type = "PROPOSE" /\ (m.num # promised[a] \/ m.num <= accepted[a])
    /\ SendAck(a, m, "NACK", promised[a])
    /\ UNCHANGED avars

AccepterStep(a) ==
    /\ \E m \in sent :
        /\ m.from \in Duplicates \/ ~ Answered(a, m)
        /\ Promise(a, m) \/ Accept(a, m) \/ Nack(a, m)
    /\ UNCHANGED <<view, pending, pc, handling, bow_out, number,
                   sent, won, done>>

-----------------------------------------------------------------------------
ProposerStep(p) ==
    \/ \E r \in Request : Take(p, r)
    \/ PreparePromised(p)
    \/ PrepareRefused(p)
    \/ ProposeAccepted(p)
    \/ ProposeRefused(p)

Next ==
    \/ \E p \in Proposer : ProposerStep(p)
    \/ \E a \in Accepter : AccepterStep(a)

Spec == Init /\ [][Next]_vars

\* Threads that can take a step eventually do, and the network delivers.
FairSpec ==
    /\ Spec
    /\ \A p \in Proposer : WF_vars(ProposerStep(p))
    /\ \A a \in Accepter : WF_vars(AccepterStep(a))

-----------------------------------------------------------------------------
(***************************************************************************)
(* Numbers carry no proposer id, so two proposers may prepare the same     *)
(* one; prepare() returns true to at most one of them.                     *)
(***************************************************************************)
OneWinnerPerNumber ==
    \A w, x \in won : w.num = x.num => w.from = x.from

(***************************************************************************)
(* propose() returns true only for a request that a quorum of accepters    *)
(* accepted under the proposed number, whatever calls were retried, timed  *)
(* out or answered late before.                                            *)
(***************************************************************************)
DoneIsChosen == \A d \in done : ChosenAt(d.num, d.req)

(***************************************************************************)
(* Seen from the learners the protocol is the abstract accepters' log:     *)
(* each accepter's LEARNs carry strictly increasing numbers.               *)
(***************************************************************************)
ImplementsLog == LogSpec

-----------------------------------------------------------------------------
(* The inductive invariant behind the three properties above. *)

\* A call has a request, and prepare() is only called while attempts remain.
CallInv ==
    \A p \in Proposer :
        /\ pc[p] # "idle" => handling[p] \in Request
        /\ pc[p] = "prepare" => bow_out[p] <= BowOut

\* An accepter's promises lie at or below promised_proposal_num_, and it
\* promised a number to one proposer only.
PromiseInv ==
    /\ \A x \in promises : x.num <= promised[x.acc]
    /\ \A x, y \in promises : x.acc = y.acc /\ x.num = y.num => x.from = y.from

\* What an accepter accepted lies at or below accepted_proposal_num_.
AcceptInv == \A e \in log : e.num <= accepted[e.acc]

\* Replies in the sockets of an open call tell what their senders did.
ReplyInv ==
    \A p \in Proposer : \A x \in replies[p] :
        /\ x.type = "PROMISE" =>
             /\ pc[p] = "prepare"
             /\ [acc |-> x.acc, num |-> number[p], from |-> p] \in promises
        /\ x.type = "ACCEPTED" =>
             /\ pc[p] = "propose"
             /\ [acc |-> x.acc, num |-> number[p], req |-> handling[p]] \in log

PromisersOf(n, p) ==
    {a \in Accepter : [acc |-> a, num |-> n, from |-> p] \in promises}

WonInv == \A w \in won : IsQuorum(PromisersOf(w.num, w.from), Accepter)

Inv ==
    /\ TypeOK
    /\ CallInv
    /\ PromiseInv
    /\ AcceptInv
    /\ ReplyInv
    /\ WonInv
    /\ DoneIsChosen

-----------------------------------------------------------------------------
(***************************************************************************)
(* A proposer that competes with no one on a network that loses nothing    *)
(* gets every request accepted, whatever the uninitialised counters held.  *)
(***************************************************************************)
EveryRequestDone ==
    \A r \in Request : <>(\E d \in done : d.req = r)
=============================================================================
