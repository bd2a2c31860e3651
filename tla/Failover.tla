------------------------------ MODULE Failover ------------------------------
(***************************************************************************)
(* Which host proposes.  Every host keeps its own copy of the list of      *)
(* proposers, the hosts of the cluster <cell>.proposers in its database.   *)
(* The first of the list is the distinguished proposer; requests to the    *)
(* others are dropped.  Each host watches the one before it in its list    *)
(* (stored/heartbeat.cpp) and has a silent one moved to the end by two     *)
(* writes that travel like any other write: over the message queue server  *)
(* (mqserv.cpp) to the proposers (paxos_proposer.cpp) and back to all      *)
(* learners.  The first start writes the list (startup.cpp); later starts  *)
(* keep what is there, for no host answers a REPLAY request (paxos.cpp)    *)
(* and ReplayClient::start() is empty.                                     *)
(*                                                                         *)
(* A proposal is one step here (module Paxos has its own), and a host      *)
(* applies what was chosen in the order it was chosen in.                  *)
(***************************************************************************)
EXTENDS QuorumSize, Sequences, SequencesExt, FiniteSets

CONSTANTS
    Peers,       \* the hosts, in the order of their addresses
    Late,        \* the hosts that start for the first time
    Missing,     \* the list of a database without the cluster of proposers
    MaxFaults,   \* bound on crashes, silences and losses
    MaxLag,      \* bound on the writes a running host has yet to apply
    MaxQueue     \* bound on the queue of a proposer

Host == Range(Peers)

ASSUME FailoverAssumption ==
    /\ Peers \in Seq(Host) \ {<<>>}
    /\ IsInjective(Peers)
    /\ Late \subseteq Host
    /\ MaxFaults \in Nat
    /\ MaxLag \in Nat \ {0}
    /\ MaxQueue \in Nat \ {0}

VARIABLES
    running,    \* the hosts whose daemon runs
    accepters,  \* the hosts whose database has the cluster of accepters
    view,       \* view[h]: the list of proposers in the database of h
    learn,      \* learn[h]: the writes chosen that h has yet to apply
    watch,      \* watch[h]: what the heartbeat thread of h does
    servers,    \* servers[h]: the proposers that MQServer read last
    inbox,      \* inbox[h]: the requests in the queue of the proposer of h
    torn,       \* the hosts that crashed while they wrote their first list
    missed,     \* the hosts that never got to apply some write
    faults      \* how many crashes, silences and losses there were

daemon == <<watch, servers, inbox>>
vars == <<running, accepters, view, learn, daemon, torn, missed, faults>>

Write   == [op : {"remove", "add"}, host : Host]
Request == [op : {"remove", "add"}, host : Host, type : {"REQUEST", "FAILOVER"}]
Idle    == [pc |-> "ping"]

TypeOK ==
    /\ running   \subseteq Host
    /\ accepters \subseteq Host
    /\ view      \in [Host -> {Missing} \cup UNION {[1 .. k -> Host] : k \in 0 .. Len(Peers)}]
    /\ \A h \in Host : learn[h] \in Seq(Write) /\ Len(learn[h]) <= MaxLag
    /\ watch     \in [Host -> {Idle} \cup [pc : {"send", "wait"}, req : Request]]
    /\ servers   \in [Host -> SUBSET Host]
    /\ \A h \in Host : inbox[h] \in Seq(Request) /\ Len(inbox[h]) <= MaxQueue
    /\ torn      \subseteq Host
    /\ missed    \subseteq Host
    /\ faults    \in 0 .. MaxFaults

\* A cell in operation, some of whose hosts are new.
Init ==
    /\ running   = Host \ Late
    /\ accepters = Host \ Late
    /\ view      = [h \in Host |-> IF h \in Late THEN Missing ELSE Peers]
    /\ learn     = [h \in Host |-> <<>>]
    /\ watch     = [h \in Host |-> Idle]
    /\ servers   = [h \in Host |-> IF h \in Late THEN {} ELSE Host]
    /\ inbox     = [h \in Host |-> <<>>]
    /\ torn      = {}
    /\ missed    = {}
    /\ faults    = 0

\* get_hosts(): without the cluster the daemon terminates itself instead.
Listed(h) == h \in running /\ view[h] # Missing

Fault == faults < MaxFaults /\ faults' = faults + 1

-----------------------------------------------------------------------------
\* A variant that initialises the cluster of the accepters only.
StartAcceptersOnly(h) ==
    /\ h \notin running
    /\ running' = running \cup {h}
    /\ accepters' = accepters \cup {h}
    /\ servers' = [servers EXCEPT ![h] = IF view[h] = Missing THEN {} ELSE Range(view[h])]
    /\ UNCHANGED <<view, learn, watch, inbox, torn, missed, faults>>

\* A variant that writes the configured peers at every start.
StartAfresh(h) ==
    /\ h \notin running
    /\ running' = running \cup {h}
    /\ accepters' = accepters \cup {h}
    /\ view' = [view EXCEPT ![h] = Peers]
    /\ servers' = [servers EXCEPT ![h] = Host]
    /\ UNCHANGED <<learn, watch, inbox, torn, missed, faults>>

\* initialize_from_range(): a database that has accepters is taken as it is.
\* REPLAY gets no answer, so any other is initialised; no other host sees
\* the steps of that.
Start(h) ==
    /\ h \notin running
    /\ running' = running \cup {h}
    /\ accepters' = accepters \cup {h}
    /\ view' = [view EXCEPT ![h] = IF h \in accepters THEN @ ELSE Peers]
    /\ servers' = [servers EXCEPT ![h] = IF view'[h] = Missing THEN {} ELSE Range(view'[h])]
    /\ UNCHANGED <<learn, watch, inbox, torn, missed, faults>>

\* The daemon crashes in initialize_range_cluster(), whose calls commit one
\* by one: after some accepters, and before or after the cluster of the
\* proposers and some of its hosts.
TornStart(h) ==
    /\ h \notin running
    /\ h \notin accepters
    /\ Fault
    /\ accepters' = accepters \cup {h}
    /\ \E list \in {Missing} \cup {SubSeq(Peers, 1, k) : k \in 0 .. Len(Peers) - 1} :
         view' = [view EXCEPT ![h] = list]
    /\ torn' = torn \cup {h}
    /\ UNCHANGED <<running, learn, missed, daemon>>

\* The daemon of h stops; what it has in memory and the datagrams to it are lost.
Stop(h) ==
    /\ running' = running \ {h}
    /\ learn'   = [learn EXCEPT ![h] = <<>>]
    /\ watch'   = [watch EXCEPT ![h] = Idle]
    /\ servers' = [servers EXCEPT ![h] = {}]
    /\ inbox'   = [inbox EXCEPT ![h] = <<>>]
    /\ missed'  = IF learn[h] = <<>> THEN missed ELSE missed \cup {h}
    /\ UNCHANGED <<accepters, view, torn>>

Crash(h) ==
    /\ h \in running
    /\ Fault
    /\ Stop(h)

\* get_hosts() of any thread when the cluster is missing.
Terminate(h) ==
    /\ h \in running
    /\ view[h] = Missing
    /\ Stop(h)
    /\ UNCHANGED faults

-----------------------------------------------------------------------------
\* The type of the two writes: FAILOVER when the next in line sends them.
Type(list, h) ==
    IF Len(list) > 1 /\ list[2] = h THEN "FAILOVER" ELSE "REQUEST"

\* Heartbeat::event_task(): the one before h in its list did not answer, as
\* it is down or as the answer was lost.
Silent(h) ==
    /\ Listed(h)
    /\ watch[h] = Idle
    /\ \E i \in DOMAIN view[h] \ {1} :
        /\ view[h][i] = h
        /\ watch' = [watch EXCEPT ![h] =
             [pc |-> "send", req |-> [op |-> "remove", host |-> view[h][i - 1],
                                      type |-> Type(view[h], h)]]]
        /\ IF view[h][i - 1] \in running THEN Fault ELSE UNCHANGED faults
    /\ UNCHANGED <<running, accepters, view, learn, servers, inbox, torn, missed>>

\* MQServer::event_task() reads the proposers, then waits for requests.
ReadServers(h) ==
    /\ Listed(h)
    /\ servers' = [servers EXCEPT ![h] = Range(view[h])]
    /\ UNCHANGED <<running, accepters, view, learn, watch, inbox, torn, missed, faults>>

\* Heartbeat::reorder_proposer() sends a write.  MQServer passes it on to the
\* proposers it had read; those that run have it in their queue.
Reorder(h) ==
    /\ Listed(h)
    /\ watch[h].pc = "send"
    /\ \A m \in Host : Len(inbox[m]) < MaxQueue
    /\ inbox' = [m \in Host |-> IF m \in servers[h] \cap running
                                THEN Append(inbox[m], watch[h].req) ELSE inbox[m]]
    /\ watch' = [watch EXCEPT ![h].pc = "wait"]
    /\ UNCHANGED <<running, accepters, view, learn, servers, torn, missed, faults>>

\* Whether some host has yet to deal with the write that h sent.
InProgress(h) ==
    \/ \E m \in Host : watch[h].req \in Range(inbox[m])
    \/ \E m \in Host : [op |-> watch[h].req.op, host |-> watch[h].req.host]
                        \in Range(learn[m])

\* send() returned: with the answer, or without one as all proposers dropped
\* the write, or because the time was up before.  In any case the second
\* write follows the first, and the next heartbeat the second.
Reordered(h) ==
    /\ Listed(h)
    /\ watch[h].pc = "wait"
    /\ IF InProgress(h) THEN Fault ELSE UNCHANGED faults
    /\ watch' = [watch EXCEPT ![h] =
         IF @.req.op = "remove" THEN [pc |-> "send", req |-> [@.req EXCEPT !.op = "add"]]
                                ELSE Idle]
    /\ UNCHANGED <<running, accepters, view, learn, servers, inbox, torn, missed>>

-----------------------------------------------------------------------------
\* A variant that leaves every request to the first of the list.
distinguished_proposerFirst(list, secondary) ==
    IF list = <<>> THEN {} ELSE {Head(list)}

\* Proposer::distinguished_proposer(), a set as there may be none.
distinguished_proposer(list, secondary) ==
    CASE secondary /\ Len(list) > 1 -> {list[2]}
      [] list = <<>>                -> {}
      [] OTHER                      -> {Head(list)}

\* Proposer::event_task() for one request: dropped unless h is the
\* distinguished proposer of its own list and finds a quorum; otherwise it is
\* chosen and on its way to every learner that runs.
Take(h) ==
    LET req == Head(inbox[h]) IN
    /\ Listed(h)
    /\ inbox[h] # <<>>
    /\ inbox' = [inbox EXCEPT ![h] = Tail(@)]
    /\ IF /\ h \in distinguished_proposer(view[h], req.type = "FAILOVER")
          /\ IsQuorum(running, Host)
       THEN /\ \A m \in Host : Len(learn[m]) < MaxLag
            /\ learn' = [m \in Host |-> IF m \in running
                 THEN Append(learn[m], [op |-> req.op, host |-> req.host]) ELSE <<>>]
            /\ missed' = missed \cup (Host \ running)
       ELSE UNCHANGED <<learn, missed>>
    /\ UNCHANGED <<running, accepters, view, watch, servers, torn, faults>>

\* The list after remove_host_from_cluster() or add_host_to_cluster(); the
\* write of what is already so throws.
Applied(list, w) ==
    IF w.op = "remove"             THEN RemoveFirst(list, w.host)
    ELSE IF w.host \in Range(list) THEN list
    ELSE Append(list, w.host)

\* Learner::learn(); in a database without the cluster the write throws.
Learn(h) ==
    /\ learn[h] # <<>>
    /\ view' = [view EXCEPT ![h] = IF @ = Missing THEN @ ELSE Applied(@, Head(learn[h]))]
    /\ learn' = [learn EXCEPT ![h] = Tail(@)]
    /\ UNCHANGED <<running, accepters, daemon, torn, missed, faults>>

\* The datagrams that tell h of a write are lost: nothing asks for them.
Missed(h) ==
    /\ learn[h] # <<>>
    /\ Fault
    /\ learn' = [learn EXCEPT ![h] = Tail(@)]
    /\ missed' = missed \cup {h}
    /\ UNCHANGED <<running, accepters, view, daemon, torn>>

-----------------------------------------------------------------------------
Next == \E h \in Host :
    \/ Start(h) \/ TornStart(h) \/ Crash(h) \/ Terminate(h)
    \/ Silent(h) \/ ReadServers(h) \/ Reorder(h) \/ Reordered(h)
    \/ Take(h) \/ Learn(h) \/ Missed(h)

Spec == Init /\ [][Next]_vars

\* Each is a loop of a thread that waits at most for a time; answers,
\* datagrams and crashes are the network's and the hosts' own.
FairSpec == Spec /\ \A h \in Host :
    /\ WF_vars(Silent(h) \/ Reorder(h) \/ Reordered(h))
    /\ WF_vars(ReadServers(h)) /\ WF_vars(Take(h)) /\ WF_vars(Learn(h))

-----------------------------------------------------------------------------
(***************************************************************************)
(* Whatever two hosts remove at the same time, from lists that differ and  *)
(* with the second write of one before the first of the other: a host      *)
(* that runs has proposers to send a request to, unless it crashed in its  *)
(* first start.  initialize_from_range() does not go on with that: it      *)
(* finds accepters.                                                        *)
(***************************************************************************)
NeverEmpty == \A h \in running : view[h] \in {Missing, <<>>} => h \in torn

Settled == \A h \in Host : watch[h] = Idle /\ inbox[h] = <<>> /\ learn[h] = <<>>

(***************************************************************************)
(* The running hosts agree on the distinguished proposer once every        *)
(* reordering has come to its end, unless one of them missed a write or    *)
(* crashed in its first start.  A host that missed one has a list of its   *)
(* own for good; then two hosts may both propose, or each may leave it to  *)
(* another one that runs, so that no write is ever accepted again.         *)
(***************************************************************************)
OneLeader ==
    Settled /\ running \cap (missed \cup torn) = {} =>
        \E p \in Host : \A h \in running : distinguished_proposer(view[h], FALSE) = {p}

DeadFront ==
    /\ IsQuorum(running, Host)
    /\ \E list \in {view[h] : h \in running} :
        /\ \A h \in running : view[h] = list
        /\ list # Missing
        /\ Len(list) > 1
        /\ list[1] \notin running
        /\ list[2] \in running

(***************************************************************************)
(* A distinguished proposer that is down does not stay the first of        *)
(* everybody's list while the second runs: the second notices, its         *)
(* FAILOVER write reaches a proposer that handles it, and no heartbeat     *)
(* puts the dead one back.  (When both are down, the third sends a write   *)
(* of type REQUEST, which only the dead first one would handle.)           *)
(***************************************************************************)
DeadFrontReplaced == []<>~DeadFront

(***************************************************************************)
(* Two hosts that missed no write have the same list whenever they have    *)
(* the same writes left to apply, however often they crashed and whenever  *)
(* they started first.                                                     *)
(***************************************************************************)
SameList ==
    \A g, h \in running \ (missed \cup torn) : learn[g] = learn[h] => view[g] = view[h]

\* The part of OneLeader that holds for any number of faults: these hosts do
\* not follow different proposers.
NoTwoLeaders ==
    Settled => \A g, h \in running \ (missed \cup torn) :
        distinguished_proposer(view[g], FALSE) = distinguished_proposer(view[h], FALSE)

-----------------------------------------------------------------------------
(* The inductive invariant behind these two. *)

Lists == {Missing} \cup Seq(Host)

Types ==
    /\ running \subseteq accepters
    /\ accepters \subseteq Host
    /\ view  \in [Host -> Lists]
    /\ learn \in [Host -> Seq(Write)]
    /\ inbox \in [Host -> Seq(Request)]
    /\ watch \in [Host -> {Idle} \cup [pc : {"send", "wait"}, req : Request]]
    /\ \A h \in Host \ running : learn[h] = <<>>

\* The list of h, or the one that it writes at its first start.
Own(h) == IF h \in accepters THEN view[h] ELSE Peers

\* What Learn makes of a list.
After(list, w) == IF list = Missing THEN Missing ELSE Applied(list, w)

\* W are the n writes chosen so far and V the lists they give one after the
\* other; a host that missed none has one of the lists and the writes from
\* there on before it.
Chosen(n, W, V) ==
    /\ n \in Nat /\ W \in [1..n -> Write] /\ V \in [0..n -> Lists]
    /\ \A k \in 1..n : V[k] = After(V[k - 1], W[k])
    /\ \A h \in Host \ (missed \cup torn) : \E k \in 0..n :
          /\ Own(h) = V[k]
          /\ Len(learn[h]) = n - k
          /\ \A i \in 1..(n - k) : learn[h][i] = W[k + i]

Inv == Types /\ \E n, W, V : Chosen(n, W, V)
=============================================================================
