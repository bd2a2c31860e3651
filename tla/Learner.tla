------------------------------ MODULE Learner -------------------------------
(***************************************************************************)
(* The learners of the store daemon (stored/paxos_learner.cpp), fed by the *)
(* LEARN datagrams of the accepters.  The accepters appear only as the log *)
(* that module AccepterLog allows; module Paxos implements it.             *)
(*                                                                         *)
(* A learner counts LEARNs per proposal number and applies the request of  *)
(* the lowest pending number once a quorum was counted.  It neither knows  *)
(* which number comes next nor asks for a number it missed.                *)
(***************************************************************************)
EXTENDS AccepterLog, Sequences, SequencesExt

CONSTANTS
    Host,         \* the hosts that run a learner
    Home,         \* Home[r]: the host of the client that waits for r
    InitSeen,     \* what the uninitialised seen_count of a new entry may hold
    SeenMod,      \* 2^64 in the code: seen_count is a size_t
    Duplicates,   \* whether the network may duplicate a datagram
    MaxReceive    \* bound on the datagrams a learner takes (duplicates)

ASSUME LearnerAssumption ==
    /\ Home \in [Request -> Host]
    /\ SeenMod \in Nat \ {0}
    /\ InitSeen \subseteq 0 .. SeenMod - 1
    /\ Duplicates \in BOOLEAN
    /\ MaxReceive \in Nat

VARIABLES
    pending,    \* pending[h]: pending_learned_requests, at most one for a number
    got,        \* got[h]: the LEARNs that reached h
    received,   \* received[h]: how many, duplicates included
    applied,    \* applied[h]: the requests applied to h's database, in order
    answered    \* the requests whose client was sent an Ack

lvars == <<pending, got, received, applied, answered>>
vars  == <<log, lvars>>

\* A PendingLearnedRequest; "start" records what seen_count held at first, and
\* last_seen is the count of datagrams at that time.
Entry == [num : Num, req : Request, seen : 0 .. SeenMod - 1, start : InitSeen,
          last_seen : 1 .. MaxReceive]

TypeOK ==
    /\ LogTypeOK
    /\ pending  \in [Host -> SUBSET Entry]
    /\ got      \in [Host -> SUBSET Acceptance]
    /\ received \in [Host -> 0 .. MaxReceive]
    /\ applied  \in [Host -> Seq([num : Num, req : Request, start : InitSeen])]
    /\ answered \subseteq Request

Init ==
    /\ LogInit
    /\ pending  = [h \in Host |-> {}]
    /\ got      = [h \in Host |-> {}]
    /\ received = [h \in Host |-> 0]
    /\ applied  = [h \in Host |-> <<>>]
    /\ answered = {}

-----------------------------------------------------------------------------
\* A variant of needed_count that is one too low.
NeededOneLess == Quorum(Cardinality(Accepter)) - 1

\* needed_count of every entry.
Needed == Quorum(Cardinality(Accepter))

Complete(x) == x.seen >= Needed

\* ++seen_count, a size_t.
Bump(n) == (n + 1) % SeenMod

\* The entries of s for number n: none or one.
Find(s, n) == {x \in s : x.num = n}

\* The body of the loop of Learner::event_task for one LEARN.  A new entry
\* starts from an uninitialised count.  The crc of every LEARN was zeroed when
\* it was received (ListenServer::validate_msg), so the comparison of crcs
\* always succeeds and the first request that arrived for the number stays.
Receive(h, e) ==
    LET now == received[h] + 1
        old == Find(pending[h], e.num)
    IN
    /\ received[h] < MaxReceive
    /\ Duplicates \/ e \notin got[h]
    /\ received' = [received EXCEPT ![h] = now]
    /\ got' = [got EXCEPT ![h] = @ \cup {e}]
    /\ \E x \in IF old # {} THEN old
                ELSE {[num |-> e.num, req |-> e.req, seen |-> g, start |-> g,
                       last_seen |-> now] : g \in InitSeen} :
         pending' = [pending EXCEPT ![h] =
            (@ \ old) \cup {[x EXCEPT !.seen = Bump(@), !.last_seen = now]}]
    /\ UNCHANGED <<log, applied, answered>>

\* A variant that keeps the dead requests.
CleanupNone(s, t) == s

\* cleanup_dead_requests() when what was last seen by t is past the timeout.
Cleanup(s, t) == {x \in s : Complete(x) \/ x.last_seen > t}

\* pending_learned_requests.begin(), the entry with the lowest number.
First(s) == CHOOSE x \in s : \A y \in s : x.num <= y.num

\* The rest of Learner::event_task once its queue is drained:
\* cleanup_dead_requests(), then learn_completed_requests(), which applies at
\* most one request and answers its client if that is on this host.
Finish(h, t) ==
    LET s == Cleanup(pending[h], t)
        x == First(s)
    IN  /\ IF s # {} /\ Complete(x)
           THEN /\ pending' = [pending EXCEPT ![h] = s \ {x}]
                /\ applied' = [applied EXCEPT ![h] =
                  Append(@, [num |-> x.num, req |-> x.req, start |-> x.start])]
                /\ answered' = IF Home[x.req] = h THEN answered \cup {x.req}
                                                  ELSE answered
           ELSE /\ pending' = [pending EXCEPT ![h] = s]
                /\ UNCHANGED <<applied, answered>>
        /\ UNCHANGED <<log, got, received>>

\* All entries have aged past the timeout.
FinishLate(h) == Finish(h, received[h])

LearnerStep(h) ==
    \/ \E e \in log : Receive(h, e)
    \/ \E t \in 0 .. received[h] : Finish(h, t)

Next ==
    \/ LogNext /\ UNCHANGED lvars
    \/ \E h \in Host : LearnerStep(h)

Spec == Init /\ [][Next]_vars

\* q_wait returns at least every second and time passes: event_task runs
\* again after the entries have expired.
FairSpec == Spec /\ \A h \in Host : WF_vars(FinishLate(h))

-----------------------------------------------------------------------------
(***************************************************************************)
(* learn() runs at most once for a number, although LEARNs that arrive     *)
(* after it open a new entry: too few accepters are left to complete it,   *)
(* when the network duplicates nothing and seen_count started at zero.     *)
(***************************************************************************)
AppliedOncePerNumber ==
    \A h \in Host : \A i, j \in DOMAIN applied[h] :
        /\ applied[h][i].num = applied[h][j].num
        /\ applied[h][i].start = 0
        /\ applied[h][j].start = 0
        => i = j

(***************************************************************************)
(* A number that was counted to its quorum is applied, also when it waits  *)
(* behind lower numbers that never complete and behind entries that a late *)
(* LEARN opened: learn_completed_requests only ever looks at the first.    *)
(***************************************************************************)
CompleteIsApplied ==
    \A h \in Host, n \in Num :
        (\E x \in pending[h] : x.num = n /\ Complete(x))
          ~> (\E i \in DOMAIN applied[h] : applied[h][i].num = n)

(***************************************************************************)
(* Atomic broadcast: what one learner applied is a prefix of what the      *)
(* other applied, or the other way round (README.md: "guaranteed           *)
(* ordering").                                                             *)
(***************************************************************************)
SameOrder ==
    LET order(h) == [i \in DOMAIN applied[h] |-> applied[h][i].req]
    IN  \A g, h \in Host :
            IsPrefix(order(g), order(h)) \/ IsPrefix(order(h), order(g))
-----------------------------------------------------------------------------
(***************************************************************************)
(* The inductive invariant.                                                *)
(***************************************************************************)

\* The LEARNs for number n that reached h.
LearnsOf(h, n) == {e \in got[h] : e.num = n}

\* A learner has an entry per number, whose request came with a LEARN; so did
\* what it applied.
Heard ==
    \A h \in Host :
        /\ got[h] \subseteq log
        /\ \A x \in pending[h] : \E e \in LearnsOf(h, x.num) : e.req = x.req
        /\ \A x, y \in pending[h] : x.num = y.num => x = y
        /\ \A i \in DOMAIN applied[h] :
              \E e \in LearnsOf(h, applied[h][i].num) : e.req = applied[h][i].req

\* Without duplicates an entry that was counted from zero counts LEARNs of
\* different accepters, and no LEARN that an entry before it had counted.
Counted ==
    \A h \in Host :
        /\ \A x \in pending[h] : x.start = 0 => x.seen <= Cardinality(LearnsOf(h, x.num))
        /\ \A i \in DOMAIN applied[h] : applied[h][i].start = 0 =>
              /\ Needed <= Cardinality(LearnsOf(h, applied[h][i].num))
              /\ \A x \in Find(pending[h], applied[h][i].num) : x.start = 0 =>
                    Needed + x.seen <= Cardinality(LearnsOf(h, x.num))

Inv == TypeOK /\ AcceptedOncePerNumber /\ Heard

CountInv == Inv /\ Counted /\ AppliedOncePerNumber

\* What a learner applied was accepted under its number by some accepter and,
\* if it was counted from zero, a quorum of the accepters accepted something
\* under that number: not always this request, as LEARNs are counted by number.
AppliedIsAccepted ==
    \A h \in Host : \A i \in DOMAIN applied[h] :
        LET a == applied[h][i] IN
        /\ AcceptersOf(a.num, a.req) # {}
        /\ a.start = 0 /\ ~Duplicates =>
              IsQuorum({b \in Accepter : \E r \in Request : b \in AcceptersOf(a.num, r)},
                       Accepter)
=============================================================================
