---------------------------- MODULE PaxosProofs -----------------------------
(***************************************************************************)
(* Proofs about the proposers and accepters of module Paxos, for every     *)
(* number of hosts, every set of requests and every initial content of the *)
(* uninitialised counters.                                                 *)
(***************************************************************************)
EXTENDS Paxos, AccepterLogProofs

(***************************************************************************)
(* Adding accepters to a quorum leaves a quorum.                           *)
(***************************************************************************)
LEMMA QuorumMonotone ==
    ASSUME NEW S, NEW T \in SUBSET Accepter, S \subseteq T, IsQuorum(S, Accepter)
    PROVE  IsQuorum(T, Accepter)
<1>1. IsFiniteSet(Accepter)
  BY AccepterAssumption
<1>2. IsFiniteSet(T)
  BY <1>1, FS_Subset
<1>3. Cardinality(S) <= Cardinality(T) /\ IsFiniteSet(S)
  BY <1>2, FS_Subset
<1>4. Cardinality(S) \in Nat /\ Cardinality(T) \in Nat /\ Cardinality(Accepter) \in Nat
  BY <1>1, <1>2, <1>3, FS_CardinalityType
<1>5. Quorum(Cardinality(Accepter)) \in Int
  BY <1>4 DEF Quorum
<1> QED BY <1>3, <1>4, <1>5 DEF IsQuorum

(***************************************************************************)
(* What timed_receive() returned counts accepters: it holds one reply of   *)
(* each, so a quorum of replies of a kind comes from a quorum.             *)
(***************************************************************************)
LEMMA VotesOfQuorum ==
    ASSUME NEW R, NEW kind, NEW S \in SUBSET Accepter,
           \A x, y \in R : x.acc = y.acc => x = y,
           \A x \in R : x.type = kind => x.acc \in S,
           Unanimous(R, kind)
    PROVE  IsQuorum(S, Accepter)
<1> DEFINE V == {x \in R : x.type = kind}
           f == [x \in V |-> x.acc]
<1>1. f \in Injection(V, S)
  BY DEF Injection, IsInjective
<1>2. IsFiniteSet(Accepter) /\ IsFiniteSet(S)
  BY AccepterAssumption, FS_Subset
<1>3. IsFiniteSet(V) /\ Cardinality(V) <= Cardinality(S)
  BY <1>1, <1>2, FS_Injection
<1>4. Cardinality(V) \in Nat /\ Cardinality(S) \in Nat /\ Cardinality(Accepter) \in Nat
  BY <1>2, <1>3, FS_CardinalityType
<1>5. Quorum(Cardinality(Accepter)) \in Int
  BY <1>4 DEF Quorum
<1>6. Cardinality(V) >= Quorum(Cardinality(Accepter))
  BY DEF Unanimous, IsQuorum
<1> HIDE DEF V
<1> QED BY <1>3, <1>4, <1>5, <1>6 DEF IsQuorum

(***************************************************************************)
(* The next proposal number is again a number.                             *)
(***************************************************************************)
LEMMA NumberType ==
    ASSUME TypeOK, NEW p \in Proposer, NEW R \in SUBSET replies[p],
           RaiseNumber(p, R)
    PROVE  number' \in [Proposer -> Num]
<1>1. PICK h \in SeenProposals(p, R) :
        number' = [number EXCEPT ![p] = (h + 1) % NumMod]
  BY DEF RaiseNumber
<1>2. SeenProposals(p, R) \subseteq Num
  BY DEF SeenProposals, TypeOK, Reply
<1>3. h \in Nat
  BY <1>1, <1>2, NumAssumption
<1>4. (h + 1) % NumMod \in 0 .. NumMod - 1
  BY <1>3, PaxosAssumption
<1> QED BY <1>1, <1>4, PaxosAssumption DEF TypeOK

-----------------------------------------------------------------------------
\* The start, with any value of the uninitialised counters, satisfies Inv.
LEMMA InitInv == Init => Inv
<1> SUFFICES ASSUME Init PROVE Inv
  OBVIOUS
<1>1. TypeOK
  <2>1. 0 \in Num /\ 1 \in 1 .. BowOut + 1
    BY PaxosAssumption
  <2> QED BY <2>1, PaxosAssumption DEF Init, LogInit, TypeOK, LogTypeOK
<1>2. CallInv /\ PromiseInv /\ AcceptInv /\ ReplyInv /\ WonInv /\ DoneIsChosen
  BY DEF Init, LogInit, CallInv, PromiseInv, AcceptInv, ReplyInv, WonInv,
         DoneIsChosen
<1> QED BY <1>1, <1>2 DEF Inv

(***************************************************************************)
(* Proposer::event_task taking a request preserves the invariant.          *)
(***************************************************************************)
LEMMA TakeInv ==
    ASSUME Inv, NEW p \in Proposer, NEW r \in Request, Take(p, r)
    PROVE  Inv'
<1> USE DEF Inv
<1>1. /\ pc[p] = "idle"
      /\ pending' = [pending EXCEPT ![p] = @ \ {r}]
      /\ UNCHANGED <<number, replies, promised, accepted, promises, log,
                     won, done>>
  BY DEF Take, avars
<1>2. \/ /\ handling' = [handling EXCEPT ![p] = r]
         /\ bow_out' = [bow_out EXCEPT ![p] = 1]
         /\ StartPrepare(p, number[p])
      \/ UNCHANGED <<handling, bow_out, pc, sent>>
  BY Zenon DEF Take
<1>3. TypeOK'
  <2>1. pending' \in [Proposer -> SUBSET Request]
    BY <1>1 DEF TypeOK
  <2>2. /\ pc' \in [Proposer -> {"idle", "prepare", "propose"}]
        /\ handling' \in [Proposer -> Request \cup {NoRequest}]
        /\ bow_out' \in [Proposer -> 1 .. BowOut + 1]
    <3>1. 1 \in 1 .. BowOut + 1
      BY PaxosAssumption
    <3>2. CASE UNCHANGED <<handling, bow_out, pc, sent>>
      BY <3>2 DEF TypeOK
    <3>3. CASE /\ handling' = [handling EXCEPT ![p] = r]
               /\ bow_out' = [bow_out EXCEPT ![p] = 1]
               /\ StartPrepare(p, number[p])
      BY <3>1, <3>3 DEF TypeOK, StartPrepare
    <3> QED BY <1>2, <3>2, <3>3
  <2>3. sent' \subseteq Prepares \cup Proposes
    BY <1>2 DEF TypeOK, StartPrepare, Prepares
  <2> QED BY <1>1, <2>1, <2>2, <2>3 DEF TypeOK, LogTypeOK
<1>4. CallInv'
  BY <1>1, <1>2, PaxosAssumption DEF StartPrepare, TypeOK, CallInv
<1>5. PromiseInv' /\ AcceptInv'
  BY <1>1 DEF PromiseInv, AcceptInv
<1>6. ReplyInv'
  BY <1>1, <1>2 DEF StartPrepare, ReplyInv, TypeOK
<1>7. WonInv' /\ DoneIsChosen'
  BY <1>1 DEF WonInv, PromisersOf, DoneIsChosen, ChosenAt, AcceptersOf
<1> QED BY <1>3, <1>4, <1>5, <1>6, <1>7

(***************************************************************************)
(* prepare() returning true preserves the invariant; the quorum behind it  *)
(* is the one that answered.                                               *)
(***************************************************************************)
LEMMA PreparePromisedInv ==
    ASSUME Inv, NEW p \in Proposer, PreparePromised(p)
    PROVE  Inv'
<1> USE DEF Inv
<1>1. /\ pc[p] = "prepare"
      /\ won' = won \cup {[num |-> number[p], from |-> p]}
      /\ pc' = [pc EXCEPT ![p] = "propose"]
      /\ sent' = sent \cup {[type |-> "PROPOSE", from |-> p,
                             num |-> number[p], req |-> handling[p]]}
      /\ replies' = [replies EXCEPT ![p] = {}]
      /\ UNCHANGED <<pending, handling, bow_out, number, promised, accepted,
                     promises, log, done>>
  BY DEF PreparePromised, StartPropose, CloseCall, avars
<1>2. PICK R \in SUBSET replies[p] : Collected(p, R) /\ Unanimous(R, "PROMISE")
  BY DEF PreparePromised
<1>3. handling[p] \in Request
  BY <1>1 DEF CallInv
<1>4. TypeOK'
  <2>1. sent' \subseteq Prepares \cup Proposes
    BY <1>1, <1>3 DEF TypeOK, Proposes
  <2>2. /\ pc' \in [Proposer -> {"idle", "prepare", "propose"}]
        /\ replies' \in [Proposer -> SUBSET Reply]
        /\ won' \subseteq [num : Num, from : Proposer]
    BY <1>1 DEF TypeOK
  <2> QED BY <1>1, <2>1, <2>2 DEF TypeOK, LogTypeOK
<1>5. CallInv' /\ PromiseInv' /\ AcceptInv' /\ ReplyInv' /\ DoneIsChosen'
  BY <1>1, <1>3 DEF CallInv, PromiseInv, AcceptInv, ReplyInv, DoneIsChosen,
                    ChosenAt, AcceptersOf, TypeOK
<1>6. WonInv'
  <2>1. \A x \in R : x.type = "PROMISE" => x.acc \in PromisersOf(number[p], p)
    BY <1>2 DEF ReplyInv, PromisersOf, TypeOK, Reply
  <2>2. \A x, y \in R : x.acc = y.acc => x = y
    BY <1>2 DEF Collected
  <2>3. PromisersOf(number[p], p) \in SUBSET Accepter
    BY DEF PromisersOf
  <2>4. IsQuorum(PromisersOf(number[p], p), Accepter)
    BY <1>2, <2>1, <2>2, <2>3, VotesOfQuorum
  <2>5. \A n, q : PromisersOf(n, q)' = PromisersOf(n, q)
    BY <1>1 DEF PromisersOf
  <2>6. \A w \in won' : IsQuorum(PromisersOf(w.num, w.from), Accepter)
    BY <1>1, <2>4 DEF WonInv
  <2> QED BY <2>5, <2>6 DEF WonInv
<1> QED BY <1>4, <1>5, <1>6

(***************************************************************************)
(* prepare() returning false preserves the invariant, both when it is      *)
(* called again and when the request is proposed without a promise.        *)
(***************************************************************************)
LEMMA PrepareRefusedInv ==
    ASSUME Inv, NEW p \in Proposer, PrepareRefused(p)
    PROVE  Inv'
<1> USE DEF Inv
<1>1. /\ pc[p] = "prepare"
      /\ bow_out' = [bow_out EXCEPT ![p] = @ + 1]
      /\ replies' = [replies EXCEPT ![p] = {}]
      /\ UNCHANGED <<pending, handling, promised, accepted, promises, log,
                     won, done>>
  BY DEF PrepareRefused, CloseCall, avars
<1>2. PICK R \in SUBSET replies[p] : RaiseNumber(p, R)
  BY DEF PrepareRefused
<1>3. number' \in [Proposer -> Num]
  BY <1>2, NumberType
<1>4. \A q \in Proposer : q # p => number'[q] = number[q]
  BY <1>2 DEF RaiseNumber, TypeOK
<1>5. \/ bow_out[p] < BowOut /\ StartPrepare(p, number'[p])
      \/ StartPropose(p, number'[p])
  BY Zenon DEF PrepareRefused
<1>6. handling[p] \in Request /\ bow_out[p] <= BowOut
  BY <1>1 DEF CallInv
<1>7. TypeOK'
  <2>1. sent' \subseteq Prepares \cup Proposes
    BY <1>3, <1>5, <1>6 DEF TypeOK, StartPrepare, StartPropose, Prepares, Proposes
  <2>2. pc' \in [Proposer -> {"idle", "prepare", "propose"}]
    BY <1>5 DEF TypeOK, StartPrepare, StartPropose
  <2>3. bow_out' \in [Proposer -> 1 .. BowOut + 1]
    BY <1>1, <1>6, PaxosAssumption DEF TypeOK
  <2>4. replies' \in [Proposer -> SUBSET Reply]
    BY <1>1 DEF TypeOK
  <2> QED BY <1>1, <1>3, <2>1, <2>2, <2>3, <2>4 DEF TypeOK, LogTypeOK
<1>8. CallInv'
  BY <1>1, <1>5, <1>6, PaxosAssumption
  DEF CallInv, TypeOK, StartPrepare, StartPropose
<1>9. PromiseInv' /\ AcceptInv'
  BY <1>1 DEF PromiseInv, AcceptInv
<1>10. ReplyInv'
  BY <1>1, <1>4, <1>5 DEF ReplyInv, TypeOK, StartPrepare, StartPropose
<1>11. WonInv' /\ DoneIsChosen'
  BY <1>1 DEF WonInv, PromisersOf, DoneIsChosen, ChosenAt, AcceptersOf
<1> QED BY <1>7, <1>8, <1>9, <1>10, <1>11

(***************************************************************************)
(* propose() returning true preserves the invariant; the request is chosen *)
(* by the accepters that answered.                                         *)
(***************************************************************************)
LEMMA ProposeAcceptedInv ==
    ASSUME Inv, NEW p \in Proposer, ProposeAccepted(p)
    PROVE  Inv'
<1> USE DEF Inv
<1>1. /\ pc[p] = "propose"
      /\ done' = done \cup {[num |-> number[p], req |-> handling[p]]}
      /\ pc' = [pc EXCEPT ![p] = "idle"]
      /\ handling' = [handling EXCEPT ![p] = NoRequest]
      /\ replies' = [replies EXCEPT ![p] = {}]
      /\ UNCHANGED <<pending, bow_out, promised, accepted, promises, log,
                     sent, won>>
  BY DEF ProposeAccepted, CloseCall, avars
<1>2. PICK R \in SUBSET replies[p] :
        Collected(p, R) /\ Unanimous(R, "ACCEPTED") /\ RaiseNumber(p, R)
  BY DEF ProposeAccepted
<1>3. number' \in [Proposer -> Num]
  BY <1>2, NumberType
<1>4. \A q \in Proposer : q # p => number'[q] = number[q]
  BY <1>2 DEF RaiseNumber, TypeOK
<1>5. handling[p] \in Request
  BY <1>1 DEF CallInv
<1>6. TypeOK'
  <2>1. done' \subseteq [num : Num, req : Request]
    BY <1>1, <1>5 DEF TypeOK
  <2>2. /\ pc' \in [Proposer -> {"idle", "prepare", "propose"}]
        /\ handling' \in [Proposer -> Request \cup {NoRequest}]
        /\ replies' \in [Proposer -> SUBSET Reply]
    BY <1>1 DEF TypeOK
  <2> QED BY <1>1, <1>3, <2>1, <2>2 DEF TypeOK, LogTypeOK
<1>7. CallInv' /\ PromiseInv' /\ AcceptInv'
  BY <1>1 DEF CallInv, PromiseInv, AcceptInv, TypeOK
<1>8. ReplyInv'
  BY <1>1, <1>4 DEF ReplyInv, TypeOK
<1>9. WonInv'
  BY <1>1 DEF WonInv, PromisersOf
<1>10. DoneIsChosen'
  <2> DEFINE S == AcceptersOf(number[p], handling[p])
  <2>1. ASSUME NEW x \in R, x.type = "ACCEPTED"
        PROVE  x.acc \in S
    <3>1. x \in replies[p] /\ x.acc \in Accepter
      BY <1>2 DEF TypeOK, Reply
    <3>2. [acc |-> x.acc, num |-> number[p], req |-> handling[p]] \in log
      BY <2>1, <3>1 DEF ReplyInv
    <3> QED BY <3>1, <3>2 DEF AcceptersOf
  <2>2. \A x, y \in R : x.acc = y.acc => x = y
    BY <1>2 DEF Collected
  <2>3. S \in SUBSET Accepter
    BY DEF AcceptersOf
  <2>4. IsQuorum(S, Accepter)
    <3> HIDE DEF S
    <3> QED BY <1>2, <2>1, <2>2, <2>3, VotesOfQuorum
  <2>5. \A n, r : ChosenAt(n, r)' <=> ChosenAt(n, r)
    BY <1>1 DEF ChosenAt, AcceptersOf
  <2>6. \A d \in done' : ChosenAt(d.num, d.req)
    BY <1>1, <2>4 DEF DoneIsChosen, ChosenAt
  <2> QED BY <2>5, <2>6 DEF DoneIsChosen
<1> QED BY <1>6, <1>7, <1>8, <1>9, <1>10

(***************************************************************************)
(* propose() returning false preserves the invariant.                      *)
(***************************************************************************)
LEMMA ProposeRefusedInv ==
    ASSUME Inv, NEW p \in Proposer, ProposeRefused(p)
    PROVE  Inv'
<1> USE DEF Inv
<1>1. /\ pc[p] = "propose"
      /\ replies' = [replies EXCEPT ![p] = {}]
      /\ UNCHANGED <<pending, bow_out, promised, accepted, promises, log,
                     won, done>>
  BY DEF ProposeRefused, CloseCall, avars
<1>2. PICK R \in SUBSET replies[p] : RaiseNumber(p, R)
  BY DEF ProposeRefused
<1>3. number' \in [Proposer -> Num]
  BY <1>2, NumberType
<1>4. \A q \in Proposer : q # p => number'[q] = number[q]
  BY <1>2 DEF RaiseNumber, TypeOK
<1>5. \/ bow_out[p] < BowOut /\ StartPrepare(p, number'[p]) /\ handling' = handling
      \/ /\ pc' = [pc EXCEPT ![p] = "idle"]
         /\ handling' = [handling EXCEPT ![p] = NoRequest]
         /\ sent' = sent
  BY Zenon DEF ProposeRefused
<1>6. handling[p] \in Request
  BY <1>1 DEF CallInv
<1>7. TypeOK'
  <2>1. sent' \subseteq Prepares \cup Proposes
    BY <1>3, <1>5 DEF TypeOK, StartPrepare, Prepares
  <2>2. /\ pc' \in [Proposer -> {"idle", "prepare", "propose"}]
        /\ handling' \in [Proposer -> Request \cup {NoRequest}]
    BY <1>5 DEF TypeOK, StartPrepare
  <2>3. replies' \in [Proposer -> SUBSET Reply]
    BY <1>1 DEF TypeOK
  <2> QED BY <1>1, <1>3, <2>1, <2>2, <2>3 DEF TypeOK, LogTypeOK
<1>8. CallInv'
  BY <1>1, <1>5, <1>6, PaxosAssumption DEF CallInv, TypeOK, StartPrepare
<1>9. PromiseInv' /\ AcceptInv'
  BY <1>1 DEF PromiseInv, AcceptInv
<1>10. ReplyInv'
  BY <1>1, <1>4, <1>5 DEF ReplyInv, TypeOK, StartPrepare
<1>11. WonInv' /\ DoneIsChosen'
  BY <1>1 DEF WonInv, PromisersOf, DoneIsChosen, ChosenAt, AcceptersOf
<1> QED BY <1>7, <1>8, <1>9, <1>10, <1>11

-----------------------------------------------------------------------------
(***************************************************************************)
(* A datagram that reached an accepter, by type.                           *)
(***************************************************************************)
LEMMA DatagramType ==
    ASSUME TypeOK, NEW m \in sent
    PROVE  /\ m.from \in Proposer /\ m.num \in Num /\ m.num \in Nat
           /\ m.type = "PROPOSE" => m.req \in Request
<1>1. m \in Prepares \/ m \in Proposes
  BY DEF TypeOK
<1>2. CASE m \in Prepares
  BY <1>2, NumAssumption DEF Prepares
<1>3. CASE m \in Proposes
  BY <1>3, NumAssumption DEF Proposes
<1> QED BY <1>1, <1>2, <1>3

(***************************************************************************)
(* send_ack() adds at most the one reply, to the call that asked.          *)
(***************************************************************************)
LEMMA AckReplies ==
    ASSUME TypeOK, NEW a \in Accepter, NEW m \in sent,
           NEW type \in {"PROMISE", "ACCEPTED", "NACK"}, NEW n \in Num,
           SendAck(a, m, type, n)
    PROVE  /\ replies' \in [Proposer -> SUBSET Reply]
           /\ \A q \in Proposer : \A x \in replies'[q] :
                \/ x \in replies[q]
                \/ /\ q = m.from
                   /\ Open(m)
                   /\ x = [acc |-> a, type |-> type, num |-> n]
<1>1. m.from \in Proposer
  BY DatagramType
<1>2. [acc |-> a, type |-> type, num |-> n] \in Reply
  BY DEF Reply
<1>3. CASE Open(m)
  <2>1. replies' = [replies EXCEPT ![m.from] =
                      @ \cup {[acc |-> a, type |-> type, num |-> n]}]
    BY <1>3 DEF SendAck
  <2> QED BY <1>1, <1>2, <1>3, <2>1 DEF TypeOK
<1>4. CASE ~ Open(m)
  <2>1. replies' = replies
    BY <1>4 DEF SendAck
  <2> QED BY <2>1 DEF TypeOK
<1> QED BY <1>3, <1>4

(***************************************************************************)
(* Accepter::promise making a promise preserves the invariant: the number  *)
(* is above every number promised before.                                  *)
(***************************************************************************)
LEMMA PromiseStepInv ==
    ASSUME Inv, NEW a \in Accepter, NEW m \in sent, Promise(a, m),
           UNCHANGED <<pending, pc, handling, bow_out, number, sent, won, done>>
    PROVE  Inv'
<1> USE DEF Inv
<1> DEFINE new == [acc |-> a, num |-> m.num, from |-> m.from]
<1>1. /\ m.type = "PREPARE"
      /\ m.num > promised[a]
      /\ promised' = [promised EXCEPT ![a] = m.num]
      /\ promises' = promises \cup {new}
      /\ accepted' = accepted /\ log' = log
  BY DEF Promise
<1>2. m.from \in Proposer /\ m.num \in Num /\ m.num \in Nat
  BY DatagramType
<1>3. /\ replies' \in [Proposer -> SUBSET Reply]
      /\ \A q \in Proposer : \A x \in replies'[q] :
           \/ x \in replies[q]
           \/ /\ q = m.from
              /\ Open(m)
              /\ x = [acc |-> a, type |-> "PROMISE", num |-> m.num]
  BY <1>2, AckReplies DEF Promise
<1>4. TypeOK'
  <2>1. new \in [acc : Accepter, num : Num, from : Proposer]
    BY <1>2
  <2>2. promises' \subseteq [acc : Accepter, num : Num, from : Proposer]
    BY <1>1, <2>1 DEF TypeOK
  <2>3. promised' \in [Accepter -> Num]
    BY <1>1, <1>2 DEF TypeOK
  <2> HIDE DEF new
  <2> QED BY <1>1, <1>3, <2>2, <2>3 DEF TypeOK, LogTypeOK
<1>5. CallInv'
  BY DEF CallInv
<1>6. PromiseInv'
  <2>1. \A x \in promises : x.acc \in Accepter /\ x.num \in Nat /\ promised[x.acc] \in Nat
    BY NumAssumption DEF TypeOK
  <2>2. \A x \in promises : x.acc = a => x.num # m.num
    BY <1>1, <1>2, <2>1 DEF PromiseInv
  <2>3. \A x \in promises' : x.num <= promised'[x.acc]
    BY <1>1, <1>2, <2>1 DEF PromiseInv, TypeOK
  <2>4. \A x, y \in promises' :
          x.acc = y.acc /\ x.num = y.num => x.from = y.from
    BY <1>1, <2>2 DEF PromiseInv
  <2> QED BY <2>3, <2>4 DEF PromiseInv
<1>7. AcceptInv'
  BY <1>1 DEF AcceptInv
<1>8. ReplyInv'
  <2> SUFFICES ASSUME NEW q \in Proposer, NEW x \in replies'[q]
               PROVE  /\ x.type = "PROMISE" =>
                           /\ pc[q] = "prepare"
                           /\ [acc |-> x.acc, num |-> number[q], from |-> q] \in promises'
                      /\ x.type = "ACCEPTED" =>
                           /\ pc[q] = "propose"
                           /\ [acc |-> x.acc, num |-> number[q], req |-> handling[q]] \in log
    BY <1>1 DEF ReplyInv
  <2>1. CASE x \in replies[q]
    BY <1>1, <2>1 DEF ReplyInv
  <2>2. CASE /\ q = m.from
             /\ Open(m)
             /\ x = [acc |-> a, type |-> "PROMISE", num |-> m.num]
    BY <1>1, <2>2 DEF Open
  <2> QED BY <1>3, <2>1, <2>2
<1>9. WonInv'
  <2> SUFFICES ASSUME NEW w \in won
               PROVE  IsQuorum(PromisersOf(w.num, w.from)', Accepter)
    BY DEF WonInv
  <2>1. PromisersOf(w.num, w.from) \subseteq PromisersOf(w.num, w.from)'
    BY <1>1 DEF PromisersOf
  <2>2. PromisersOf(w.num, w.from)' \in SUBSET Accepter
    BY DEF PromisersOf
  <2>3. IsQuorum(PromisersOf(w.num, w.from), Accepter)
    BY DEF WonInv
  <2> QED BY <2>1, <2>2, <2>3, QuorumMonotone
<1>10. DoneIsChosen'
  BY <1>1 DEF DoneIsChosen, ChosenAt, AcceptersOf
<1> QED BY <1>4, <1>5, <1>6, <1>7, <1>8, <1>9, <1>10

(***************************************************************************)
(* Accepter::accept accepting a request preserves the invariant.           *)
(***************************************************************************)
LEMMA AcceptStepInv ==
    ASSUME Inv, NEW a \in Accepter, NEW m \in sent, Accept(a, m),
           UNCHANGED <<pending, pc, handling, bow_out, number, sent, won, done>>
    PROVE  Inv'
<1> USE DEF Inv
<1> DEFINE new == [acc |-> a, num |-> m.num, req |-> m.req]
<1>1. /\ m.type = "PROPOSE"
      /\ m.num > accepted[a]
      /\ accepted' = [accepted EXCEPT ![a] = m.num]
      /\ log' = log \cup {new}
      /\ promised' = promised /\ promises' = promises
  BY DEF Accept
<1>2. m.from \in Proposer /\ m.num \in Num /\ m.num \in Nat /\ m.req \in Request
  BY <1>1, DatagramType
<1>3. /\ replies' \in [Proposer -> SUBSET Reply]
      /\ \A q \in Proposer : \A x \in replies'[q] :
           \/ x \in replies[q]
           \/ /\ q = m.from
              /\ Open(m)
              /\ x = [acc |-> a, type |-> "ACCEPTED", num |-> m.num]
  BY <1>2, AckReplies DEF Accept
<1>4. TypeOK'
  <2>1. new \in Acceptance
    BY <1>2 DEF Acceptance
  <2>2. log' \subseteq Acceptance
    BY <1>1, <2>1 DEF TypeOK, LogTypeOK
  <2>3. accepted' \in [Accepter -> Num]
    BY <1>1, <1>2 DEF TypeOK
  <2> HIDE DEF new
  <2> QED BY <1>1, <1>3, <2>2, <2>3 DEF TypeOK, LogTypeOK
<1>5. CallInv' /\ PromiseInv'
  BY <1>1 DEF CallInv, PromiseInv
<1>6. AcceptInv'
  <2>1. \A e \in log : e.acc \in Accepter /\ e.num \in Nat /\ accepted[e.acc] \in Nat
    BY NumAssumption DEF TypeOK, LogTypeOK, Acceptance
  <2> QED BY <1>1, <1>2, <2>1 DEF AcceptInv, TypeOK
<1>7. ReplyInv'
  <2> SUFFICES ASSUME NEW q \in Proposer, NEW x \in replies'[q]
               PROVE  /\ x.type = "PROMISE" =>
                           /\ pc[q] = "prepare"
                           /\ [acc |-> x.acc, num |-> number[q], from |-> q] \in promises
                      /\ x.type = "ACCEPTED" =>
                           /\ pc[q] = "propose"
                           /\ [acc |-> x.acc, num |-> number[q], req |-> handling[q]] \in log'
    BY <1>1 DEF ReplyInv
  <2>1. CASE x \in replies[q]
    BY <1>1, <2>1 DEF ReplyInv
  <2>2. CASE /\ q = m.from
             /\ Open(m)
             /\ x = [acc |-> a, type |-> "ACCEPTED", num |-> m.num]
    BY <1>1, <2>2 DEF Open
  <2> QED BY <1>3, <2>1, <2>2
<1>8. WonInv'
  BY <1>1 DEF WonInv, PromisersOf
<1>9. DoneIsChosen'
  <2> SUFFICES ASSUME NEW d \in done
               PROVE  IsQuorum(AcceptersOf(d.num, d.req)', Accepter)
    BY DEF DoneIsChosen, ChosenAt
  <2>1. AcceptersOf(d.num, d.req) \subseteq AcceptersOf(d.num, d.req)'
    BY <1>1 DEF AcceptersOf
  <2>2. AcceptersOf(d.num, d.req)' \in SUBSET Accepter
    BY DEF AcceptersOf
  <2>3. IsQuorum(AcceptersOf(d.num, d.req), Accepter)
    BY DEF DoneIsChosen, ChosenAt
  <2> QED BY <2>1, <2>2, <2>3, QuorumMonotone
<1> QED BY <1>4, <1>5, <1>6, <1>7, <1>8, <1>9

(***************************************************************************)
(* Accepter::nack preserves the invariant.                                 *)
(***************************************************************************)
LEMMA NackStepInv ==
    ASSUME Inv, NEW a \in Accepter, NEW m \in sent, Nack(a, m),
           UNCHANGED <<pending, pc, handling, bow_out, number, sent, won, done>>
    PROVE  Inv'
<1> USE DEF Inv
<1>1. UNCHANGED <<promised, accepted, promises, log>>
  BY DEF Nack, avars
<1>2. promised[a] \in Num
  BY DEF TypeOK
<1>3. /\ replies' \in [Proposer -> SUBSET Reply]
      /\ \A q \in Proposer : \A x \in replies'[q] :
           \/ x \in replies[q]
           \/ x = [acc |-> a, type |-> "NACK", num |-> promised[a]]
  BY <1>2, AckReplies DEF Nack
<1>4. TypeOK'
  BY <1>1, <1>3 DEF TypeOK, LogTypeOK
<1>5. CallInv' /\ PromiseInv' /\ AcceptInv'
  BY <1>1 DEF CallInv, PromiseInv, AcceptInv
<1>6. ReplyInv'
  BY <1>1, <1>3 DEF ReplyInv
<1>7. WonInv' /\ DoneIsChosen'
  BY <1>1 DEF WonInv, PromisersOf, DoneIsChosen, ChosenAt, AcceptersOf
<1> QED BY <1>4, <1>5, <1>6, <1>7

-----------------------------------------------------------------------------
\* Every step of a proposer, an accepter or the network preserves Inv.
LEMMA StepInv == Inv /\ [Next]_vars => Inv'
<1> SUFFICES ASSUME Inv, [Next]_vars PROVE Inv'
  OBVIOUS
<1>1. ASSUME NEW p \in Proposer, ProposerStep(p) PROVE Inv'
  BY <1>1, TakeInv, PreparePromisedInv, PrepareRefusedInv,
     ProposeAcceptedInv, ProposeRefusedInv DEF ProposerStep
<1>2. ASSUME NEW a \in Accepter, AccepterStep(a) PROVE Inv'
  <2>1. PICK m \in sent : Promise(a, m) \/ Accept(a, m) \/ Nack(a, m)
    BY <1>2 DEF AccepterStep
  <2>2. UNCHANGED <<pending, pc, handling, bow_out, number, sent, won, done>>
    BY <1>2 DEF AccepterStep
  <2> QED BY <2>1, <2>2, PromiseStepInv, AcceptStepInv, NackStepInv
<1>3. CASE UNCHANGED vars
  BY <1>3 DEF vars, pvars, avars, Inv, TypeOK, LogTypeOK, CallInv, PromiseInv,
     AcceptInv, ReplyInv, WonInv, PromisersOf, DoneIsChosen, ChosenAt, AcceptersOf
<1> QED BY <1>1, <1>2, <1>3 DEF Next

(***************************************************************************)
(* The inductive invariant holds in every reachable state; with it the     *)
(* type invariant, and DoneIsChosen: propose() reports success only for a  *)
(* request that a quorum accepted.                                         *)
(***************************************************************************)
THEOREM Invariance == Spec => []Inv
BY InitInv, StepInv, PTL DEF Spec

\* The counters, calls and datagrams keep their types.
THEOREM TypeCorrect == Spec => []TypeOK
<1>1. Inv => TypeOK
  BY DEF Inv
<1> QED BY <1>1, Invariance, PTL

\* Proposer::propose returns true only for a request that a quorum of accepters
\* accepted under the proposer's number.
THEOREM SuccessIsBacked == Spec => []DoneIsChosen
<1>1. Inv => DoneIsChosen
  BY DEF Inv
<1> QED BY <1>1, Invariance, PTL

(***************************************************************************)
(* prepare() returns true to at most one proposer per number: the two      *)
(* quorums would share an accepter that promised the number twice.         *)
(***************************************************************************)
THEOREM OneWinner == Spec => []OneWinnerPerNumber
<1>1. Inv => OneWinnerPerNumber
  <2> SUFFICES ASSUME Inv, NEW w \in won, NEW x \in won, w.num = x.num
               PROVE  w.from = x.from
    BY DEF OneWinnerPerNumber
  <2>1. /\ IsQuorum(PromisersOf(w.num, w.from), Accepter)
        /\ IsQuorum(PromisersOf(x.num, x.from), Accepter)
    BY DEF Inv, WonInv
  <2>2. /\ PromisersOf(w.num, w.from) \in SUBSET Accepter
        /\ PromisersOf(x.num, x.from) \in SUBSET Accepter
    BY DEF PromisersOf
  <2>3. PICK a \in Accepter : /\ a \in PromisersOf(w.num, w.from)
                              /\ a \in PromisersOf(x.num, x.from)
    BY <2>1, <2>2, QuorumsIntersect
  <2> DEFINE y == [acc |-> a, num |-> w.num, from |-> w.from]
             z == [acc |-> a, num |-> x.num, from |-> x.from]
  <2>4. y \in promises /\ z \in promises
    BY <2>3 DEF PromisersOf
  <2>5. y.acc = z.acc /\ y.num = z.num => y.from = z.from
    BY <2>4 DEF Inv, PromiseInv
  <2> QED BY <2>5
<1> QED BY <1>1, Invariance, PTL

(***************************************************************************)
(* The protocol implements the abstract accepters' log: an accepter only   *)
(* accepts above accepted_proposal_num_, below which all its acceptances   *)
(* lie.                                                                    *)
(***************************************************************************)
THEOREM Refinement == Spec => ImplementsLog
<1>1. Init => LogInit
  BY DEF Init
<1>2. Inv /\ [Next]_vars => [LogNext]_log
  <2> SUFFICES ASSUME Inv, [Next]_vars PROVE LogNext \/ log' = log
    OBVIOUS
  <2>1. ASSUME NEW p \in Proposer, ProposerStep(p) PROVE log' = log
    BY <2>1 DEF ProposerStep, Take, PreparePromised, PrepareRefused,
                ProposeAccepted, ProposeRefused, avars
  <2>2. ASSUME NEW a \in Accepter, AccepterStep(a)
        PROVE  LogNext \/ log' = log
    <3>1. PICK m \in sent : Promise(a, m) \/ Accept(a, m) \/ Nack(a, m)
      BY <2>2 DEF AccepterStep
    <3>2. CASE Promise(a, m) \/ Nack(a, m)
      BY <3>2 DEF Promise, Nack, avars
    <3>3. CASE Accept(a, m)
      <4>1. m.num \in Num /\ m.num \in Nat /\ m.req \in Request
        BY <3>3, DatagramType DEF Inv, Accept
      <4>2. \A e \in log : /\ e.acc \in Accepter /\ e.num \in Nat
                           /\ accepted[e.acc] \in Nat
        BY NumAssumption DEF Inv, TypeOK, LogTypeOK, Acceptance
      <4>3. \A e \in log : e.acc = a => e.num < m.num
        BY <3>3, <4>1, <4>2 DEF Inv, AcceptInv, Accept
      <4>4. LogAccept(a, m.num, m.req)
        BY <3>3, <4>3 DEF LogAccept, Accept
      <4> QED BY <4>1, <4>4 DEF LogNext
    <3> QED BY <3>1, <3>2, <3>3
  <2>3. CASE UNCHANGED vars
    BY <2>3 DEF vars, avars
  <2> QED BY <2>1, <2>2, <2>3 DEF Next
<1> QED BY <1>1, <1>2, Invariance, PTL DEF Spec, LogSpec, ImplementsLog

(***************************************************************************)
(* A proposal number stands for at most one request, for any number of     *)
(* competing proposers and whatever the network loses or duplicates.       *)
(***************************************************************************)
THEOREM ChoosesOnce == Spec => []ChosenUnique
BY Refinement, LogChoosesOnce DEF ImplementsLog
=============================================================================
