------------------------- MODULE AccepterLogProofs --------------------------
(***************************************************************************)
(* Proofs about the abstract accepters' log.                               *)
(***************************************************************************)
EXTENDS AccepterLog, FiniteSetTheorems, TLAPS

(***************************************************************************)
(* Two quorums of ceil(0.60 n) accepters overlap: twice the quorum is more *)
(* than n, for every positive number of accepters.                         *)
(***************************************************************************)
LEMMA QuorumMajority ==
    ASSUME NEW n \in Nat, n > 0
    PROVE  Quorum(n) \in Nat /\ 2 * Quorum(n) > n
<1> DEFINE q == (3 * n + 4) \div 5
<1>1. q \in Int /\ 5 * q <= 3 * n + 4 /\ 3 * n + 4 < 5 * q + 5
  OBVIOUS
<1>2. q \in Nat /\ 2 * q > n
  BY <1>1
<1> QED BY <1>2 DEF Quorum

(***************************************************************************)
(* Any two sets of accepters that reach the quorum share an accepter.      *)
(***************************************************************************)
LEMMA QuorumsIntersect ==
    ASSUME NEW S \in SUBSET Accepter, NEW T \in SUBSET Accepter,
           IsQuorum(S, Accepter), IsQuorum(T, Accepter)
    PROVE  \E a \in Accepter : a \in S /\ a \in T
<1> DEFINE n == Cardinality(Accepter)
<1>1. IsFiniteSet(Accepter) /\ IsFiniteSet(S) /\ IsFiniteSet(T)
  BY AccepterAssumption, FS_Subset
<1>2. n \in Nat /\ n > 0
  BY <1>1, AccepterAssumption, FS_EmptySet, FS_CardinalityType
<1>3. Quorum(n) \in Nat /\ 2 * Quorum(n) > n
  BY <1>2, QuorumMajority
<1>4. /\ IsFiniteSet(S \cup T)
      /\ Cardinality(S \cup T)
           = Cardinality(S) + Cardinality(T) - Cardinality(S \cap T)
  BY <1>1, FS_Union
<1>5. S \cup T \subseteq Accepter /\ Cardinality(S \cup T) <= n
  BY <1>1, FS_Subset
<1>6. /\ Cardinality(S) \in Nat /\ Cardinality(T) \in Nat
      /\ Cardinality(S \cap T) \in Nat /\ Cardinality(S \cup T) \in Nat
  BY <1>1, <1>4, FS_CardinalityType, FS_Intersection
<1>7. Cardinality(S) >= Quorum(n) /\ Cardinality(T) >= Quorum(n)
  BY DEF IsQuorum
<1>8. Cardinality(S \cap T) > 0
  <2> HIDE DEF n
  <2> QED BY <1>2, <1>3, <1>4, <1>5, <1>6, <1>7
<1>9. S \cap T # {}
  BY <1>8, FS_EmptySet
<1> QED BY <1>9

(***************************************************************************)
(* At most one request per number reaches a quorum when every accepter     *)
(* accepts at most one.                                                    *)
(***************************************************************************)
LEMMA ChosenFromAccepted == AcceptedOncePerNumber => ChosenUnique
<1> SUFFICES ASSUME AcceptedOncePerNumber,
                    NEW n \in Num, NEW r \in Request, NEW s \in Request,
                    ChosenAt(n, r), ChosenAt(n, s)
             PROVE  r = s
  BY DEF ChosenUnique
<1>1. AcceptersOf(n, r) \subseteq Accepter /\ AcceptersOf(n, s) \subseteq Accepter
  BY DEF AcceptersOf
<1>2. PICK a \in Accepter : a \in AcceptersOf(n, r) /\ a \in AcceptersOf(n, s)
  BY <1>1, QuorumsIntersect DEF ChosenAt
<1>3. /\ [acc |-> a, num |-> n, req |-> r] \in log
      /\ [acc |-> a, num |-> n, req |-> s] \in log
  BY <1>2 DEF AcceptersOf
<1> DEFINE e == [acc |-> a, num |-> n, req |-> r]
           f == [acc |-> a, num |-> n, req |-> s]
<1>4. e.acc = f.acc /\ e.num = f.num => e.req = f.req
  BY <1>3 DEF AcceptedOncePerNumber
<1> QED BY <1>4

\* The log keeps its type, and an accepter one request per number.
LEMMA LogInvariant == LogSpec => [](LogTypeOK /\ AcceptedOncePerNumber)
<1>1. LogInit => LogTypeOK /\ AcceptedOncePerNumber
  BY DEF LogInit, LogTypeOK, AcceptedOncePerNumber
<1>2. LogTypeOK /\ AcceptedOncePerNumber /\ [LogNext]_log
        => (LogTypeOK /\ AcceptedOncePerNumber)'
  <2> SUFFICES ASSUME LogTypeOK, AcceptedOncePerNumber, [LogNext]_log
               PROVE  (LogTypeOK /\ AcceptedOncePerNumber)'
    OBVIOUS
  <2>1. CASE LogNext
    <3>1. PICK a \in Accepter, n \in Num, r \in Request : LogAccept(a, n, r)
      BY <2>1 DEF LogNext
    <3>2. LogTypeOK'
      BY <3>1 DEF LogAccept, LogTypeOK, Acceptance
    <3>3. AcceptedOncePerNumber'
      <4> SUFFICES ASSUME NEW e \in log', NEW f \in log',
                          e.acc = f.acc, e.num = f.num
                   PROVE  e.req = f.req
        BY DEF AcceptedOncePerNumber
      <4> QED BY <3>1, NumAssumption
              DEF LogAccept, LogTypeOK, Acceptance, AcceptedOncePerNumber
    <3> QED BY <3>2, <3>3
  <2>2. CASE UNCHANGED log
    BY <2>2 DEF LogTypeOK, AcceptedOncePerNumber
  <2> QED BY <2>1, <2>2
<1> QED BY <1>1, <1>2, PTL DEF LogSpec

(***************************************************************************)
(* Whatever implements the log chooses at most one request per number.     *)
(***************************************************************************)
THEOREM LogChoosesOnce == LogSpec => []ChosenUnique
BY LogInvariant, ChosenFromAccepted, PTL
=============================================================================
