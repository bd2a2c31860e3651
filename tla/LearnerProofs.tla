---------------------------- MODULE LearnerProofs ---------------------------
(***************************************************************************)
(* Proofs about the learners: what they apply was accepted, and nothing is *)
(* applied twice unless a count started from garbage or a LEARN was        *)
(* duplicated.                                                             *)
(***************************************************************************)
EXTENDS Learner, AccepterLogProofs, SequenceTheorems,
        NaturalsInduction, WellFoundedInduction

\* A step of the log keeps an accepter at one request per number.
LEMMA LogKeeps ==
    ASSUME LogTypeOK, AcceptedOncePerNumber, LogNext
    PROVE  LogTypeOK' /\ AcceptedOncePerNumber' /\ log \subseteq log'
<1>1. PICK a \in Accepter, n \in Num, r \in Request : LogAccept(a, n, r)
  BY DEF LogNext
<1>2. LogTypeOK' /\ log \subseteq log'
  BY <1>1 DEF LogAccept, LogTypeOK, Acceptance
<1>3. AcceptedOncePerNumber'
  <2> SUFFICES ASSUME NEW e \in log', NEW f \in log', e.acc = f.acc, e.num = f.num
               PROVE  e.req = f.req
    BY DEF AcceptedOncePerNumber
  <2> QED
    BY <1>1, NumAssumption DEF LogAccept, LogTypeOK, Acceptance, AcceptedOncePerNumber
<1> QED
  BY <1>2, <1>3

-----------------------------------------------------------------------------
(* What the steps of a learner do to its entries. *)

\* A set of numbers has a least one.
LEMMA LeastNumber ==
    ASSUME NEW S, S \subseteq Nat, S # {}
    PROVE  \E n \in S : \A m \in S : n <= m
<1>1. PICK n \in S : \A m \in S : <<m, n>> \notin OpToRel(<, Nat)
  BY NatLessThanWellFounded, WFMin
<1>2. \A m \in S : ~ (m < n)
  BY <1>1 DEF OpToRel
<1> QED
  BY <1>2

\* ++seen_count stays a size_t and counts up by at most one.
LEMMA BumpBound ==
    ASSUME NEW n \in 0 .. SeenMod - 1
    PROVE  Bump(n) \in 0 .. SeenMod - 1 /\ Bump(n) <= n + 1
<1>1. SeenMod \in Nat \ {0}
  BY LearnerAssumption
<1>2. CASE n + 1 < SeenMod
  <2>1. (n + 1) % SeenMod = n + 1
    BY <1>1, <1>2
  <2> QED
    BY <1>1, <1>2, <2>1 DEF Bump
<1>3. CASE n + 1 = SeenMod
  <2>1. (n + 1) % SeenMod = 0
    BY <1>1, <1>3
  <2> QED
    BY <1>1, <2>1 DEF Bump
<1> QED
  BY <1>1, <1>2, <1>3

\* A LEARN leaves the entries of other numbers alone, and its own entry counts
\* one more: the one that was there, or a new one.
LEMMA ReceiveDoes ==
    ASSUME TypeOK, Heard, NEW h \in Host, NEW e \in log, Receive(h, e)
    PROVE  /\ Duplicates \/ e \notin got[h]
           /\ received[h] < MaxReceive
           /\ received' = [received EXCEPT ![h] = received[h] + 1]
           /\ got' = [got EXCEPT ![h] = got[h] \cup {e}]
           /\ UNCHANGED <<log, applied, answered>>
           /\ \E y \in Entry :
                 /\ y.num = e.num
                 /\ pending' = [pending EXCEPT ![h] =
                        (pending[h] \ Find(pending[h], e.num)) \cup {y}]
                 /\ \/ \E x \in pending[h] :
                          /\ x.num = y.num /\ x.req = y.req /\ x.start = y.start
                          /\ y.seen <= x.seen + 1
                    \/ Find(pending[h], e.num) = {} /\ y.req = e.req
                       /\ (y.start = 0 => y.seen <= 1)
<1> DEFINE now == received[h] + 1
           old == Find(pending[h], e.num)
           fresh == {[num |-> e.num, req |-> e.req, seen |-> g, start |-> g,
                      last_seen |-> now] : g \in InitSeen}
<1>1. /\ received[h] < MaxReceive
      /\ Duplicates \/ e \notin got[h]
      /\ received' = [received EXCEPT ![h] = now]
      /\ got' = [got EXCEPT ![h] = got[h] \cup {e}]
      /\ UNCHANGED <<log, applied, answered>>
  BY DEF Receive
<1>2. PICK x \in IF old # {} THEN old ELSE fresh :
         pending' = [pending EXCEPT ![h] =
            (pending[h] \ old) \cup {[x EXCEPT !.seen = Bump(x.seen), !.last_seen = now]}]
  BY DEF Receive
<1>3. /\ now \in 1 .. MaxReceive
      /\ e.num \in Num /\ e.req \in Request
      /\ pending[h] \subseteq Entry
      /\ InitSeen \subseteq 0 .. SeenMod - 1
  BY <1>1, LearnerAssumption DEF TypeOK, LogTypeOK, Acceptance
<1> DEFINE y == [x EXCEPT !.seen = Bump(x.seen), !.last_seen = now]
<1> HIDE DEF now
<1>4. CASE old # {}
  <2>1. x \in pending[h] /\ x.num = e.num /\ x \in Entry
    BY <1>2, <1>3, <1>4 DEF Find
  <2>2. Bump(x.seen) \in 0 .. SeenMod - 1 /\ Bump(x.seen) <= x.seen + 1
    BY <2>1, BumpBound DEF Entry
  <2>3. y \in Entry /\ y.num = x.num /\ y.req = x.req /\ y.start = x.start /\ y.seen = Bump(x.seen)
    BY <1>3, <2>1, <2>2 DEF Entry
  <2> HIDE DEF y, old
  <2>4. pending' = [pending EXCEPT ![h] = (pending[h] \ old) \cup {y}]
    BY <1>2 DEF y
  <2>5. y.num = e.num
    BY <2>1, <2>3
  <2>6. \E z \in pending[h] : /\ z.num = y.num /\ z.req = y.req /\ z.start = y.start
                              /\ y.seen <= z.seen + 1
    BY <2>1, <2>2, <2>3
  <2> QED
    BY <1>1, <2>3, <2>4, <2>5, <2>6 DEF old, now
<1>5. CASE old = {}
  <2>1. PICK g \in InitSeen : x = [num |-> e.num, req |-> e.req, seen |-> g, start |-> g,
                                   last_seen |-> now]
    BY <1>2, <1>5
  <2>2. Bump(g) \in 0 .. SeenMod - 1 /\ Bump(g) <= g + 1
    BY <1>3, BumpBound
  <2>3. x \in Entry /\ x.num = e.num /\ x.req = e.req /\ x.start = g /\ x.seen = g
    BY <1>3, <2>1 DEF Entry
  <2>4. /\ y \in Entry /\ y.num = e.num /\ y.req = e.req
        /\ y.start = 0 => y.seen <= 1
    <3>1. Bump(x.seen) \in 0 .. SeenMod - 1 /\ Bump(x.seen) <= x.seen + 1
      BY <2>2, <2>3
    <3>2. /\ y \in Entry /\ y.num = x.num /\ y.req = x.req /\ y.start = x.start
          /\ y.seen = Bump(x.seen)
      BY <1>3, <2>3, <3>1 DEF Entry
    <3> HIDE DEF y
    <3> QED
      BY <2>3, <3>1, <3>2
  <2> HIDE DEF y, old
  <2>5. pending' = [pending EXCEPT ![h] = (pending[h] \ old) \cup {y}]
    BY <1>2 DEF y
  <2> QED
    BY <1>1, <1>5, <2>4, <2>5 DEF old, now
<1> QED
  BY <1>4, <1>5

\* The rest of event_task keeps some of the entries, and applies at most one of
\* the others, which is complete.
LEMMA FinishDoes ==
    ASSUME TypeOK, NEW h \in Host, NEW t, Finish(h, t)
    PROVE  /\ UNCHANGED <<log, got, received>>
           /\ \E s \in SUBSET pending[h] :
                 /\ pending' = [pending EXCEPT ![h] = s]
                 /\ \/ UNCHANGED <<applied, answered>>
                    \/ \E x \in pending[h] \ s :
                          /\ Complete(x)
                          /\ applied' = [applied EXCEPT ![h] = Append(applied[h],
                                [num |-> x.num, req |-> x.req, start |-> x.start])]
                          /\ answered' \in {answered, answered \cup {x.req}}
<1> DEFINE s == Cleanup(pending[h], t)
           x == First(s)
<1>1. s \subseteq pending[h] /\ UNCHANGED <<log, got, received>>
  BY DEF Cleanup, Finish
<1>2. CASE s # {} /\ Complete(x)
  <2>1. /\ pending' = [pending EXCEPT ![h] = s \ {x}]
        /\ applied' = [applied EXCEPT ![h] = Append(applied[h],
              [num |-> x.num, req |-> x.req, start |-> x.start])]
        /\ answered' = IF Home[x.req] = h THEN answered \cup {x.req} ELSE answered
    BY <1>2 DEF Finish
  <2>2. x \in s
    <3>1. s \subseteq Entry
      BY <1>1 DEF TypeOK
    <3>2. \E y \in s : \A z \in s : y.num <= z.num
      <4> DEFINE N == {y.num : y \in s}
      <4>1. N \subseteq Nat /\ N # {}
        BY <1>2, <3>1, NumAssumption DEF Entry
      <4>2. \E n \in N : \A m \in N : n <= m
        <5> HIDE DEF N
        <5> QED BY <4>1, LeastNumber
      <4> QED
        BY <4>2
    <3> HIDE DEF s
    <3> QED
      BY <3>2 DEF First
  <2> HIDE DEF x, s
  <2>3. s \ {x} \in SUBSET pending[h] /\ x \in pending[h] \ (s \ {x})
    BY <1>1, <2>2
  <2>4. answered' \in {answered, answered \cup {x.req}}
    BY <2>1
  <2> QED
    BY <1>1, <1>2, <2>1, <2>3, <2>4
<1>3. CASE ~(s # {} /\ Complete(x))
  <2>1. pending' = [pending EXCEPT ![h] = s] /\ UNCHANGED <<applied, answered>>
    BY <1>3 DEF Finish
  <2> HIDE DEF x, s
  <2> QED
    BY <1>1, <2>1
<1> QED
  BY <1>2, <1>3

-----------------------------------------------------------------------------
(* The invariant, whether or not LEARNs are duplicated. *)

LEMMA InitInv == Init => CountInv
<1> SUFFICES ASSUME Init PROVE CountInv
  OBVIOUS
<1>1. TypeOK
  BY LearnerAssumption, EmptySeq DEF Init, LogInit, TypeOK, LogTypeOK
<1>2. AcceptedOncePerNumber /\ Heard /\ Counted /\ AppliedOncePerNumber
  BY DEF Init, LogInit, AcceptedOncePerNumber, Heard, Counted, AppliedOncePerNumber, Find
<1> QED
  BY <1>1, <1>2 DEF Inv, CountInv

LEMMA ReceiveKeeps ==
    ASSUME Inv, NEW h \in Host, NEW e \in log, Receive(h, e)
    PROVE  Inv'
<1>1. TypeOK /\ AcceptedOncePerNumber /\ Heard
  BY DEF Inv
<1>2. /\ received[h] < MaxReceive
      /\ received' = [received EXCEPT ![h] = received[h] + 1]
      /\ got' = [got EXCEPT ![h] = got[h] \cup {e}]
      /\ UNCHANGED <<log, applied, answered>>
  BY <1>1, ReceiveDoes
<1>3. PICK y \in Entry :
         /\ y.num = e.num
         /\ pending' = [pending EXCEPT ![h] =
                (pending[h] \ Find(pending[h], e.num)) \cup {y}]
         /\ \/ \E x \in pending[h] :
                  /\ x.num = y.num /\ x.req = y.req /\ x.start = y.start
                  /\ y.seen <= x.seen + 1
            \/ Find(pending[h], e.num) = {} /\ y.req = e.req
               /\ (y.start = 0 => y.seen <= 1)
  BY <1>1, ReceiveDoes
<1>4. TypeOK'
  <2>1. LogTypeOK' /\ e \in Acceptance
    BY <1>1, <1>2 DEF TypeOK, LogTypeOK
  <2>2. pending' \in [Host -> SUBSET Entry]
    BY <1>1, <1>3 DEF TypeOK
  <2>3. got' \in [Host -> SUBSET Acceptance] /\ received' \in [Host -> 0 .. MaxReceive]
    BY <1>1, <1>2, <2>1, LearnerAssumption DEF TypeOK
  <2> QED
    BY <1>1, <1>2, <2>1, <2>2, <2>3 DEF TypeOK
<1>5. AcceptedOncePerNumber'
  BY <1>1, <1>2 DEF AcceptedOncePerNumber
<1>6. Heard'
  <2>1. \A g \in Host : got[g] \subseteq got'[g] /\ got'[g] \subseteq log'
    BY <1>1, <1>2 DEF TypeOK, Heard
  <2>2. ASSUME NEW g \in Host, NEW x \in pending'[g]
        PROVE  \E f \in got'[g] : f.num = x.num /\ f.req = x.req
    <3>1. CASE x \in pending[g]
      BY <1>1, <2>1, <3>1 DEF Heard, LearnsOf
    <3>2. CASE x \notin pending[g]
      <4>1. g = h /\ x = y
        BY <1>1, <1>3, <2>2, <3>2 DEF TypeOK
      <4>2. e \in got'[h]
        BY <1>1, <1>2 DEF TypeOK
      <4>3. ASSUME NEW z \in pending[h], z.num = y.num, z.req = y.req
            PROVE  \E f \in got'[g] : f.num = x.num /\ f.req = x.req
        BY <1>1, <2>1, <4>1, <4>3 DEF Heard, LearnsOf
      <4> QED
        BY <1>3, <4>1, <4>2, <4>3
    <3> QED
      BY <3>1, <3>2
  <2>3. ASSUME NEW g \in Host, NEW x \in pending'[g], NEW z \in pending'[g], x.num = z.num
        PROVE  x = z
    BY <1>1, <1>3, <2>3 DEF TypeOK, Heard, Find
  <2>4. ASSUME NEW g \in Host, NEW i \in DOMAIN applied'[g]
        PROVE  \E f \in got'[g] : f.num = applied'[g][i].num /\ f.req = applied'[g][i].req
    BY <1>1, <1>2, <2>1, <2>4 DEF Heard, LearnsOf
  <2> QED
    BY <2>1, <2>2, <2>3, <2>4 DEF Heard, LearnsOf
<1> QED
  BY <1>4, <1>5, <1>6 DEF Inv

LEMMA FinishKeeps ==
    ASSUME Inv, NEW h \in Host, NEW t, Finish(h, t)
    PROVE  Inv'
<1>1. TypeOK /\ AcceptedOncePerNumber /\ Heard
  BY DEF Inv
<1>2. UNCHANGED <<log, got, received>>
  BY <1>1, FinishDoes
<1>3. PICK s \in SUBSET pending[h] :
         /\ pending' = [pending EXCEPT ![h] = s]
         /\ \/ UNCHANGED <<applied, answered>>
            \/ \E x \in pending[h] \ s :
                  /\ Complete(x)
                  /\ applied' = [applied EXCEPT ![h] = Append(applied[h],
                        [num |-> x.num, req |-> x.req, start |-> x.start])]
                  /\ answered' \in {answered, answered \cup {x.req}}
  BY <1>1, FinishDoes
<1>4. /\ pending' \in [Host -> SUBSET Entry]
      /\ \A g \in Host : pending'[g] \subseteq pending[g]
  BY <1>1, <1>3 DEF TypeOK
<1>5. ASSUME NEW x \in pending[h],
             applied' = [applied EXCEPT ![h] = Append(applied[h],
                            [num |-> x.num, req |-> x.req, start |-> x.start])],
             answered' \in {answered, answered \cup {x.req}}
      PROVE  Inv'
  <2> DEFINE a == [num |-> x.num, req |-> x.req, start |-> x.start]
             A == [num : Num, req : Request, start : InitSeen]
  <2>1. x \in Entry /\ a \in A /\ x.req \in Request /\ a.num = x.num /\ a.req = x.req
    BY <1>1 DEF TypeOK, Entry
  <2> HIDE DEF a, A
  <2>2. applied \in [Host -> Seq(A)] /\ applied' = [applied EXCEPT ![h] = Append(applied[h], a)]
    BY <1>1, <1>5 DEF TypeOK, a, A
  <2>3. /\ applied' \in [Host -> Seq(A)]
        /\ \A g \in Host : \A i \in DOMAIN applied'[g] :
              \/ i \in DOMAIN applied[g] /\ applied'[g][i] = applied[g][i]
              \/ g = h /\ applied'[g][i] = a
    BY <2>1, <2>2, AppendProperties
  <2>4. TypeOK'
    <3>1. answered' \subseteq Request
      BY <1>1, <1>5, <2>1 DEF TypeOK
    <3> QED
      BY <1>1, <1>2, <1>4, <2>3, <3>1 DEF TypeOK, LogTypeOK, A
  <2>5. Heard'
    <3>1. ASSUME NEW g \in Host, NEW i \in DOMAIN applied'[g]
          PROVE  \E f \in got[g] : f.num = applied'[g][i].num /\ f.req = applied'[g][i].req
      <4>1. CASE i \in DOMAIN applied[g] /\ applied'[g][i] = applied[g][i]
        BY <1>1, <4>1 DEF Heard, LearnsOf
      <4>2. CASE g = h /\ applied'[g][i] = a
        BY <1>1, <2>1, <4>2 DEF Heard, LearnsOf
      <4> QED
        BY <2>3, <4>1, <4>2
    <3> QED
      BY <1>1, <1>2, <1>4, <3>1 DEF Heard, LearnsOf
  <2> QED
    BY <1>1, <1>2, <2>4, <2>5 DEF Inv, AcceptedOncePerNumber
<1>6. CASE UNCHANGED <<applied, answered>>
  <2>1. TypeOK'
    BY <1>1, <1>2, <1>4, <1>6 DEF TypeOK, LogTypeOK
  <2>2. Heard'
    BY <1>1, <1>2, <1>4, <1>6 DEF Heard, LearnsOf
  <2>3. AcceptedOncePerNumber'
    BY <1>1, <1>2 DEF AcceptedOncePerNumber
  <2> QED
    BY <2>1, <2>2, <2>3 DEF Inv
<1> QED
  BY <1>3, <1>5, <1>6

LEMMA NextInv == Inv /\ [Next]_vars => Inv'
<1> SUFFICES ASSUME Inv, [Next]_vars PROVE Inv'
  OBVIOUS
<1>1. CASE LogNext /\ UNCHANGED lvars
  <2>1. LogTypeOK' /\ AcceptedOncePerNumber' /\ log \subseteq log'
    BY <1>1, LogKeeps DEF Inv, TypeOK
  <2>2. TypeOK'
    BY <1>1, <2>1 DEF Inv, TypeOK, lvars
  <2>3. Heard'
    BY <1>1, <2>1 DEF Inv, Heard, LearnsOf, lvars
  <2> QED
    BY <2>1, <2>2, <2>3 DEF Inv
<1>2. ASSUME NEW h \in Host, NEW e \in log, Receive(h, e) PROVE Inv'
  BY <1>2, ReceiveKeeps
<1>3. ASSUME NEW h \in Host, NEW t, Finish(h, t) PROVE Inv'
  BY <1>3, FinishKeeps
<1>4. CASE UNCHANGED vars
  <2>1. TypeOK'
    BY <1>4 DEF Inv, TypeOK, LogTypeOK, vars, lvars
  <2>2. Heard'
    BY <1>4 DEF Inv, Heard, LearnsOf, vars, lvars
  <2>3. AcceptedOncePerNumber'
    BY <1>4 DEF Inv, AcceptedOncePerNumber, vars
  <2> QED
    BY <2>1, <2>2, <2>3 DEF Inv
<1> QED
  BY <1>1, <1>2, <1>3, <1>4 DEF Next, LearnerStep

-----------------------------------------------------------------------------
(* Counting *)

\* The accepters that accepted something under number n.
Accepted(n) == {b \in Accepter : \E r \in Request : b \in AcceptersOf(n, r)}

\* A learner hears of a number from each accepter at most once.
LEMMA LearnsBound ==
    ASSUME LogTypeOK, AcceptedOncePerNumber,
           NEW h \in Host, got[h] \subseteq log, NEW n
    PROVE  /\ IsFiniteSet(LearnsOf(h, n))
           /\ Cardinality(LearnsOf(h, n)) \in Nat
           /\ Cardinality(LearnsOf(h, n)) <= Cardinality(Accepted(n))
           /\ Cardinality(Accepted(n)) \in Nat
           /\ Cardinality(Accepted(n)) <= Cardinality(Accepter)
<1> DEFINE L == LearnsOf(h, n)
           B == Accepted(n)
           f == [e \in L |-> e.acc]
<1>1. /\ IsFiniteSet(B) /\ Cardinality(B) <= Cardinality(Accepter)
      /\ Cardinality(B) \in Nat
  <2>1. B \subseteq Accepter /\ IsFiniteSet(Accepter)
    BY AccepterAssumption DEF Accepted
  <2> HIDE DEF B
  <2> QED
    BY <2>1, FS_Subset, FS_CardinalityType
<1>2. ASSUME NEW e \in L
      PROVE  e \in Acceptance /\ e \in log /\ e.num = n /\ e.acc \in B
  <2>1. e \in log /\ e.num = n /\ e \in Acceptance
    BY DEF LearnsOf, LogTypeOK
  <2>2. e = [acc |-> e.acc, num |-> n, req |-> e.req] /\ e.acc \in Accepter /\ e.req \in Request
    BY <2>1 DEF Acceptance
  <2> QED
    BY <2>1, <2>2 DEF Accepted, AcceptersOf
<1>3. ASSUME NEW e \in L, NEW g \in L, e.acc = g.acc
      PROVE  e = g
  <2>1. e.req = g.req
    BY <1>2, <1>3 DEF AcceptedOncePerNumber
  <2> QED
    BY <1>2, <1>3, <2>1 DEF Acceptance
<1> HIDE DEF L, B
<1>4. f \in Injection(L, B)
  BY <1>2, <1>3 DEF Injection, IsInjective
<1>5. IsFiniteSet(L) /\ Cardinality(L) <= Cardinality(B)
  <2> HIDE DEF f
  <2> QED
    BY <1>1, <1>4, FS_Injection
<1> QED
  BY <1>1, <1>5, FS_CardinalityType DEF L, B

\* More than half of the accepters are needed, so their count is reached once.
LEMMA NeededTwice ==
    Needed \in Nat /\ Cardinality(Accepter) \in Nat /\ 2 * Needed > Cardinality(Accepter)
<1>1. Cardinality(Accepter) \in Nat /\ Cardinality(Accepter) > 0
  BY AccepterAssumption, FS_EmptySet, FS_CardinalityType
<1> QED
  BY <1>1, QuorumMajority DEF Needed

\* A LEARN that is no duplicate adds one to what was heard of its number.
LEMMA ReceiveCounts ==
    ASSUME ~Duplicates, CountInv, NEW h \in Host, NEW e \in log, Receive(h, e)
    PROVE  Counted' /\ AppliedOncePerNumber'
<1>1. TypeOK /\ AcceptedOncePerNumber /\ Heard /\ Counted /\ AppliedOncePerNumber /\ LogTypeOK
  BY DEF CountInv, Inv, TypeOK
<1>2. /\ e \notin got[h]
      /\ got' = [got EXCEPT ![h] = got[h] \cup {e}]
      /\ applied' = applied
  BY <1>1, ReceiveDoes
<1>3. PICK y \in Entry :
         /\ y.num = e.num
         /\ pending' = [pending EXCEPT ![h] =
                (pending[h] \ Find(pending[h], e.num)) \cup {y}]
         /\ \/ \E x \in pending[h] :
                  /\ x.num = y.num /\ x.req = y.req /\ x.start = y.start
                  /\ y.seen <= x.seen + 1
            \/ Find(pending[h], e.num) = {} /\ y.req = e.req
               /\ (y.start = 0 => y.seen <= 1)
  BY <1>1, ReceiveDoes
<1> DEFINE C(g, n) == Cardinality(LearnsOf(g, n))
           D(g, n) == Cardinality({f \in got'[g] : f.num = n})
<1>4. ASSUME NEW g \in Host, NEW n
      PROVE  /\ C(g, n) \in Nat /\ D(g, n) \in Nat /\ D(g, n) >= C(g, n)
             /\ g = h /\ n = e.num => D(g, n) = C(g, n) + 1
  <2>1. IsFiniteSet(LearnsOf(g, n)) /\ C(g, n) \in Nat
    BY <1>1, LearnsBound DEF Heard
  <2>2. CASE g = h /\ n = e.num
    <3>1. {f \in got'[g] : f.num = n} = LearnsOf(g, n) \cup {e}
      BY <1>1, <1>2, <2>2 DEF TypeOK, LearnsOf
    <3>2. e \notin LearnsOf(g, n)
      BY <1>2, <2>2 DEF LearnsOf
    <3>3. Cardinality(LearnsOf(g, n) \cup {e}) = Cardinality(LearnsOf(g, n)) + 1
      BY <2>1, <3>2, FS_AddElement
    <3> QED
      BY <2>1, <3>1, <3>3
  <2>3. CASE ~(g = h /\ n = e.num)
    <3>1. {f \in got'[g] : f.num = n} = LearnsOf(g, n)
      BY <1>1, <1>2, <2>3 DEF TypeOK, LearnsOf
    <3> QED
      BY <2>1, <2>3, <3>1
  <2> QED
    BY <2>2, <2>3
<1>5. Needed \in Nat
  BY NeededTwice
<1>6. /\ \A g \in Host : \A x \in pending[g] :
           x.seen \in Nat /\ (x.start = 0 => x.seen <= C(g, x.num))
      /\ \A g \in Host : \A i \in DOMAIN applied[g] : applied[g][i].start = 0 =>
            /\ Needed <= C(g, applied[g][i].num)
            /\ \A x \in pending[g] : x.num = applied[g][i].num /\ x.start = 0 =>
                  Needed + x.seen <= C(g, x.num)
  BY <1>1, LearnerAssumption DEF TypeOK, Entry, Counted, Find
<1>7. y.seen \in Nat
  BY LearnerAssumption DEF Entry
<1> HIDE DEF C, D
<1>8. ASSUME NEW g \in Host, NEW x \in pending'[g], x.start = 0
      PROVE  /\ x.seen <= D(g, x.num)
             /\ \A i \in DOMAIN applied[g] :
                   applied[g][i].start = 0 /\ x.num = applied[g][i].num =>
                       Needed + x.seen <= D(g, x.num)
  <2>1. CASE x \in pending[g]
    <3>1. /\ x.seen <= C(g, x.num) /\ x.seen \in Nat
          /\ C(g, x.num) \in Nat /\ D(g, x.num) \in Nat /\ D(g, x.num) >= C(g, x.num)
      BY <1>4, <1>6, <1>8, <2>1
    <3>2. \A i \in DOMAIN applied[g] :
             applied[g][i].start = 0 /\ x.num = applied[g][i].num =>
                 Needed + x.seen <= C(g, x.num)
      BY <1>6, <1>8, <2>1
    <3> QED
      BY <1>5, <3>1, <3>2
  <2>2. CASE x \notin pending[g]
    <3>1. g = h /\ x = y
      BY <1>1, <1>3, <1>8, <2>2 DEF TypeOK
    <3>2. /\ C(h, y.num) \in Nat /\ D(h, y.num) = C(h, y.num) + 1
      BY <1>3, <1>4
    <3>3. ASSUME NEW z \in pending[h], z.num = y.num, z.start = y.start, y.seen <= z.seen + 1
          PROVE  /\ y.seen <= D(h, y.num)
                 /\ \A i \in DOMAIN applied[h] :
                       applied[h][i].start = 0 /\ y.num = applied[h][i].num =>
                           Needed + y.seen <= D(h, y.num)
      <4>1. z.seen <= C(h, y.num) /\ z.seen \in Nat
        BY <1>6, <1>8, <3>1, <3>3
      <4>2. \A i \in DOMAIN applied[h] :
               applied[h][i].start = 0 /\ y.num = applied[h][i].num =>
                   Needed + z.seen <= C(h, y.num)
        BY <1>6, <1>8, <3>1, <3>3
      <4> QED
        BY <1>5, <1>7, <3>2, <3>3, <4>1, <4>2
    <3>4. CASE y.start = 0 => y.seen <= 1
      <4>1. y.seen <= 1
        BY <1>8, <3>1, <3>4
      <4>2. \A i \in DOMAIN applied[h] : applied[h][i].start = 0 /\ y.num = applied[h][i].num =>
               Needed <= C(h, y.num)
        BY <1>6
      <4> QED
        BY <1>5, <1>7, <3>1, <3>2, <4>1, <4>2
    <3> QED
      BY <1>3, <3>1, <3>3, <3>4
  <2> QED
    BY <2>1, <2>2
<1>9. \A g \in Host : \A i \in DOMAIN applied[g] : applied[g][i].start = 0 =>
         Needed <= D(g, applied[g][i].num)
  BY <1>4, <1>5, <1>6
<1>10. Counted'
  BY <1>2, <1>8, <1>9 DEF Counted, Find, LearnsOf, D, Needed
<1>11. AppliedOncePerNumber'
  BY <1>1, <1>2 DEF AppliedOncePerNumber
<1> QED
  BY <1>10, <1>11

\* A complete entry is applied: no entry before it was for its number, since
\* the two would have counted more LEARNs than there are accepters.
LEMMA FinishCounts ==
    ASSUME CountInv, NEW h \in Host, NEW t, Finish(h, t)
    PROVE  Counted' /\ AppliedOncePerNumber'
<1>1. TypeOK /\ AcceptedOncePerNumber /\ Heard /\ Counted /\ AppliedOncePerNumber /\ LogTypeOK
  BY DEF CountInv, Inv, TypeOK
<1>2. got' = got
  BY <1>1, FinishDoes
<1>3. PICK s \in SUBSET pending[h] :
         /\ pending' = [pending EXCEPT ![h] = s]
         /\ \/ UNCHANGED <<applied, answered>>
            \/ \E x \in pending[h] \ s :
                  /\ Complete(x)
                  /\ applied' = [applied EXCEPT ![h] = Append(applied[h],
                        [num |-> x.num, req |-> x.req, start |-> x.start])]
                  /\ answered' \in {answered, answered \cup {x.req}}
  BY <1>1, FinishDoes
<1>4. \A g \in Host : pending'[g] \subseteq pending[g]
  BY <1>1, <1>3 DEF TypeOK
<1>5. CASE UNCHANGED <<applied, answered>>
  <2>1. applied' = applied
    BY <1>5
  <2>2. AppliedOncePerNumber'
    BY <1>1, <2>1 DEF AppliedOncePerNumber
  <2>3. \A g \in Host : \A n : LearnsOf(g, n)' = LearnsOf(g, n)
    BY <1>2 DEF LearnsOf
  <2>4. \A g \in Host : \A n : (Find(pending[g], n))' \subseteq Find(pending[g], n)
    BY <1>4 DEF Find
  <2>5. Needed' = Needed
    BY DEF Needed
  <2>6. Counted'
    BY <1>1, <1>4, <2>1, <2>3, <2>4, <2>5 DEF Counted
  <2> QED
    BY <2>2, <2>6
<1>6. ASSUME NEW x \in pending[h] \ s, Complete(x),
             applied' = [applied EXCEPT ![h] = Append(applied[h],
                            [num |-> x.num, req |-> x.req, start |-> x.start])]
      PROVE  Counted' /\ AppliedOncePerNumber'
  <2> DEFINE a == [num |-> x.num, req |-> x.req, start |-> x.start]
             A == [num : Num, req : Request, start : InitSeen]
             C(g, n) == Cardinality(LearnsOf(g, n))
             N == Len(applied[h])
  <2>1. /\ x \in Entry /\ a \in A /\ a.num = x.num /\ a.start = x.start /\ x.num \in Num
        /\ x.seen \in Nat /\ x.seen >= Needed
    BY <1>1, <1>6, LearnerAssumption DEF TypeOK, Entry, Complete
  <2> HIDE DEF a, A
  <2>2. applied \in [Host -> Seq(A)] /\ applied' = [applied EXCEPT ![h] = Append(applied[h], a)]
    BY <1>1, <1>6 DEF TypeOK, a, A
  <2>3. /\ \A g \in Host : \A i \in DOMAIN applied'[g] :
              \/ i \in DOMAIN applied[g] /\ applied'[g][i] = applied[g][i]
              \/ g = h /\ i = N + 1 /\ applied'[g][i] = a
        /\ DOMAIN applied[h] = 1..N /\ N \in Nat
    BY <2>1, <2>2, AppendProperties
  <2>4. /\ Needed \in Nat /\ Cardinality(Accepter) \in Nat
        /\ 2 * Needed > Cardinality(Accepter)
    BY NeededTwice
  <2>5. /\ C(h, x.num) \in Nat /\ C(h, x.num) <= Cardinality(Accepter)
    <3>1. /\ Cardinality(LearnsOf(h, x.num)) \in Nat
          /\ Cardinality(LearnsOf(h, x.num)) <= Cardinality(Accepted(x.num))
          /\ Cardinality(Accepted(x.num)) \in Nat
          /\ Cardinality(Accepted(x.num)) <= Cardinality(Accepter)
      BY <1>1, LearnsBound DEF Heard
    <3> QED
      BY <2>4, <3>1
  <2>6. x.start = 0 => x.seen <= C(h, x.num)
    BY <1>1 DEF Counted
  <2>7. ASSUME NEW i \in DOMAIN applied[h], applied[h][i].start = 0,
               applied[h][i].num = x.num, x.start = 0
        PROVE  FALSE
    <3>1. Needed + x.seen <= C(h, x.num)
      BY <1>1, <2>7 DEF Counted, Find
    <3> HIDE DEF C
    <3> QED
      BY <2>1, <2>4, <2>5, <3>1
  <2>8. x.start = 0 => Needed <= C(h, x.num)
    <3> HIDE DEF C
    <3> QED
      BY <2>1, <2>4, <2>5, <2>6
  <2>9. \A z \in pending'[h] : z.num # x.num
    BY <1>1, <1>3, <1>6 DEF Heard, TypeOK
  <2> HIDE DEF N
  <2>10. ASSUME NEW g \in Host, NEW i \in DOMAIN applied'[g], applied'[g][i].start = 0
         PROVE  /\ Needed <= C(g, applied'[g][i].num)
                /\ \A z \in pending'[g] : z.num = applied'[g][i].num /\ z.start = 0 =>
                      Needed + z.seen <= C(g, z.num)
    <3>1. CASE i \in DOMAIN applied[g] /\ applied'[g][i] = applied[g][i]
      BY <1>1, <1>4, <2>10, <3>1 DEF Counted, Find
    <3>2. CASE g = h /\ applied'[g][i] = a
      BY <2>1, <2>8, <2>9, <2>10, <3>2
    <3> QED
      BY <2>3, <3>1, <3>2
  <2>11. \A g \in Host : \A z \in pending'[g] : z.start = 0 => z.seen <= C(g, z.num)
    BY <1>1, <1>4 DEF Counted
  <2>12. Counted'
    BY <1>2, <2>10, <2>11 DEF Counted, LearnsOf, Find, Needed
  <2>13. AppliedOncePerNumber'
    <3> SUFFICES ASSUME NEW g \in Host, NEW i \in DOMAIN applied'[g], NEW j \in DOMAIN applied'[g],
                        applied'[g][i].num = applied'[g][j].num,
                        applied'[g][i].start = 0, applied'[g][j].start = 0
                 PROVE  i = j
      BY DEF AppliedOncePerNumber
    <3>1. CASE /\ i \in DOMAIN applied[g] /\ applied'[g][i] = applied[g][i]
               /\ j \in DOMAIN applied[g] /\ applied'[g][j] = applied[g][j]
      BY <1>1, <3>1 DEF AppliedOncePerNumber
    <3>2. CASE g = h /\ i = N + 1 /\ j = N + 1
      BY <3>2
    <3>3. CASE /\ i \in DOMAIN applied[g] /\ applied'[g][i] = applied[g][i]
               /\ g = h /\ applied'[g][j] = a
      BY <2>1, <2>7, <3>3
    <3>4. CASE /\ j \in DOMAIN applied[g] /\ applied'[g][j] = applied[g][j]
               /\ g = h /\ applied'[g][i] = a
      BY <2>1, <2>7, <3>4
    <3> QED
      BY <2>3, <3>1, <3>2, <3>3, <3>4
  <2> QED
    BY <2>12, <2>13
<1> QED
  BY <1>3, <1>5, <1>6

LEMMA NextCounts ==
    ASSUME ~Duplicates
    PROVE  CountInv /\ [Next]_vars => CountInv'
<1> SUFFICES ASSUME CountInv, [Next]_vars PROVE Counted' /\ AppliedOncePerNumber'
  BY NextInv DEF CountInv
<1>1. ASSUME UNCHANGED lvars PROVE Counted' /\ AppliedOncePerNumber'
  BY <1>1 DEF CountInv, Counted, AppliedOncePerNumber, LearnsOf, Find, Needed, lvars
<1>2. ASSUME NEW h \in Host, NEW e \in log, Receive(h, e)
      PROVE  Counted' /\ AppliedOncePerNumber'
  BY <1>2, ReceiveCounts
<1>3. ASSUME NEW h \in Host, NEW t, Finish(h, t)
      PROVE  Counted' /\ AppliedOncePerNumber'
  BY <1>3, FinishCounts
<1> QED
  BY <1>1, <1>2, <1>3 DEF Next, LearnerStep, vars

-----------------------------------------------------------------------------
(***************************************************************************)
(* Whether or not datagrams are duplicated, and whatever a count started   *)
(* from, a learner has one entry per number in pending_learned_requests,   *)
(* and what it has or applied came with a LEARN that an accepter sent.     *)
(***************************************************************************)
THEOREM Invariance == Spec => []Inv
<1>1. Init => Inv
  BY InitInv DEF CountInv
<1> QED
  BY <1>1, NextInv, PTL DEF Spec

(***************************************************************************)
(* On a network that duplicates nothing, learn() runs at most once for a   *)
(* number among the entries whose count started at zero, for every number  *)
(* of accepters and learners: LEARNs that come late, entries that expired  *)
(* and counts that wrap around do not make it run again.                   *)
(***************************************************************************)
THEOREM AppliesOnce ==
    ASSUME ~Duplicates
    PROVE  Spec => []AppliedOncePerNumber
<1>1. CountInv => AppliedOncePerNumber
  BY DEF CountInv
<1> QED
  BY <1>1, InitInv, NextCounts, PTL DEF Spec

\* What was applied was accepted under its number (Learner::event_task counts
\* the LEARNs of accepters, by number).
LEMMA AcceptedFromCount ==
    ASSUME Inv, ~Duplicates => Counted
    PROVE  AppliedIsAccepted
<1> SUFFICES ASSUME NEW h \in Host, NEW i \in DOMAIN applied[h]
             PROVE  /\ AcceptersOf(applied[h][i].num, applied[h][i].req) # {}
                    /\ applied[h][i].start = 0 /\ ~Duplicates =>
                          IsQuorum(Accepted(applied[h][i].num), Accepter)
  BY DEF AppliedIsAccepted, Accepted
<1> DEFINE a == applied[h][i]
<1>1. LogTypeOK /\ AcceptedOncePerNumber /\ got[h] \subseteq log
  BY DEF Inv, TypeOK, Heard
<1>2. AcceptersOf(a.num, a.req) # {}
  <2>1. PICK e \in got[h] : e.num = a.num /\ e.req = a.req
    BY DEF Inv, Heard, LearnsOf
  <2>2. /\ e \in log /\ e.acc \in Accepter
        /\ e = [acc |-> e.acc, num |-> a.num, req |-> a.req]
    BY <1>1, <2>1 DEF LogTypeOK, Acceptance
  <2> QED
    BY <2>2 DEF AcceptersOf
<1>3. ASSUME a.start = 0, ~Duplicates
      PROVE  IsQuorum(Accepted(a.num), Accepter)
  <2>1. Needed <= Cardinality(LearnsOf(h, a.num))
    BY <1>3 DEF Counted
  <2>2. /\ Cardinality(LearnsOf(h, a.num)) \in Nat
        /\ Cardinality(LearnsOf(h, a.num)) <= Cardinality(Accepted(a.num))
        /\ Cardinality(Accepted(a.num)) \in Nat
    BY <1>1, LearnsBound
  <2>3. Needed \in Nat
    BY NeededTwice
  <2>4. Cardinality(Accepted(a.num)) >= Needed
    BY <2>1, <2>2, <2>3
  <2> QED
    BY <2>4 DEF IsQuorum, Needed
<1> QED
  BY <1>2, <1>3

(***************************************************************************)
(* A learner applies nothing that no accepter accepted under its number,   *)
(* and what it counted from zero, without duplicates, is a number under    *)
(* which a quorum accepted.                                                *)
(***************************************************************************)
THEOREM AppliedWasAccepted == Spec => []AppliedIsAccepted
<1>1. CASE ~Duplicates
  <2>1. CountInv => AppliedIsAccepted
    BY AcceptedFromCount DEF CountInv
  <2>2. CountInv /\ [Next]_vars => CountInv'
    BY <1>1, NextCounts
  <2> QED
    BY <2>1, <2>2, InitInv, PTL DEF Spec
<1>2. CASE Duplicates
  <2>1. Inv => AppliedIsAccepted
    BY <1>2, AcceptedFromCount
  <2> QED
    BY <2>1, Invariance, PTL
<1> QED
  BY <1>1, <1>2
=============================================================================
