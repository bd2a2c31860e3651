--------------------------- MODULE FailoverProofs ---------------------------
(***************************************************************************)
(* The lists of proposers of hosts that missed no write, for any number of *)
(* hosts, crashes, silences and lost datagrams.                            *)
(***************************************************************************)
EXTENDS Failover, SequenceTheorems, FiniteSetTheorems, NaturalsInduction,
        WellFoundedInduction, TLAPS

-----------------------------------------------------------------------------
(* Lists *)

LEMMA PeersIsList == Peers \in Lists
  BY FailoverAssumption DEF Lists

\* The first of the positions at which a host is.
LEMMA LeastPosition ==
    ASSUME NEW S, S \subseteq Nat, S # {}
    PROVE  Min(S) \in S
<1>1. PICK n \in S : \A m \in S : <<m, n>> \notin OpToRel(<, Nat)
  BY NatLessThanWellFounded, WFMin
<1>2. \A m \in S : ~ (m < n)
  BY <1>1 DEF OpToRel
<1>3. \E k \in S : \A m \in S : k <= m
  BY <1>2
<1> QED
  BY <1>3 DEF Min

\* A write leaves a list of hosts.
LEMMA AppliedIsList ==
    ASSUME NEW list \in Lists, NEW w \in Write
    PROVE  After(list, w) \in Lists
<1>1. CASE list = Missing
  BY <1>1 DEF After
<1>2. CASE list # Missing
  <2>1. list \in Seq(Host) /\ w.host \in Host /\ After(list, w) = Applied(list, w)
    BY <1>2 DEF Lists, After, Write
  <2>2. RemoveFirst(list, w.host) \in Seq(Host)
    <3> DEFINE I == {i \in 1..Len(list) : list[i] = w.host}
    <3>1. CASE I = {}
      <4>1. RemoveFirst(list, w.host) = list
        BY <3>1 DEF RemoveFirst
      <4> QED
        BY <2>1, <4>1
    <3>2. CASE I # {}
      <4>1. RemoveFirst(list, w.host) = RemoveAt(list, Min(I))
        BY <3>2 DEF RemoveFirst, SelectInSeq
      <4>2. Min(I) \in 1..Len(list)
        <5>1. I \subseteq Nat /\ I \subseteq 1..Len(list)
          BY <2>1
        <5> HIDE DEF I
        <5> QED
          BY <3>2, <5>1, LeastPosition
      <4> HIDE DEF I
      <4>3. RemoveAt(list, Min(I)) \in Seq(Host)
        BY <2>1, <4>2 DEF RemoveAt
      <4> QED
        BY <4>1, <4>3
    <3> QED
      BY <3>1, <3>2
  <2>3. CASE w.op = "remove"
    BY <2>1, <2>2, <2>3 DEF Applied, Lists
  <2>4. CASE w.op # "remove"
    BY <2>1, <2>4 DEF Applied, Lists
  <2> QED
    BY <2>3, <2>4
<1> QED
  BY <1>1, <1>2

-----------------------------------------------------------------------------
(* Types *)

LEMMA InitTypes == Init => Types
<1> SUFFICES ASSUME Init PROVE Types
  OBVIOUS
<1>1. <<>> \in Seq(Write) /\ <<>> \in Seq(Request)
  BY EmptySeq
<1> QED
  BY <1>1, PeersIsList, FailoverAssumption DEF Init, Types, Lists

\* What a stop leaves of the learner.
LEMMA StopTypes ==
    ASSUME Types, NEW h \in Host, Stop(h)
    PROVE  Types'
<1>1. <<>> \in Seq(Write) /\ <<>> \in Seq(Request)
  BY EmptySeq
<1>2. /\ learn' \in [Host -> Seq(Write)] /\ inbox' \in [Host -> Seq(Request)]
      /\ \A g \in Host \ running' : learn'[g] = <<>>
  BY <1>1 DEF Types, Stop
<1>3. watch' \in [Host -> {Idle} \cup [pc : {"send", "wait"}, req : Request]]
  BY DEF Types, Stop
<1> QED
  BY <1>2, <1>3 DEF Types, Stop

LEMMA NextTypes == Types /\ [Next]_vars => Types'
<1> SUFFICES ASSUME Types, [Next]_vars PROVE Types'
  OBVIOUS
<1> DEFINE Watches == {Idle} \cup [pc : {"send", "wait"}, req : Request]
<1>1. ASSUME NEW h \in Host, Start(h) PROVE Types'
  <2>1. view' \in [Host -> Lists]
    BY <1>1, PeersIsList DEF Start, Types
  <2> QED
    BY <1>1, <2>1 DEF Start, Types
<1>2. ASSUME NEW h \in Host, TornStart(h) PROVE Types'
  <2>1. PICK list \in {Missing} \cup {SubSeq(Peers, 1, k) : k \in 0 .. Len(Peers) - 1} :
           view' = [view EXCEPT ![h] = list]
    BY <1>2 DEF TornStart
  <2>2. list \in Lists
    BY FailoverAssumption DEF Lists
  <2>3. view' \in [Host -> Lists]
    BY <2>1, <2>2 DEF Types
  <2> QED
    BY <1>2, <2>3 DEF TornStart, Types, daemon
<1>3. ASSUME NEW h \in Host, Crash(h) \/ Terminate(h) PROVE Types'
  BY <1>3, StopTypes DEF Crash, Terminate
<1>4. ASSUME NEW h \in Host, Silent(h) PROVE Types'
  <2>1. PICK i \in DOMAIN view[h] \ {1} :
           watch' = [watch EXCEPT ![h] =
             [pc |-> "send", req |-> [op |-> "remove", host |-> view[h][i - 1],
                                      type |-> Type(view[h], h)]]]
    BY <1>4 DEF Silent
  <2>2. view[h] \in Seq(Host)
    BY <1>4 DEF Silent, Listed, Types, Lists
  <2>3. view[h][i - 1] \in Host
    BY <2>1, <2>2
  <2>4. [op |-> "remove", host |-> view[h][i - 1], type |-> Type(view[h], h)] \in Request
    BY <2>3 DEF Request, Type
  <2>5. watch' \in [Host -> Watches]
    BY <2>1, <2>4 DEF Types
  <2> QED
    BY <1>4, <2>5 DEF Silent, Types
<1>5. ASSUME NEW h \in Host, ReadServers(h) PROVE Types'
  BY <1>5 DEF ReadServers, Types
<1>6. ASSUME NEW h \in Host, Reorder(h) PROVE Types'
  <2>1. watch[h] \in [pc : {"send", "wait"}, req : Request]
    BY <1>6 DEF Reorder, Types, Idle
  <2>2. watch' \in [Host -> Watches]
    BY <1>6, <2>1 DEF Reorder, Types
  <2>3. watch[h].req \in Request
    BY <2>1
  <2>4. inbox' \in [Host -> Seq(Request)]
    <3>1. \A m \in Host : Append(inbox[m], watch[h].req) \in Seq(Request)
      BY <2>3, AppendProperties DEF Types
    <3> QED
      BY <1>6, <3>1 DEF Reorder, Types
  <2> QED
    BY <1>6, <2>2, <2>4 DEF Reorder, Types
<1>7. ASSUME NEW h \in Host, Reordered(h) PROVE Types'
  <2>1. watch[h] \in [pc : {"send", "wait"}, req : Request]
    BY <1>7 DEF Reordered, Types, Idle
  <2>2. [watch[h].req EXCEPT !.op = "add"] \in Request
    BY <2>1 DEF Request
  <2>3. watch' = [watch EXCEPT ![h] =
           IF watch[h].req.op = "remove"
           THEN [pc |-> "send", req |-> [watch[h].req EXCEPT !.op = "add"]] ELSE Idle]
    BY <1>7 DEF Reordered
  <2>4. watch' \in [Host -> Watches]
    <3> DEFINE r == [watch[h].req EXCEPT !.op = "add"]
    <3> HIDE DEF r
    <3> QED
      BY <2>2, <2>3 DEF Types, r
  <2> QED
    BY <1>7, <2>4 DEF Reordered, Types
<1>8. ASSUME NEW h \in Host, Take(h) PROVE Types'
  <2> DEFINE req == Head(inbox[h])
             w == [op |-> req.op, host |-> req.host]
  <2>1. inbox[h] \in Seq(Request) /\ inbox[h] # <<>>
    BY <1>8 DEF Take, Types
  <2>2. req \in Request /\ Tail(inbox[h]) \in Seq(Request)
    BY <2>1, HeadTailProperties
  <2>3. w \in Write
    BY <2>2 DEF Request, Write
  <2>4. inbox' \in [Host -> Seq(Request)]
    BY <1>8, <2>2 DEF Take, Types
  <2> HIDE DEF req, w
  <2>5. CASE UNCHANGED learn
    BY <1>8, <2>4, <2>5 DEF Take, Types
  <2>6. CASE learn' = [m \in Host |-> IF m \in running THEN Append(learn[m], w) ELSE <<>>]
    <3>1. \A m \in Host : Append(learn[m], w) \in Seq(Write)
      BY <2>3, AppendProperties DEF Types
    <3>2. <<>> \in Seq(Write)
      BY EmptySeq
    <3>3. learn' \in [Host -> Seq(Write)] /\ \A m \in Host \ running : learn'[m] = <<>>
      BY <2>6, <3>1, <3>2
    <3> QED
      BY <1>8, <2>4, <3>3 DEF Take, Types
  <2> QED
    BY <1>8, <2>5, <2>6 DEF Take, req, w
<1>9. ASSUME NEW h \in Host, Learn(h) PROVE Types'
  <2>1. learn[h] \in Seq(Write) /\ learn[h] # <<>> /\ h \in running
    BY <1>9 DEF Learn, Types
  <2>2. Head(learn[h]) \in Write /\ Tail(learn[h]) \in Seq(Write)
    BY <2>1, HeadTailProperties
  <2>3. view' = [view EXCEPT ![h] = After(view[h], Head(learn[h]))]
    BY <1>9 DEF Learn, After
  <2>4. After(view[h], Head(learn[h])) \in Lists
    BY <2>2, AppliedIsList DEF Types
  <2>5. view' \in [Host -> Lists]
    BY <2>3, <2>4 DEF Types
  <2>6. /\ learn' \in [Host -> Seq(Write)]
        /\ \A g \in Host \ running : learn'[g] = <<>>
    BY <1>9, <2>1, <2>2 DEF Learn, Types
  <2> QED
    BY <1>9, <2>5, <2>6 DEF Learn, Types, daemon
<1>10. ASSUME NEW h \in Host, Missed(h) PROVE Types'
  <2>1. learn[h] \in Seq(Write) /\ learn[h] # <<>> /\ h \in running
    BY <1>10 DEF Missed, Types
  <2>2. Tail(learn[h]) \in Seq(Write)
    BY <2>1, HeadTailProperties
  <2>3. /\ learn' \in [Host -> Seq(Write)]
        /\ \A g \in Host \ running : learn'[g] = <<>>
    BY <1>10, <2>1, <2>2 DEF Missed, Types
  <2> QED
    BY <1>10, <2>3 DEF Missed, Types, daemon
<1>11. CASE UNCHANGED vars
  BY <1>11 DEF Types, vars, daemon
<1> QED
  BY <1>1, <1>2, <1>3, <1>4, <1>5, <1>6, <1>7, <1>8, <1>9, <1>10, <1>11 DEF Next

-----------------------------------------------------------------------------
(* The writes chosen so far *)

\* Where h is in them, and where it is after a step.
Placed(h, n, W, V) ==
    \E k \in 0..n :
        /\ Own(h) = V[k]
        /\ Len(learn[h]) = n - k
        /\ \A i \in 1..(n - k) : learn[h][i] = W[k + i]

PlacedThen(h, n, W, V) ==
    \E k \in 0..n :
        /\ Own(h)' = V[k]
        /\ Len(learn'[h]) = n - k
        /\ \A i \in 1..(n - k) : learn'[h][i] = W[k + i]

\* The lists and writes without the places of the hosts.
Course(n, W, V) ==
    /\ n \in Nat /\ W \in [1..n -> Write] /\ V \in [0..n -> Lists]
    /\ \A k \in 1..n : V[k] = After(V[k - 1], W[k])

LEMMA ChosenParts ==
    ASSUME NEW n, NEW W, NEW V
    PROVE  Chosen(n, W, V) <=> /\ Course(n, W, V)
                               /\ \A h \in Host \ (missed \cup torn) : Placed(h, n, W, V)
  BY DEF Chosen, Course, Placed

\* The same for the state after a step.
LEMMA ChosenNext ==
    ASSUME NEW n, NEW W, NEW V, Course(n, W, V),
           \A h \in Host \ (missed' \cup torn') : PlacedThen(h, n, W, V)
    PROVE  Chosen(n, W, V)'
<1>1. /\ n \in Nat /\ W \in [1..n -> Write] /\ V \in [0..n -> Lists]
      /\ (\A k \in 1..n : V[k] = After(V[k - 1], W[k]))'
  BY DEF Course, After, Applied
<1> QED
  BY <1>1 DEF Chosen, PlacedThen

\* A step that leaves the lists and the writes of all hosts that it does not
\* make miss one.
LEMMA StaysPlaced ==
    ASSUME NEW n, NEW W, NEW V, Chosen(n, W, V),
           missed \subseteq missed', torn \subseteq torn',
           \A h \in Host \ (missed' \cup torn') : Own(h)' = Own(h) /\ learn'[h] = learn[h]
    PROVE  Chosen(n, W, V)'
<1>1. Course(n, W, V)
  BY ChosenParts
<1>2. ASSUME NEW h \in Host \ (missed' \cup torn')
      PROVE  PlacedThen(h, n, W, V)
  <2>1. h \in Host \ (missed \cup torn) /\ Own(h)' = Own(h) /\ learn'[h] = learn[h]
    OBVIOUS
  <2>2. PICK k \in 0..n : /\ Own(h) = V[k]
                          /\ Len(learn[h]) = n - k
                          /\ \A i \in 1..(n - k) : learn[h][i] = W[k + i]
    BY <2>1 DEF Chosen
  <2> QED
    BY <2>1, <2>2 DEF PlacedThen
<1> QED
  BY <1>1, <1>2, ChosenNext

LEMMA InitChosen == Init => \E n, W, V : Chosen(n, W, V)
<1> SUFFICES ASSUME Init PROVE \E n, W, V : Chosen(n, W, V)
  OBVIOUS
<1> DEFINE W == [i \in 1..0 |-> 0]
           V == [k \in 0..0 |-> Peers]
<1>1. Course(0, W, V)
  BY PeersIsList DEF Course
<1>2. ASSUME NEW h \in Host
      PROVE  Own(h) = Peers /\ learn[h] = <<>>
  BY DEF Init, Own
<1>3. \A h \in Host : Placed(h, 0, W, V)
  BY <1>2 DEF Placed
<1> HIDE DEF W, V
<1>4. Chosen(0, W, V)
  BY <1>1, <1>3, ChosenParts
<1> QED
  BY <1>4

\* A write is chosen: the course goes on by one, and all hosts that run have one
\* more write before them.
LEMMA TakeChosen ==
    ASSUME Types, NEW n, NEW W, NEW V, Chosen(n, W, V), NEW w \in Write,
           learn' = [m \in Host |-> IF m \in running THEN Append(learn[m], w) ELSE <<>>],
           missed' = missed \cup (Host \ running),
           UNCHANGED <<running, accepters, view, torn>>
    PROVE  \E n2, W2, V2 : Chosen(n2, W2, V2)'
<1> DEFINE W2 == [i \in 1..(n + 1) |-> IF i <= n THEN W[i] ELSE w]
           V2 == [k \in 0..(n + 1) |-> IF k <= n THEN V[k] ELSE After(V[n], w)]
<1>1. /\ n \in Nat /\ W \in [1..n -> Write] /\ V \in [0..n -> Lists]
      /\ \A k \in 1..n : V[k] = After(V[k - 1], W[k])
  BY DEF Chosen
<1>2. After(V[n], w) \in Lists
  BY <1>1, AppliedIsList
<1>3. /\ n + 1 \in Nat /\ W2 \in [1..(n + 1) -> Write] /\ V2 \in [0..(n + 1) -> Lists]
      /\ \A i \in 1..n : W2[i] = W[i]
      /\ \A k \in 0..n : V2[k] = V[k]
      /\ W2[n + 1] = w /\ V2[n + 1] = After(V[n], w)
  BY <1>1, <1>2
<1> HIDE DEF W2, V2
<1>4. \A k \in 1..(n + 1) : V2[k] = After(V2[k - 1], W2[k])
  <2> SUFFICES ASSUME NEW k \in 1..(n + 1) PROVE V2[k] = After(V2[k - 1], W2[k])
    OBVIOUS
  <2>1. CASE k = n + 1
    <3>1. V2[k - 1] = V[n] /\ W2[k] = w /\ V2[k] = After(V[n], w)
      BY <1>1, <1>3, <2>1
    <3> QED
      BY <3>1
  <2>2. CASE k # n + 1
    <3>1. k \in 1..n /\ k - 1 \in 0..n /\ k \in 0..n
      BY <1>1, <2>2
    <3>2. V2[k] = V[k] /\ V2[k - 1] = V[k - 1] /\ W2[k] = W[k]
      BY <1>3, <3>1
    <3> QED
      BY <1>1, <3>1, <3>2
  <2> QED
    BY <2>1, <2>2
<1>5. ASSUME NEW h \in Host \ (missed' \cup torn')
      PROVE  PlacedThen(h, n + 1, W2, V2)
  <2>1. h \in running /\ h \in Host \ (missed \cup torn)
    OBVIOUS
  <2>2. PICK k \in 0..n : /\ Own(h) = V[k]
                          /\ Len(learn[h]) = n - k
                          /\ \A i \in 1..(n - k) : learn[h][i] = W[k + i]
    BY <2>1 DEF Chosen
  <2>3. learn[h] \in Seq(Write) /\ learn'[h] = Append(learn[h], w)
    BY <2>1 DEF Types
  <2>4. /\ Len(learn'[h]) = n + 1 - k
        /\ \A i \in 1..(n - k) : learn'[h][i] = W[k + i]
        /\ learn'[h][n + 1 - k] = w
    BY <1>1, <2>2, <2>3, AppendProperties
  <2>5. \A i \in 1..(n + 1 - k) : learn'[h][i] = W2[k + i]
    <3> SUFFICES ASSUME NEW i \in 1..(n + 1 - k) PROVE learn'[h][i] = W2[k + i]
      OBVIOUS
    <3>1. CASE i = n + 1 - k
      <4>1. k + i = n + 1
        BY <1>1, <3>1
      <4> QED
        BY <1>3, <2>4, <3>1, <4>1
    <3>2. CASE i # n + 1 - k
      <4>1. i \in 1..(n - k) /\ k + i \in 1..n
        BY <1>1, <3>2
      <4> QED
        BY <1>3, <2>4, <4>1
    <3> QED
      BY <3>1, <3>2
  <2>6. Own(h)' = V2[k] /\ k \in 0..(n + 1)
    BY <1>1, <1>3, <2>2 DEF Own
  <2> QED
    BY <1>1, <2>4, <2>5, <2>6 DEF PlacedThen
<1>6. Course(n + 1, W2, V2)
  BY <1>3, <1>4 DEF Course
<1>7. PICK n2, W3, V3 :
         /\ Course(n2, W3, V3)
         /\ \A h \in Host \ (missed' \cup torn') : PlacedThen(h, n2, W3, V3)
  <2> DEFINE N == n + 1
  <2>1. /\ Course(N, W2, V2)
        /\ \A h \in Host \ (missed' \cup torn') : PlacedThen(h, N, W2, V2)
    BY <1>5, <1>6
  <2> HIDE DEF N
  <2> QED
    BY <2>1, Zenon
<1>8. Chosen(n2, W3, V3)'
  BY <1>7, ChosenNext
<1> QED
  BY <1>8

\* A host applies the next write: its list is the next one of the course.
LEMMA LearnChosen ==
    ASSUME Types, NEW n, NEW W, NEW V, Chosen(n, W, V), NEW h \in Host, Learn(h)
    PROVE  Chosen(n, W, V)'
<1>1. /\ n \in Nat /\ W \in [1..n -> Write] /\ V \in [0..n -> Lists]
      /\ \A k \in 1..n : V[k] = After(V[k - 1], W[k])
  BY DEF Chosen
<1>2. /\ learn[h] \in Seq(Write) /\ learn[h] # <<>> /\ h \in running
      /\ h \in accepters
  BY DEF Learn, Types
<1>3. /\ view' = [view EXCEPT ![h] = After(view[h], Head(learn[h]))]
      /\ learn' = [learn EXCEPT ![h] = Tail(learn[h])]
      /\ UNCHANGED <<running, accepters, missed, torn>>
  BY DEF Learn, After
<1>4. ASSUME NEW g \in Host \ (missed \cup torn), g # h
      PROVE  PlacedThen(g, n, W, V)
  <2>1. Own(g)' = Own(g) /\ learn'[g] = learn[g]
    BY <1>3, <1>4 DEF Types, Own
  <2>2. Placed(g, n, W, V)
    BY DEF Chosen, Placed
  <2> QED
    BY <2>1, <2>2 DEF Placed, PlacedThen
<1>5. ASSUME h \in Host \ (missed \cup torn)
      PROVE  PlacedThen(h, n, W, V)
  <2>1. PICK k \in 0..n : /\ Own(h) = V[k]
                          /\ Len(learn[h]) = n - k
                          /\ \A i \in 1..(n - k) : learn[h][i] = W[k + i]
    BY <1>5 DEF Chosen
  <2>2. Len(learn[h]) \in Nat /\ Len(learn[h]) > 0
    BY <1>2
  <2>3. k + 1 \in 0..n /\ k + 1 \in 1..n /\ 1 \in 1..(n - k)
    BY <1>1, <2>1, <2>2
  <2>4. Head(learn[h]) = W[k + 1]
    BY <1>2, <2>1, <2>3
  <2>5. Own(h)' = V[k + 1]
    <3>1. view[h] = V[k]
      BY <1>2, <2>1 DEF Own
    <3>2. Own(h)' = After(view[h], Head(learn[h]))
      BY <1>2, <1>3 DEF Own, Types
    <3>3. V[k + 1] = After(V[k], W[k + 1])
      <4>1. V[k + 1] = After(V[(k + 1) - 1], W[k + 1])
        BY <1>1, <2>3
      <4>2. (k + 1) - 1 = k
        BY <2>1
      <4> QED
        BY <4>1, <4>2
    <3> QED
      BY <2>4, <3>1, <3>2, <3>3
  <2>6. /\ learn'[h] = Tail(learn[h])
        /\ Len(learn'[h]) = n - (k + 1)
        /\ \A i \in 1..(n - (k + 1)) : learn'[h][i] = learn[h][i + 1]
    BY <1>1, <1>2, <1>3, <2>1, <2>3 DEF Types
  <2>7. \A i \in 1..(n - (k + 1)) : learn'[h][i] = W[(k + 1) + i]
    <3> SUFFICES ASSUME NEW i \in 1..(n - (k + 1)) PROVE learn'[h][i] = W[(k + 1) + i]
      OBVIOUS
    <3>1. i + 1 \in 1..(n - k) /\ k + (i + 1) = (k + 1) + i
      BY <1>1, <2>3
    <3> QED
      BY <2>1, <2>6, <3>1
  <2> QED
    BY <2>3, <2>5, <2>6, <2>7 DEF PlacedThen
<1>6. Course(n, W, V)
  BY ChosenParts
<1>7. \A g \in Host \ (missed' \cup torn') : PlacedThen(g, n, W, V)
  BY <1>3, <1>4, <1>5
<1> QED
  BY <1>6, <1>7, ChosenNext

LEMMA NextChosen ==
    Inv /\ [Next]_vars => (\E n, W, V : Chosen(n, W, V))'
<1> SUFFICES ASSUME Inv, [Next]_vars PROVE \E n, W, V : Chosen(n, W, V)'
  OBVIOUS
<1>0. Types
  BY DEF Inv
<1>1. PICK n, W, V : Chosen(n, W, V)
  BY DEF Inv
<1>2. ASSUME missed \subseteq missed', torn \subseteq torn',
             \A h \in Host \ (missed' \cup torn') : Own(h)' = Own(h) /\ learn'[h] = learn[h]
      PROVE  \E n2, W2, V2 : Chosen(n2, W2, V2)'
  BY <1>1, <1>2, StaysPlaced
<1>3. ASSUME UNCHANGED <<accepters, view, learn, missed, torn>>
      PROVE  \E n2, W2, V2 : Chosen(n2, W2, V2)'
  BY <1>2, <1>3 DEF Own
<1>4. ASSUME NEW h \in Host, Start(h) PROVE \E n2, W2, V2 : Chosen(n2, W2, V2)'
  <2>1. \A g \in Host : Own(g)' = Own(g) /\ learn'[g] = learn[g]
    BY <1>0, <1>4 DEF Start, Own, Types
  <2> QED
    BY <1>2, <1>4, <2>1 DEF Start
<1>5. ASSUME NEW h \in Host, TornStart(h) PROVE \E n2, W2, V2 : Chosen(n2, W2, V2)'
  <2>1. \A g \in Host : g # h => Own(g)' = Own(g) /\ learn'[g] = learn[g]
    BY <1>0, <1>5 DEF TornStart, Own, Types
  <2>2. torn' = torn \cup {h} /\ missed' = missed
    BY <1>5 DEF TornStart
  <2> QED
    BY <1>2, <2>1, <2>2
<1>6. ASSUME NEW h \in Host, Stop(h) PROVE \E n2, W2, V2 : Chosen(n2, W2, V2)'
  <2>1. \A g \in Host : Own(g)' = Own(g) /\ (g # h => learn'[g] = learn[g])
    BY <1>0, <1>6 DEF Stop, Own, Types
  <2>2. learn[h] = <<>> => learn'[h] = learn[h]
    BY <1>0, <1>6 DEF Stop, Types
  <2>3. /\ torn' = torn /\ missed \subseteq missed'
        /\ learn[h] # <<>> => h \in missed'
    BY <1>6 DEF Stop
  <2> QED
    BY <1>2, <2>1, <2>2, <2>3
<1>7. ASSUME NEW h \in Host, Take(h) PROVE \E n2, W2, V2 : Chosen(n2, W2, V2)'
  <2> DEFINE w == [op |-> Head(inbox[h]).op, host |-> Head(inbox[h]).host]
  <2>1. w \in Write
    <3>1. inbox[h] \in Seq(Request) /\ inbox[h] # <<>>
      BY <1>0, <1>7 DEF Take, Types
    <3>2. Head(inbox[h]) \in Request
      BY <3>1, HeadTailProperties
    <3> QED
      BY <3>2 DEF Request, Write
  <2>2. UNCHANGED <<running, accepters, view, torn>>
    BY <1>7 DEF Take
  <2>3. \/ UNCHANGED <<learn, missed>>
        \/ /\ learn' = [m \in Host |-> IF m \in running THEN Append(learn[m], w) ELSE <<>>]
           /\ missed' = missed \cup (Host \ running)
    BY <1>7 DEF Take
  <2> HIDE DEF w
  <2>4. CASE UNCHANGED <<learn, missed>>
    BY <1>3, <2>2, <2>4
  <2>5. CASE /\ learn' = [m \in Host |-> IF m \in running THEN Append(learn[m], w) ELSE <<>>]
             /\ missed' = missed \cup (Host \ running)
    BY <1>0, <1>1, <2>1, <2>2, <2>5, TakeChosen
  <2> QED
    BY <2>3, <2>4, <2>5
<1>8. ASSUME NEW h \in Host, Learn(h) PROVE \E n2, W2, V2 : Chosen(n2, W2, V2)'
  BY <1>0, <1>1, <1>8, LearnChosen
<1>9. ASSUME NEW h \in Host, Missed(h) PROVE \E n2, W2, V2 : Chosen(n2, W2, V2)'
  <2>1. \A g \in Host : Own(g)' = Own(g) /\ (g # h => learn'[g] = learn[g])
    BY <1>0, <1>9 DEF Missed, Own, Types
  <2>2. torn' = torn /\ missed' = missed \cup {h}
    BY <1>9 DEF Missed
  <2> QED
    BY <1>2, <2>1, <2>2
<1>10. ASSUME NEW h \in Host, Silent(h) \/ ReadServers(h) \/ Reorder(h) \/ Reordered(h)
       PROVE  UNCHANGED <<accepters, view, learn, missed, torn>>
  BY <1>10 DEF Silent, ReadServers, Reorder, Reordered
<1>11. CASE UNCHANGED vars
  BY <1>3, <1>11 DEF vars
<1> QED
  BY <1>3, <1>4, <1>5, <1>6, <1>7, <1>8, <1>9, <1>10, <1>11 DEF Next, Crash, Terminate

-----------------------------------------------------------------------------
(***************************************************************************)
(* For any number of hosts and faults there is one course of lists, and a  *)
(* host that missed no write and was not torn in its first start has one   *)
(* of them, with the writes after it still to apply (Learner::learn,       *)
(* initialize_from_range).                                                 *)
(***************************************************************************)
THEOREM Invariance == Spec => []Inv
<1>1. Init => Inv
  BY InitTypes, InitChosen DEF Inv
<1>2. Inv /\ [Next]_vars => Inv'
  BY NextTypes, NextChosen DEF Inv
<1> QED
  BY <1>1, <1>2, PTL DEF Spec

\* Equally many writes before two hosts: they are at the same place.
LEMMA SameFromInv == Inv => SameList
<1> SUFFICES ASSUME Inv, NEW g \in running \ (missed \cup torn),
                    NEW h \in running \ (missed \cup torn), learn[g] = learn[h]
             PROVE  view[g] = view[h]
  BY DEF SameList
<1>1. PICK n, W, V : Chosen(n, W, V)
  BY DEF Inv
<1>2. /\ g \in Host \ (missed \cup torn) /\ h \in Host \ (missed \cup torn)
      /\ g \in accepters /\ h \in accepters
  BY DEF Inv, Types
<1>3. PICK j \in 0..n : Own(g) = V[j] /\ Len(learn[g]) = n - j
  BY <1>1, <1>2 DEF Chosen
<1>4. PICK k \in 0..n : Own(h) = V[k] /\ Len(learn[h]) = n - k
  BY <1>1, <1>2 DEF Chosen
<1>5. n \in Nat
  BY <1>1 DEF Chosen
<1>6. j = k
  BY <1>3, <1>4, <1>5
<1> QED
  BY <1>2, <1>3, <1>4, <1>6 DEF Own

(***************************************************************************)
(* Hosts that missed no write have the same list of proposers when they    *)
(* have the same writes left to apply, whatever crashes, silences and      *)
(* concurrent reorderings there were.                                      *)
(***************************************************************************)
THEOREM ListsAgree == Spec => []SameList
BY Invariance, SameFromInv, PTL

(***************************************************************************)
(* Once every reordering has come to its end, such hosts do not follow     *)
(* different distinguished proposers (Proposer::distinguished_proposer).   *)
(***************************************************************************)
THEOREM LeadersAgree == Spec => []NoTwoLeaders
<1>1. Inv => NoTwoLeaders
  <2> SUFFICES ASSUME Inv, Settled, NEW g \in running \ (missed \cup torn),
                      NEW h \in running \ (missed \cup torn)
               PROVE  distinguished_proposer(view[g], FALSE)
                        = distinguished_proposer(view[h], FALSE)
    BY DEF NoTwoLeaders
  <2>1. g \in Host /\ h \in Host
    BY DEF Inv, Types
  <2>2. learn[g] = learn[h]
    BY <2>1 DEF Settled
  <2>3. view[g] = view[h]
    BY <2>2, SameFromInv DEF SameList
  <2> QED
    BY <2>3
<1> QED
  BY <1>1, Invariance, PTL

(***************************************************************************)
(* What OneLeader asks for beyond that is a proposer at all: it holds in   *)
(* every state in which no running host has lost all of its list, for any  *)
(* number of faults.                                                       *)
(***************************************************************************)
THEOREM OneLeaderUnlessEmpty == Spec => [](NeverEmpty => OneLeader)
<1>1. Inv => (NeverEmpty => OneLeader)
  <2> SUFFICES ASSUME Inv, NeverEmpty, Settled, running \cap (missed \cup torn) = {}
               PROVE  \E p \in Host : \A h \in running :
                         distinguished_proposer(view[h], FALSE) = {p}
    BY DEF OneLeader
  <2>1. running \subseteq Host /\ view \in [Host -> Lists]
    BY DEF Inv, Types
  <2>2. CASE running = {}
    <3>1. Peers[1] \in Host
      BY FailoverAssumption
    <3> QED
      BY <2>2, <3>1
  <2>3. CASE running # {}
    <3>1. PICK g \in running : TRUE
      BY <2>3
    <3>2. ASSUME NEW h \in running PROVE view[h] = view[g]
      <4>1. learn[h] = learn[g]
        BY <2>1, <3>1 DEF Settled
      <4>2. h \in running \ (missed \cup torn) /\ g \in running \ (missed \cup torn)
        BY <3>1
      <4> QED
        BY <4>1, <4>2, SameFromInv DEF SameList
    <3>3. view[g] \in Seq(Host) /\ view[g] # <<>>
      <4>1. view[g] # Missing /\ view[g] # <<>>
        BY <3>1 DEF NeverEmpty
      <4> QED
        BY <2>1, <3>1, <4>1 DEF Lists
    <3>4. Head(view[g]) \in Host
      BY <3>3, HeadTailProperties
    <3>5. distinguished_proposer(view[g], FALSE) = {Head(view[g])}
      BY <3>3 DEF distinguished_proposer
    <3>6. \A h \in running : distinguished_proposer(view[h], FALSE) = {Head(view[g])}
      BY <3>2, <3>5
    <3> QED
      BY <3>4, <3>6
  <2> QED
    BY <2>2, <2>3
<1> QED
  BY <1>1, Invariance, PTL
=============================================================================
