------------------------- MODULE RequestQueueProofs -------------------------
(***************************************************************************)
(* RequestQueueClient::request never returns true for a request that was   *)
(* not learned, for any number of clients, queue lengths and lost or       *)
(* repeated messages; and messages of a sound length are put together as   *)
(* they were sent, for every buffer size.                                  *)
(***************************************************************************)
EXTENDS RequestQueue, Framing, NaturalsInduction, WellFoundedInduction, TLAPS

\* The empty queues of the start satisfy the invariant.
LEMMA InitInv == Init => Inv
BY QueueAssumption DEF Init, Inv, TypeOK, WaitInv, ThreadInv, AckInv, TrueIsLearned

\* Send: the ack queue is empty afterwards.
LEMMA SendInv == ASSUME NEW c \in Client, Inv, Send(c) PROVE Inv'
<1> DEFINE r == [client |-> c, thread |-> thread[c], id |-> request_id[c]]
<1>1. r \in Request /\ queue' = Append(queue, r)
  BY DEF Send, Inv, TypeOK, Request
<1>2. TypeOK'
  <2>1. queue' \in Seq(Request) /\ Len(queue') <= Capacity
    BY <1>1, QueueAssumption DEF Send, Inv, TypeOK
  <2>2. acks' \in [Client -> Seq(AckMsg)] /\ \A d \in Client : Len(acks'[d]) <= AckCapacity
    BY QueueAssumption DEF Send, Inv, TypeOK
  <2> QED BY <2>1, <2>2, QueueAssumption DEF Send, Inv, TypeOK
<1>3. WaitInv'
  BY QueueAssumption DEF Send, Inv, TypeOK, WaitInv
<1>4. ThreadInv'
  <2>1. queue \in Seq(Request) /\ thread' = thread /\ proposed' = proposed
    BY DEF Send, Inv, TypeOK
  <2>2. \A i \in DOMAIN queue' :
            (i \in DOMAIN queue /\ queue'[i] = queue[i]) \/ queue'[i] = r
    BY <1>1, <2>1
  <2>3. r.thread <= thread[r.client]
    BY DEF Inv, TypeOK
  <2> QED BY <2>1, <2>2, <2>3 DEF Inv, ThreadInv
<1>5. AckInv'
  BY DEF Send, Inv, TypeOK, AckInv, Reported
<1>6. TrueIsLearned'
  BY DEF Send, Inv, TrueIsLearned
<1> QED BY <1>2, <1>3, <1>4, <1>5, <1>6 DEF Inv

\* SendTimesOut: the new return is not a true one.
LEMMA SendTimesOutInv == ASSUME NEW c \in Client, Inv, SendTimesOut(c) PROVE Inv'
<1> DEFINE r == [client |-> c, thread |-> thread[c], id |-> request_id[c]]
           x == [req |-> r, result |-> FALSE, status |-> FALSE]
<1>1. r \in Request /\ x \in Return /\ returned' = returned \cup {x}
  BY DEF SendTimesOut, Inv, TypeOK, Request, Return
<1>2. TypeOK'
  <2>2. acks' \in [Client -> Seq(AckMsg)] /\ \A d \in Client : Len(acks'[d]) <= AckCapacity
    BY QueueAssumption DEF SendTimesOut, Inv, TypeOK
  <2>3. request_id' \in [Client -> 0 .. MaxRequests]
    BY QueueAssumption DEF SendTimesOut, Inv, TypeOK
  <2>4. returned' \subseteq Return
    BY <1>1 DEF Inv, TypeOK
  <2> QED BY <2>2, <2>3, <2>4 DEF SendTimesOut, Inv, TypeOK
<1>3. WaitInv'
  BY QueueAssumption DEF SendTimesOut, Inv, TypeOK, WaitInv
<1>4. ThreadInv'
  BY DEF SendTimesOut, Inv, ThreadInv
<1>5. AckInv'
  BY DEF SendTimesOut, Inv, TypeOK, AckInv, Reported
<1>6. TrueIsLearned'
  BY <1>1 DEF SendTimesOut, Inv, TrueIsLearned
<1> QED BY <1>2, <1>3, <1>4, <1>5, <1>6 DEF Inv

\* ReceiveAck: the ack taken was sent for an outcome of this client id.
LEMMA ReceiveAckInv == ASSUME NEW c \in Client, Inv, ReceiveAck(c) PROVE Inv'
<1> DEFINE k == Head(acks[c])
           x == [req |-> Current(c), result |-> k.id = Current(c).id,
                 status |-> k.status]
<1>0. /\ acks[c] \in Seq(AckMsg) /\ acks[c] # <<>>
      /\ request_id[c] > 0
  BY DEF ReceiveAck, Inv, TypeOK, WaitInv
<1>1. k \in AckMsg /\ 1 \in DOMAIN acks[c] /\ k = acks[c][1]
  BY <1>0
<1>2. Current(c) \in Request /\ x \in Return /\ returned' = returned \cup {x}
  <2>1. Current(c) \in Request
    BY <1>0, QueueAssumption DEF Inv, TypeOK, Request, Current
  <2>2. x \in Return
    BY <2>1, <1>1 DEF Return, AckMsg
  <2> QED BY <2>1, <2>2 DEF ReceiveAck
<1>3. acks' = [acks EXCEPT ![c] = Tail(acks[c])] /\ learned' = learned /\ thread' = thread
  BY DEF ReceiveAck
<1>4. /\ Tail(acks[c]) \in Seq(AckMsg)
      /\ Len(Tail(acks[c])) = Len(acks[c]) - 1
      /\ \A i \in DOMAIN Tail(acks[c]) :
            i + 1 \in DOMAIN acks[c] /\ Tail(acks[c])[i] = acks[c][i + 1]
  BY <1>0
<1>5. TypeOK'
  <2>1. acks' \in [Client -> Seq(AckMsg)]
    BY <1>3, <1>4 DEF Inv, TypeOK
  <2>2. \A d \in Client : Len(acks'[d]) <= AckCapacity
    BY <1>0, <1>3, <1>4, QueueAssumption DEF Inv, TypeOK
  <2> QED BY <1>2, <2>1, <2>2 DEF ReceiveAck, Inv, TypeOK
<1>6. WaitInv'
  BY DEF ReceiveAck, Inv, TypeOK, WaitInv
<1>7. ThreadInv'
  BY DEF ReceiveAck, Inv, ThreadInv
<1>8. AckInv'
  <2> SUFFICES ASSUME NEW d \in Client, NEW i \in DOMAIN acks'[d]
               PROVE  Reported(d, acks[d][i])'
    BY DEF AckInv
  <2>1. PICK j \in DOMAIN acks[d] : acks'[d][i] = acks[d][j]
    BY <1>3, <1>4 DEF Inv, TypeOK
  <2>2. Reported(d, acks[d][j])
    BY DEF Inv, AckInv
  <2> QED BY <1>3, <2>1, <2>2 DEF Reported
<1>9. TrueIsLearned'
  <2>1. Reported(c, k)
    BY <1>1 DEF Inv, AckInv
  <2>2. x.req.client = c /\ x.req.thread = thread[c]
    BY DEF Current
  <2>3. x.result => \E l \in learned :
            /\ l.req.client = x.req.client
            /\ l.req.id = x.req.id
            /\ l.req.thread <= x.req.thread
            /\ l.status = x.status
    BY <2>1, <2>2 DEF Reported
  <2> QED BY <1>2, <1>3, <2>3 DEF Inv, TrueIsLearned
<1> QED BY <1>5, <1>6, <1>7, <1>8, <1>9 DEF Inv

\* ReceiveTimesOut: the new return is not a true one.
LEMMA ReceiveTimesOutInv == ASSUME NEW c \in Client, Inv, ReceiveTimesOut(c) PROVE Inv'
<1> DEFINE x == [req |-> Current(c), result |-> FALSE, status |-> FALSE]
<1>1. request_id[c] > 0
  BY DEF ReceiveTimesOut, Inv, WaitInv
<1>2. x \in Return /\ returned' = returned \cup {x}
  <2>1. Current(c) \in Request
    BY <1>1, QueueAssumption DEF Inv, TypeOK, Request, Current
  <2> QED BY <2>1 DEF ReceiveTimesOut, Return
<1>3. TypeOK'
  BY <1>2 DEF ReceiveTimesOut, Inv, TypeOK
<1>4. WaitInv' /\ ThreadInv' /\ AckInv'
  BY DEF ReceiveTimesOut, Inv, TypeOK, WaitInv, ThreadInv, AckInv, Reported
<1>5. TrueIsLearned'
  BY <1>2 DEF ReceiveTimesOut, Inv, TrueIsLearned
<1> QED BY <1>3, <1>4, <1>5 DEF Inv

\* NewThread: what was sent before comes from an earlier thread.
LEMMA NewThreadInv == ASSUME NEW c \in Client, Inv, NewThread(c) PROVE Inv'
<1>1. /\ \A d \in Client : thread[d] \in Nat /\ thread'[d] \in Nat /\ thread[d] <= thread'[d]
      /\ thread' \in [Client -> 0 .. MaxThreads]
  BY QueueAssumption DEF NewThread, Inv, TypeOK
<1>2. TypeOK'
  BY <1>1, QueueAssumption DEF NewThread, Inv, TypeOK
<1>3. WaitInv'
  BY DEF NewThread, Inv, TypeOK, WaitInv
<1>4. ThreadInv'
  <2>1. \A i \in DOMAIN queue : queue[i] \in Request
    BY DEF Inv, TypeOK
  <2>2. \A r \in Request : r.thread <= thread[r.client] => r.thread <= thread'[r.client]
    BY <1>1 DEF Request
  <2>3. \A i \in DOMAIN queue : queue[i].thread <= thread'[queue[i].client]
    BY <2>1, <2>2 DEF Inv, ThreadInv
  <2>4. \A r \in proposed : r.thread <= thread'[r.client]
    BY <2>2 DEF Inv, TypeOK, ThreadInv
  <2> QED BY <2>3, <2>4 DEF NewThread, ThreadInv
<1>5. AckInv'
  <2> SUFFICES ASSUME NEW d \in Client, NEW i \in DOMAIN acks[d]
               PROVE  Reported(d, acks[d][i])'
    BY DEF NewThread, AckInv
  <2>1. PICK l \in learned :
            /\ l.req.client = d /\ l.req.id = acks[d][i].id
            /\ l.req.thread <= thread[d] /\ l.status = acks[d][i].status
    BY DEF Inv, AckInv, Reported
  <2>2. l.req.thread \in Nat
    BY DEF Inv, TypeOK, Request
  <2>3. l.req.thread <= thread'[d]
    BY <1>1, <2>1, <2>2
  <2> QED BY <2>1, <2>3 DEF NewThread, Reported
<1>6. TrueIsLearned'
  BY DEF NewThread, Inv, TrueIsLearned
<1> QED BY <1>2, <1>3, <1>4, <1>5, <1>6 DEF Inv

\* Forward: the request keeps the thread it came from.
LEMMA ForwardInv == ASSUME Inv, Forward PROVE Inv'
<1>1. queue \in Seq(Request) /\ queue # <<>>
  BY DEF Forward, Inv, TypeOK
<1>2. /\ Head(queue) \in Request /\ 1 \in DOMAIN queue /\ Head(queue) = queue[1]
      /\ Tail(queue) \in Seq(Request) /\ Len(Tail(queue)) = Len(queue) - 1
      /\ \A i \in DOMAIN Tail(queue) :
            i + 1 \in DOMAIN queue /\ Tail(queue)[i] = queue[i + 1]
  BY <1>1
<1>3. TypeOK'
  <2>1. Len(queue') <= Capacity
    BY <1>1, <1>2, QueueAssumption DEF Forward, Inv, TypeOK
  <2> QED BY <1>2, <2>1 DEF Forward, Inv, TypeOK
<1>4. ThreadInv'
  BY <1>2 DEF Forward, Inv, ThreadInv
<1>5. WaitInv' /\ AckInv' /\ TrueIsLearned'
  BY DEF Forward, Inv, WaitInv, AckInv, Reported, TrueIsLearned
<1> QED BY <1>3, <1>4, <1>5 DEF Inv

\* Learn: the ack is sent together with the outcome that it reports.
LEMMA LearnInv ==
    ASSUME NEW r \in proposed, NEW status \in BOOLEAN, Inv, Learn(r, status)
    PROVE  Inv'
<1> DEFINE l == [req |-> r, status |-> status]
           k == [id |-> r.id, status |-> status]
<1>1. r \in Request /\ r.client \in Client /\ k \in AckMsg /\ r.thread <= thread[r.client]
  BY DEF Inv, TypeOK, ThreadInv, Request, AckMsg
<1>2. learned' = learned \cup {l} /\ thread' = thread
  BY DEF Learn
<1>3. \A c \in Client, j \in AckMsg : Reported(c, j) => Reported(c, j)'
  BY <1>2 DEF Reported
<1>4. Reported(r.client, k)'
  <2>1. l \in learned'
    BY <1>2
  <2>2. l.req.client = r.client /\ l.req.id = k.id /\ l.status = k.status
    OBVIOUS
  <2>3. l.req.thread <= thread'[r.client]
    BY <1>1, <1>2
  <2> QED BY <2>1, <2>2, <2>3 DEF Reported
<1>5. \A c \in Client : acks[c] \in Seq(AckMsg) /\ Len(acks[c]) <= AckCapacity
  BY DEF Inv, TypeOK
<1>6. \/ acks' = acks
      \/ /\ Len(acks[r.client]) < AckCapacity
         /\ acks' = [acks EXCEPT ![r.client] = Append(acks[r.client], k)]
  BY DEF Learn
<1>11. LET s == acks[r.client] IN
        /\ Append(s, k) \in Seq(AckMsg)
        /\ Len(Append(s, k)) = Len(s) + 1
        /\ Len(s) \in Nat
        /\ \A i \in DOMAIN Append(s, k) :
             (i \in DOMAIN s /\ Append(s, k)[i] = s[i]) \/ Append(s, k)[i] = k
  <2> DEFINE s == acks[r.client]
  <2>1. s \in Seq(AckMsg) /\ k \in AckMsg
    BY <1>1, <1>5
  <2> HIDE DEF s, k
  <2>2. /\ Append(s, k) \in Seq(AckMsg)
        /\ Len(Append(s, k)) = Len(s) + 1
        /\ Len(s) \in Nat
        /\ \A i \in DOMAIN Append(s, k) :
             (i \in DOMAIN s /\ Append(s, k)[i] = s[i]) \/ Append(s, k)[i] = k
    BY <2>1
  <2> QED BY <2>2 DEF s
<1>7. TypeOK'
  <2>1. acks' \in [Client -> Seq(AckMsg)]
    BY <1>1, <1>6, <1>11 DEF Inv, TypeOK
  <2>2. \A c \in Client : Len(acks'[c]) <= AckCapacity
    <3>1. CASE acks' = acks
      BY <3>1, <1>5
    <3>2. CASE /\ Len(acks[r.client]) < AckCapacity
               /\ acks' = [acks EXCEPT ![r.client] = Append(acks[r.client], k)]
      <4>1. Len(Append(acks[r.client], k)) <= AckCapacity
        BY <3>2, <1>1, <1>5, <1>11, QueueAssumption
      <4> QED BY <3>2, <4>1, <1>5 DEF Inv, TypeOK
    <3> QED BY <3>1, <3>2, <1>6
  <2>3. learned' \subseteq [req : Request, status : BOOLEAN]
    BY <1>1, <1>2 DEF Inv, TypeOK
  <2> QED BY <2>1, <2>2, <2>3 DEF Learn, Inv, TypeOK
<1>8. AckInv'
  <2> SUFFICES ASSUME NEW c \in Client, NEW i \in DOMAIN acks'[c]
               PROVE  Reported(c, acks[c][i])'
    BY DEF AckInv
  <2>1. CASE i \in DOMAIN acks[c] /\ acks'[c][i] = acks[c][i]
    BY <2>1, <1>3, <1>5 DEF Inv, AckInv, Reported
  <2>2. CASE c = r.client /\ acks'[c][i] = k
    BY <2>2, <1>4 DEF Reported
  <2>3. (i \in DOMAIN acks[c] /\ acks'[c][i] = acks[c][i]) \/ (c = r.client /\ acks'[c][i] = k)
    <3>1. CASE acks' = acks
      BY <3>1
    <3>2. CASE acks' = [acks EXCEPT ![r.client] = Append(acks[r.client], k)]
      <4>1. CASE c = r.client
        BY <3>2, <4>1, <1>11 DEF Inv, TypeOK
      <4>2. CASE c # r.client
        BY <3>2, <4>2 DEF Inv, TypeOK
      <4> QED BY <4>1, <4>2
    <3> QED BY <3>1, <3>2, <1>6
  <2> QED BY <2>1, <2>2, <2>3
<1>9. WaitInv' /\ ThreadInv'
  BY DEF Learn, Inv, WaitInv, ThreadInv
<1>10. TrueIsLearned'
  BY <1>2 DEF Learn, Inv, TrueIsLearned
<1> QED BY <1>7, <1>8, <1>9, <1>10 DEF Inv

\* Every step of a client or of the daemon preserves the invariant.
LEMMA StepInv == Inv /\ [Next]_vars => Inv'
<1> SUFFICES ASSUME Inv, [Next]_vars PROVE Inv'
  OBVIOUS
<1>1. CASE UNCHANGED vars
  BY <1>1 DEF vars, Inv, TypeOK, WaitInv, ThreadInv, AckInv, Reported, TrueIsLearned
<1>2. ASSUME NEW c \in Client, ClientStep(c) PROVE Inv'
  BY <1>2, SendInv, SendTimesOutInv, ReceiveAckInv, ReceiveTimesOutInv, NewThreadInv
     DEF ClientStep
<1>3. CASE DaemonStep
  BY <1>3, ForwardInv, LearnInv DEF DaemonStep
<1> QED BY <1>1, <1>2, <1>3 DEF Next

\* The inductive invariant holds in every reachable state.
THEOREM Invariance == Spec => []Inv
BY InitInv, StepInv, PTL DEF Spec

\* RequestQueueClient::request returns true only for a learned request, with
\* the outcome it had: the comparison of request ids after the flush is enough.
THEOREM TrueMeansLearned == Spec => []TrueIsLearned
<1>1. Inv => TrueIsLearned
  BY DEF Inv
<1> QED BY <1>1, Invariance, PTL
-----------------------------------------------------------------------------
(* Whose success a call is told of. *)

\* What a call has returned stays returned, and what was learned stays learned:
\* the two properties are about new returns only.
LEMMA ToldKept ==
    ASSUME OwnInv, returned \subseteq returned', learned \subseteq learned',
           \A x \in returned' : x \notin returned => ~ x.status
    PROVE  LockedIsNotConfirmed' /\ SuccessIsOwnOrLate'
<1>1. LockedIsNotConfirmed'
  <2> SUFFICES ASSUME NEW x \in returned', x.req.id \in Checking, x.result, x.status
               PROVE  \E l \in learned' : /\ l.req.client = x.req.client
                                          /\ l.req.id = x.req.id
                                          /\ l.req.thread < x.req.thread
    BY DEF LockedIsNotConfirmed
  <2> QED BY DEF OwnInv, LockedIsNotConfirmed
<1>2. SuccessIsOwnOrLate'
  <2> SUFFICES ASSUME NEW x \in returned', x.status
               PROVE  \E l \in learned' :
                        /\ l.status
                        /\ l.req.client = x.req.client
                        /\ \/ l.req = x.req
                           \/ /\ \/ l.req.thread < x.req.thread
                                 \/ l.req.thread = x.req.thread /\ l.req.id < x.req.id
                              /\ \E y \in returned' : y.req = l.req
    BY DEF SuccessIsOwnOrLate
  <2>1. PICK l \in learned :
            /\ l.status
            /\ l.req.client = x.req.client
            /\ \/ l.req = x.req
               \/ /\ \/ l.req.thread < x.req.thread
                     \/ l.req.thread = x.req.thread /\ l.req.id < x.req.id
                  /\ \E y \in returned : y.req = l.req
    BY DEF OwnInv, SuccessIsOwnOrLate
  <2> QED BY <2>1
<1> QED BY <1>1, <1>2

\* An ack that was an answer stays one while its client waits on.
LEMMA AnswersKept ==
    ASSUME NEW c \in Client, NEW k, Answers(c, k), thread'[c] = thread[c],
           request_id'[c] = request_id[c], returned \subseteq returned',
           learned \subseteq learned'
    PROVE  Answers(c, k)'
<1>1. PICK l \in learned :
        /\ l.status /\ l.req.client = c /\ l.req.id = k.id
        /\ \/ l.req = Current(c) /\ k.id \notin Checking
           \/ Before(l.req, Current(c)) /\ HasReturned(l.req)
  BY DEF Answers
<1>2. Current(c)' = Current(c)
  BY DEF Current
<1>3. HasReturned(l.req) => HasReturned(l.req)'
  BY DEF HasReturned
<1>4. Before(l.req, Current(c)) => Before(l.req, Current(c))'
  BY <1>2 DEF Before
<1>5. l \in learned'
  BY <1>1
<1> QED BY <1>1, <1>2, <1>3, <1>4, <1>5 DEF Answers

\* A request that was on its way is so after a step of client c that keeps the
\* thread, counts on, and returns from the call it waited for.
LEMMA SentKept ==
    ASSUME Inv, NEW r \in Request, Sent(r), NEW c \in Client, thread' = thread,
           request_id' = [request_id EXCEPT ![c] = request_id'[c]],
           request_id'[c] \in Nat, request_id'[c] >= request_id[c],
           returned \subseteq returned',
           pc' = [pc EXCEPT ![c] = pc'[c]],
           pc[c] = "waiting" => \/ pc'[c] = "waiting" /\ request_id'[c] = request_id[c]
                                \/ \E y \in returned' : y.req = Current(c)
    PROVE  Sent(r)'
<1>0. /\ request_id \in [Client -> Nat] /\ r.client \in Client /\ pc \in [Client -> {"idle", "waiting"}]
      /\ r.thread \in Int /\ r.id \in Int
  BY QueueAssumption DEF Inv, TypeOK, Request
<1>1. HasReturned(r) => HasReturned(r)'
  BY DEF HasReturned
<1>2. CASE r.client # c
  <2>1. request_id'[r.client] = request_id[r.client] /\ pc'[r.client] = pc[r.client]
    BY <1>0, <1>2
  <2>2. Current(r.client)' = Current(r.client)
    BY <2>1 DEF Current
  <2> QED BY <1>1, <2>1, <2>2 DEF Sent
<1>3. CASE r.client = c
  <2>1. r.thread < thread'[c] \/ (r.thread = thread'[c] /\ r.id < request_id'[c])
    BY <1>0, <1>3 DEF Sent
  <2>2. CASE pc[c] = "waiting" /\ r = Current(c)
    <3>1. (pc'[c] = "waiting" /\ r = Current(c)') \/ HasReturned(r)'
      BY <2>2 DEF Current, HasReturned
    <3> QED BY <1>3, <2>1, <3>1 DEF Sent
  <2>3. CASE HasReturned(r)
    BY <1>1, <1>3, <2>1, <2>3 DEF Sent
  <2> QED BY <1>3, <2>2, <2>3 DEF Sent
<1> QED BY <1>2, <1>3

\* The requests on their way after a step were so before it, or are new.
LEMMA SentInvKept ==
    ASSUME Inv, OwnInv, queue' \in Seq(Request), proposed' \subseteq Request,
           \A q \in Request : Sent(q) => Sent(q)',
           NEW New \in SUBSET Request, \A q \in New : Sent(q)',
           \A i \in DOMAIN queue' :
               (\E j \in DOMAIN queue : queue'[i] = queue[j]) \/ queue'[i] \in New,
           \A q \in proposed' :
               q \in proposed \/ (\E j \in DOMAIN queue : q = queue[j])
    PROVE  SentInv'
<1>1. \A j \in DOMAIN queue : queue[j] \in Request /\ Sent(queue[j])
  BY DEF Inv, TypeOK, OwnInv, SentInv
<1>2. ASSUME NEW i \in DOMAIN queue' PROVE Sent(queue[i])'
  <2>1. PICK q \in Request : q = queue'[i]
    OBVIOUS
  <2>2. Sent(q)'
    BY <1>1, <2>1
  <2> QED BY <2>1, <2>2 DEF Sent, HasReturned, Current
<1>3. ASSUME NEW q \in proposed' PROVE Sent(q)'
  BY <1>1 DEF Inv, TypeOK, OwnInv, SentInv
<1> QED BY <1>2, <1>3 DEF SentInv

LEMMA SendOwn == ASSUME NEW c \in Client, Inv, OwnInv, Send(c) PROVE OwnInv'
<1> DEFINE r == [client |-> c, thread |-> thread[c], id |-> request_id[c]]
<1>0. /\ request_id \in [Client -> Nat] /\ thread \in [Client -> Nat] /\ thread' = thread
      /\ pc \in [Client -> {"idle", "waiting"}] /\ pc[c] = "idle"
      /\ request_id' = [request_id EXCEPT ![c] = request_id[c] + 1]
      /\ pc' = [pc EXCEPT ![c] = "waiting"]
      /\ acks' = [acks EXCEPT ![c] = <<>>]
      /\ queue \in Seq(Request) /\ acks \in [Client -> Seq(AckMsg)]
      /\ returned' = returned /\ learned' = learned /\ proposed' = proposed
  BY QueueAssumption DEF Send, Inv, TypeOK
<1>1. r \in Request /\ queue' = Append(queue, r)
  BY DEF Send, Inv, TypeOK, Request
<1>2. SentInv'
  <2>1. ASSUME NEW q \in Request, Sent(q) PROVE Sent(q)'
    <3>1. /\ request_id'[c] \in Nat /\ request_id'[c] >= request_id[c]
          /\ request_id' = [request_id EXCEPT ![c] = request_id'[c]]
          /\ pc' = [pc EXCEPT ![c] = pc'[c]]
      BY <1>0
    <3>2. pc[c] # "waiting" /\ thread' = thread /\ returned \subseteq returned'
      BY <1>0
    <3> QED BY <2>1, <3>1, <3>2, SentKept
  <2>2. ASSUME NEW q \in {r} PROVE Sent(q)'
    <3>1. request_id'[c] = request_id[c] + 1 /\ pc'[c] = "waiting" /\ thread'[c] = thread[c]
      BY <1>0
    <3>2. q.client = c /\ q.thread = thread[c] /\ q.id = request_id[c]
      OBVIOUS
    <3>3. q = Current(c)'
      BY <1>0, <3>1 DEF Current
    <3>4. request_id[c] \in Nat
      BY <1>0
    <3> HIDE DEF r
    <3> QED BY <3>1, <3>2, <3>3, <3>4 DEF Sent
  <2>3. /\ queue' \in Seq(Request)
        /\ \A i \in DOMAIN queue' :
             (\E j \in DOMAIN queue : queue'[i] = queue[j]) \/ queue'[i] \in {r}
    <3> HIDE DEF r
    <3> QED BY <1>0, <1>1
  <2>4. {r} \in SUBSET Request /\ proposed' \subseteq Request
    BY <1>0, <1>1 DEF Inv, TypeOK
  <2> HIDE DEF r
  <2> QED BY <1>0, <2>1, <2>2, <2>3, <2>4, SentInvKept
<1>3. AnswerInv'
  <2> SUFFICES ASSUME NEW d \in Client, pc'[d] = "waiting", NEW i \in DOMAIN acks'[d],
                      acks'[d][i].status
               PROVE  Answers(d, acks[d][i])'
    BY DEF AnswerInv
  <2>1. d # c
    BY <1>0
  <2>2. /\ acks'[d] = acks[d] /\ pc[d] = "waiting" /\ thread'[d] = thread[d]
        /\ request_id'[d] = request_id[d]
    BY <1>0, <2>1
  <2>3. Answers(d, acks'[d][i])
    BY <2>2 DEF OwnInv, AnswerInv
  <2> QED BY <1>0, <2>2, <2>3, AnswersKept DEF Answers, Current, HasReturned
<1>4. LockedIsNotConfirmed' /\ SuccessIsOwnOrLate'
  BY <1>0, ToldKept
<1> QED BY <1>2, <1>3, <1>4 DEF OwnInv
LEMMA SendTimesOutOwn == ASSUME NEW c \in Client, Inv, OwnInv, SendTimesOut(c) PROVE OwnInv'
<1> DEFINE x == [req |-> [client |-> c, thread |-> thread[c], id |-> request_id[c]],
                 result |-> FALSE, status |-> FALSE]
<1>0. /\ request_id \in [Client -> Nat] /\ thread' = thread
      /\ pc \in [Client -> {"idle", "waiting"}] /\ pc[c] = "idle" /\ pc' = pc
      /\ request_id' = [request_id EXCEPT ![c] = request_id[c] + 1]
      /\ acks' = [acks EXCEPT ![c] = <<>>]
      /\ queue \in Seq(Request) /\ acks \in [Client -> Seq(AckMsg)]
      /\ proposed \subseteq Request
      /\ returned' = returned \cup {x}
      /\ learned' = learned /\ proposed' = proposed /\ queue' = queue
  BY QueueAssumption DEF SendTimesOut, Inv, TypeOK
<1> HIDE DEF x
<1>1. SentInv'
  <2>1. ASSUME NEW q \in Request, Sent(q) PROVE Sent(q)'
    <3>1. /\ request_id'[c] \in Nat /\ request_id'[c] >= request_id[c]
          /\ request_id' = [request_id EXCEPT ![c] = request_id'[c]]
          /\ pc' = [pc EXCEPT ![c] = pc'[c]]
      BY <1>0
    <3>2. pc[c] # "waiting" /\ thread' = thread /\ returned \subseteq returned'
      BY <1>0
    <3> QED BY <2>1, <3>1, <3>2, SentKept
  <2>2. /\ queue' \in Seq(Request) /\ proposed' \subseteq Request
        /\ \A i \in DOMAIN queue' : \E j \in DOMAIN queue : queue'[i] = queue[j]
        /\ \A q \in proposed' : q \in proposed
    BY <1>0
  <2>3. {} \in SUBSET Request /\ \A q \in {} : Sent(q)'
    OBVIOUS
  <2> QED BY <2>1, <2>2, <2>3, SentInvKept
<1>2. AnswerInv'
  <2> SUFFICES ASSUME NEW d \in Client, pc'[d] = "waiting", NEW i \in DOMAIN acks'[d],
                      acks'[d][i].status
               PROVE  Answers(d, acks[d][i])'
    BY DEF AnswerInv
  <2>1. d # c
    BY <1>0
  <2>2. /\ acks'[d] = acks[d] /\ pc[d] = "waiting" /\ thread'[d] = thread[d]
        /\ request_id'[d] = request_id[d]
    BY <1>0, <2>1
  <2>3. Answers(d, acks'[d][i])
    BY <2>2 DEF OwnInv, AnswerInv
  <2> QED BY <1>0, <2>2, <2>3, AnswersKept DEF Answers, Current, HasReturned
<1>3. LockedIsNotConfirmed' /\ SuccessIsOwnOrLate'
  BY <1>0, ToldKept DEF x
<1> QED BY <1>1, <1>2, <1>3 DEF OwnInv

\* A return of c, from an ack or not: c waits no more.
LEMMA ReturnOwn ==
    ASSUME NEW c \in Client, Inv, OwnInv, NEW x, returned' = returned \cup {x},
           x.req = Current(c), pc[c] = "waiting", pc' = [pc EXCEPT ![c] = "idle"],
           acks' \in [Client -> Seq(AckMsg)],
           \A d \in Client : d # c => acks'[d] = acks[d],
           UNCHANGED <<thread, request_id, queue, proposed, learned>>
    PROVE  SentInv' /\ AnswerInv'
<1>0. /\ request_id \in [Client -> Nat] /\ pc \in [Client -> {"idle", "waiting"}]
      /\ queue \in Seq(Request) /\ proposed \subseteq Request
  BY QueueAssumption DEF Inv, TypeOK
<1>1. SentInv'
  <2>1. ASSUME NEW q \in Request, Sent(q) PROVE Sent(q)'
    <3>1. /\ request_id'[c] \in Nat /\ request_id'[c] >= request_id[c]
          /\ request_id' = [request_id EXCEPT ![c] = request_id'[c]]
          /\ pc' = [pc EXCEPT ![c] = pc'[c]]
      BY <1>0
    <3>2. thread' = thread /\ returned \subseteq returned'
          /\ \E y \in returned' : y.req = Current(c)
      OBVIOUS
    <3> QED BY <2>1, <3>1, <3>2, SentKept
  <2>2. /\ queue' \in Seq(Request) /\ proposed' \subseteq Request
        /\ \A i \in DOMAIN queue' : \E j \in DOMAIN queue : queue'[i] = queue[j]
        /\ \A q \in proposed' : q \in proposed
    BY <1>0
  <2>3. {} \in SUBSET Request /\ \A q \in {} : Sent(q)'
    OBVIOUS
  <2> QED BY <2>1, <2>2, <2>3, SentInvKept
<1>2. AnswerInv'
  <2> SUFFICES ASSUME NEW d \in Client, pc'[d] = "waiting", NEW i \in DOMAIN acks'[d],
                      acks'[d][i].status
               PROVE  Answers(d, acks[d][i])'
    BY DEF AnswerInv
  <2>1. d # c
    BY <1>0
  <2>2. /\ acks'[d] = acks[d] /\ pc[d] = "waiting" /\ thread'[d] = thread[d]
        /\ request_id'[d] = request_id[d]
    BY <1>0, <2>1
  <2>3. Answers(d, acks'[d][i])
    BY <2>2 DEF OwnInv, AnswerInv
  <2> QED BY <2>2, <2>3, AnswersKept DEF Answers, Current, HasReturned
<1> QED BY <1>1, <1>2

\* ReceiveAck: the success in the ack taken is the caller's own or a late one,
\* and no call that holds locks is told of its own.
LEMMA ReceiveAckOwn == ASSUME NEW c \in Client, Inv, OwnInv, ReceiveAck(c) PROVE OwnInv'
<1> DEFINE k == Head(acks[c])
           x == [req |-> Current(c), result |-> k.id = Current(c).id,
                 status |-> k.status]
<1>0. /\ acks \in [Client -> Seq(AckMsg)] /\ acks[c] # <<>> /\ pc[c] = "waiting"
      /\ returned' = returned \cup {x} /\ pc' = [pc EXCEPT ![c] = "idle"]
      /\ acks' = [acks EXCEPT ![c] = Tail(acks[c])]
      /\ UNCHANGED <<thread, request_id, queue, proposed, learned>>
      /\ request_id \in [Client -> Nat] /\ thread \in [Client -> Nat]
  BY QueueAssumption DEF ReceiveAck, Inv, TypeOK
<1>1. k \in AckMsg /\ 1 \in DOMAIN acks[c] /\ k = acks[c][1] /\ Tail(acks[c]) \in Seq(AckMsg)
  BY <1>0
<1>2. /\ x.req = Current(c) /\ x.status = k.status
      /\ x.result => k.id = Current(c).id
  OBVIOUS
<1>3. SentInv' /\ AnswerInv'
  <2> HIDE DEF x, k
  <2>1. /\ acks' \in [Client -> Seq(AckMsg)]
        /\ \A d \in Client : d # c => acks'[d] = acks[d]
    BY <1>0, <1>1
  <2> QED BY <1>0, <1>2, <2>1, ReturnOwn
<1>4. /\ Current(c).client = c /\ Current(c).thread = thread[c]
      /\ Current(c).id = request_id[c] - 1
  BY DEF Current
<1> HIDE DEF x, k
<1>5. ASSUME k.status
      PROVE  \E l \in learned :
               /\ l.status /\ l.req.client = c /\ l.req.id = k.id
               /\ \/ l.req = Current(c) /\ k.id \notin Checking
                  \/ Before(l.req, Current(c)) /\ HasReturned(l.req)
  BY <1>0, <1>1, <1>5 DEF OwnInv, AnswerInv, Answers
<1>6. LockedIsNotConfirmed'
  <2> SUFFICES ASSUME NEW y \in returned', y.req.id \in Checking, y.result, y.status
               PROVE  \E l \in learned : /\ l.req.client = y.req.client
                                         /\ l.req.id = y.req.id
                                         /\ l.req.thread < y.req.thread
    BY <1>0 DEF LockedIsNotConfirmed
  <2>1. CASE y \in returned
    BY <2>1 DEF OwnInv, LockedIsNotConfirmed
  <2>2. CASE y = x
    <3>1. k.status /\ k.id = Current(c).id /\ k.id \in Checking
      BY <1>2, <2>2
    <3>2. PICK l \in learned :
               /\ l.req.client = c /\ l.req.id = k.id
               /\ Before(l.req, Current(c))
      BY <1>5, <3>1
    <3>3. ~ (l.req.id < Current(c).id)
      BY <1>0, <1>4, <3>1, <3>2
    <3>4. l.req.thread < Current(c).thread
      BY <3>2, <3>3 DEF Before
    <3> QED BY <1>2, <1>4, <2>2, <3>1, <3>2, <3>4
  <2> QED BY <1>0, <2>1, <2>2
<1>7. SuccessIsOwnOrLate'
  <2> SUFFICES ASSUME NEW y \in returned', y.status
               PROVE  \E l \in learned :
                        /\ l.status
                        /\ l.req.client = y.req.client
                        /\ \/ l.req = y.req
                           \/ /\ \/ l.req.thread < y.req.thread
                                 \/ l.req.thread = y.req.thread /\ l.req.id < y.req.id
                              /\ \E z \in returned' : z.req = l.req
    BY <1>0 DEF SuccessIsOwnOrLate
  <2>1. CASE y \in returned
    <3>1. PICK l \in learned :
            /\ l.status
            /\ l.req.client = y.req.client
            /\ \/ l.req = y.req
               \/ /\ \/ l.req.thread < y.req.thread
                     \/ l.req.thread = y.req.thread /\ l.req.id < y.req.id
                  /\ \E z \in returned : z.req = l.req
      BY <2>1 DEF OwnInv, SuccessIsOwnOrLate
    <3> QED BY <1>0, <3>1
  <2>2. CASE y = x
    <3>1. PICK l \in learned :
               /\ l.status /\ l.req.client = c
               /\ \/ l.req = Current(c)
                  \/ Before(l.req, Current(c)) /\ HasReturned(l.req)
      BY <1>2, <1>5, <2>2
    <3>2. HasReturned(l.req) => \E z \in returned' : z.req = l.req
      BY <1>0 DEF HasReturned
    <3> QED BY <1>2, <1>4, <2>2, <3>1, <3>2 DEF Before
  <2> QED BY <1>0, <2>1, <2>2
<1> QED BY <1>3, <1>6, <1>7 DEF OwnInv

LEMMA ReceiveTimesOutOwn ==
    ASSUME NEW c \in Client, Inv, OwnInv, ReceiveTimesOut(c) PROVE OwnInv'
<1> DEFINE x == [req |-> Current(c), result |-> FALSE, status |-> FALSE]
<1>0. /\ acks \in [Client -> Seq(AckMsg)] /\ pc[c] = "waiting"
      /\ returned' = returned \cup {x} /\ pc' = [pc EXCEPT ![c] = "idle"]
      /\ UNCHANGED <<thread, request_id, queue, acks, proposed, learned>>
  BY DEF ReceiveTimesOut, Inv, TypeOK
<1>1. x.req = Current(c) /\ ~ x.status
  OBVIOUS
<1> HIDE DEF x
<1>2. SentInv' /\ AnswerInv'
  BY <1>0, <1>1, ReturnOwn
<1>3. LockedIsNotConfirmed' /\ SuccessIsOwnOrLate'
  BY <1>0, <1>1, ToldKept
<1> QED BY <1>2, <1>3 DEF OwnInv

\* NewThread: the thread that ends has no call that waits.
LEMMA NewThreadOwn == ASSUME NEW c \in Client, Inv, OwnInv, NewThread(c) PROVE OwnInv'
<1>0. /\ thread \in [Client -> Nat] /\ request_id \in [Client -> Nat] /\ pc[c] = "idle"
      /\ thread' = [thread EXCEPT ![c] = thread[c] + 1]
      /\ request_id' = [request_id EXCEPT ![c] = 0]
      /\ UNCHANGED <<pc, queue, acks, proposed, learned, returned>>
      /\ queue \in Seq(Request) /\ proposed \subseteq Request
  BY QueueAssumption DEF NewThread, Inv, TypeOK
<1>1. SentInv'
  <2>1. ASSUME NEW q \in Request, Sent(q) PROVE Sent(q)'
    <3>0. q.client \in Client /\ q.thread \in Int
      BY QueueAssumption DEF Request
    <3>1. HasReturned(q) => HasReturned(q)'
      BY <1>0 DEF HasReturned
    <3>2. CASE q.client = c
      BY <1>0, <2>1, <3>0, <3>1, <3>2 DEF Sent
    <3>3. CASE q.client # c
      <4>1. thread'[q.client] = thread[q.client] /\ request_id'[q.client] = request_id[q.client]
        BY <1>0, <3>0, <3>3
      <4>2. Current(q.client)' = Current(q.client)
        BY <4>1 DEF Current
      <4> QED BY <1>0, <2>1, <3>1, <4>1, <4>2 DEF Sent
    <3> QED BY <3>2, <3>3
  <2>2. /\ queue' \in Seq(Request) /\ proposed' \subseteq Request
        /\ \A i \in DOMAIN queue' : \E j \in DOMAIN queue : queue'[i] = queue[j]
        /\ \A q \in proposed' : q \in proposed
    BY <1>0
  <2>3. {} \in SUBSET Request /\ \A q \in {} : Sent(q)'
    OBVIOUS
  <2> QED BY <2>1, <2>2, <2>3, SentInvKept
<1>2. AnswerInv'
  <2> SUFFICES ASSUME NEW d \in Client, pc'[d] = "waiting", NEW i \in DOMAIN acks'[d],
                      acks'[d][i].status
               PROVE  Answers(d, acks[d][i])'
    BY DEF AnswerInv
  <2>1. /\ acks'[d] = acks[d] /\ pc[d] = "waiting" /\ thread'[d] = thread[d]
        /\ request_id'[d] = request_id[d]
    BY <1>0
  <2>2. Answers(d, acks'[d][i])
    BY <2>1 DEF OwnInv, AnswerInv
  <2> QED BY <1>0, <2>1, <2>2, AnswersKept DEF Answers, Current, HasReturned
<1>3. LockedIsNotConfirmed' /\ SuccessIsOwnOrLate'
  BY <1>0, ToldKept
<1> QED BY <1>1, <1>2, <1>3 DEF OwnInv

LEMMA ForwardOwn == ASSUME Inv, OwnInv, Forward PROVE OwnInv'
<1>0. /\ queue \in Seq(Request) /\ queue # <<>> /\ proposed \subseteq Request
      /\ queue' = Tail(queue)
      /\ proposed' = proposed \/ proposed' = proposed \cup {Head(queue)}
      /\ UNCHANGED <<thread, request_id, pc, acks, learned, returned>>
  BY DEF Forward, Inv, TypeOK
<1>1. /\ Head(queue) \in Request /\ 1 \in DOMAIN queue /\ Head(queue) = queue[1]
      /\ Tail(queue) \in Seq(Request)
      /\ \A i \in DOMAIN Tail(queue) :
            i + 1 \in DOMAIN queue /\ Tail(queue)[i] = queue[i + 1]
  BY <1>0
<1>2. SentInv'
  <2>1. ASSUME NEW q \in Request, Sent(q) PROVE Sent(q)'
    BY <1>0, <2>1 DEF Sent, HasReturned, Current
  <2>2. /\ queue' \in Seq(Request) /\ proposed' \subseteq Request
        /\ \A i \in DOMAIN queue' : \E j \in DOMAIN queue : queue'[i] = queue[j]
        /\ \A q \in proposed' : q \in proposed \/ \E j \in DOMAIN queue : q = queue[j]
    BY <1>0, <1>1
  <2>3. {} \in SUBSET Request /\ \A q \in {} : Sent(q)'
    OBVIOUS
  <2> QED BY <2>1, <2>2, <2>3, SentInvKept
<1>3. AnswerInv' /\ LockedIsNotConfirmed' /\ SuccessIsOwnOrLate'
  BY <1>0 DEF OwnInv, AnswerInv, Answers, HasReturned, Current, LockedIsNotConfirmed,
              SuccessIsOwnOrLate
<1> QED BY <1>2, <1>3 DEF OwnInv

\* Learn: a client that waits is acked a success of its own only when it
\* holds no locks; every other request on its way has returned.
LEMMA LearnOwn ==
    ASSUME NEW r \in proposed, NEW status \in BOOLEAN, Inv, OwnInv, Learn(r, status)
    PROVE  OwnInv'
<1> DEFINE l == [req |-> r, status |-> status]
           k == [id |-> r.id, status |-> status]
<1>0. /\ r \in Request /\ r.client \in Client /\ k \in AckMsg
      /\ r.thread \in Int /\ r.id \in Int
      /\ acks \in [Client -> Seq(AckMsg)]
      /\ request_id \in [Client -> Nat] /\ thread \in [Client -> Nat]
  <2>1. r \in Request
    BY DEF Inv, TypeOK
  <2>2. r.client \in Client /\ r.thread \in Int /\ r.id \in Int /\ k \in AckMsg
    BY <2>1, QueueAssumption DEF Request, AckMsg
  <2> QED BY <2>1, <2>2, QueueAssumption DEF Inv, TypeOK
<1>1. /\ learned' = learned \cup {l}
      /\ status => ~ Locked(r)
      /\ UNCHANGED <<thread, request_id, pc, queue, proposed, returned>>
      /\ acks' = acks \/ acks' = [acks EXCEPT ![r.client] = Append(acks[r.client], k)]
  BY DEF Learn
<1>2. SentInv'
  BY <1>1 DEF OwnInv, SentInv, Sent, HasReturned, Current
<1>3. LockedIsNotConfirmed' /\ SuccessIsOwnOrLate'
  <2> HIDE DEF l, k
  <2> QED BY <1>1, ToldKept
<1>4. ASSUME status, pc[r.client] = "waiting"
      PROVE  \/ r = Current(r.client) /\ r.id \notin Checking
             \/ Before(r, Current(r.client)) /\ HasReturned(r)
  <2>1. Sent(r)
    BY DEF OwnInv, SentInv
  <2>2. CASE r = Current(r.client)
    BY <1>1, <1>4, <2>2 DEF Locked
  <2>3. CASE r # Current(r.client)
    <3>1. HasReturned(r)
      BY <2>1, <2>3 DEF Sent
    <3>2. r = [client |-> r.client, thread |-> r.thread, id |-> r.id]
      BY <1>0 DEF Request
    <3>3. r.thread < thread[r.client] \/ r.id # request_id[r.client] - 1
      BY <2>1, <2>3, <3>2 DEF Sent, Current
    <3>4. Before(r, Current(r.client))
      BY <1>0, <2>1, <3>3 DEF Before, Current, Sent
    <3> QED BY <3>1, <3>4
  <2> QED BY <2>2, <2>3
<1>5. AnswerInv'
  <2> SUFFICES ASSUME NEW d \in Client, pc'[d] = "waiting", NEW i \in DOMAIN acks'[d],
                      acks'[d][i].status
               PROVE  \E m \in learned' :
                        /\ m.status /\ m.req.client = d /\ m.req.id = acks'[d][i].id
                        /\ \/ m.req = Current(d) /\ acks'[d][i].id \notin Checking
                           \/ Before(m.req, Current(d)) /\ HasReturned(m.req)
    BY <1>1 DEF AnswerInv, Answers, Current, HasReturned, Before
  <2>1. CASE i \in DOMAIN acks[d] /\ acks'[d][i] = acks[d][i]
    <3>1. Answers(d, acks[d][i])
      BY <1>1, <2>1 DEF OwnInv, AnswerInv
    <3> HIDE DEF l, k
    <3> QED BY <1>1, <2>1, <3>1 DEF Answers
  <2>2. CASE d = r.client /\ acks'[d][i] = k
    <3>1. l \in learned' /\ l.status = status /\ l.req = r
      BY <1>1
    <3>2. k.id = r.id /\ k.status = status
      OBVIOUS
    <3> HIDE DEF l, k
    <3> QED BY <1>1, <1>4, <2>2, <3>1, <3>2
  <2>3. (i \in DOMAIN acks[d] /\ acks'[d][i] = acks[d][i]) \/ (d = r.client /\ acks'[d][i] = k)
    <3> HIDE DEF l, k
    <3>1. CASE acks' = [acks EXCEPT ![r.client] = Append(acks[r.client], k)] /\ d = r.client
      <4>1. acks'[d] = Append(acks[d], k) /\ acks[d] \in Seq(AckMsg)
        BY <1>0, <3>1
      <4> QED BY <1>0, <3>1, <4>1
    <3>2. CASE acks' = [acks EXCEPT ![r.client] = Append(acks[r.client], k)] /\ d # r.client
      BY <1>0, <3>2
    <3> QED BY <1>1, <3>1, <3>2
  <2> QED BY <2>1, <2>2, <2>3
<1> QED BY <1>2, <1>3, <1>5 DEF OwnInv

(***************************************************************************)
(* The two invariants together are inductive: what is on its way has an id *)
(* the counter has passed, and a success in the queue of a waiting client  *)
(* is its own, when it holds no locks, or a late one.                      *)
(***************************************************************************)
THEOREM OwnInvariance == Spec => [](Inv /\ OwnInv)
<1>1. Init => OwnInv
  BY DEF Init, OwnInv, SentInv, AnswerInv, LockedIsNotConfirmed, SuccessIsOwnOrLate
<1>2. Inv /\ OwnInv /\ [Next]_vars => OwnInv'
  <2> SUFFICES ASSUME Inv, OwnInv, [Next]_vars PROVE OwnInv'
    OBVIOUS
  <2>1. CASE UNCHANGED vars
    BY <2>1 DEF vars, OwnInv, SentInv, Sent, AnswerInv, Answers, HasReturned, Current,
                LockedIsNotConfirmed, SuccessIsOwnOrLate
  <2>2. ASSUME NEW c \in Client, ClientStep(c) PROVE OwnInv'
    BY <2>2, SendOwn, SendTimesOutOwn, ReceiveAckOwn, ReceiveTimesOutOwn, NewThreadOwn
       DEF ClientStep
  <2>3. CASE DaemonStep
    BY <2>3, ForwardOwn, LearnOwn DEF DaemonStep
  <2> QED BY <2>1, <2>2, <2>3 DEF Next
<1> QED BY InitInv, StepInv, <1>1, <1>2, PTL DEF Spec

(***************************************************************************)
(* A call that keeps its transactions open while it waits is never told of *)
(* its own success (the transactions before req.send() in write_api.cpp),  *)
(* however long the queues are and whatever is lost or repeated.           *)
(***************************************************************************)
THEOREM LockedCallsAreNotConfirmed == Spec => []LockedIsNotConfirmed
<1>1. OwnInv => LockedIsNotConfirmed
  BY DEF OwnInv
<1> QED BY <1>1, OwnInvariance, PTL

(***************************************************************************)
(* A success that WriteRequest::send hands on is that of the request       *)
(* itself, or of an earlier one of the client id whose call had returned.  *)
(***************************************************************************)
THEOREM SuccessesAreOwnOrLate == Spec => []SuccessIsOwnOrLate
<1>1. OwnInv => SuccessIsOwnOrLate
  BY DEF OwnInv
<1> QED BY <1>1, OwnInvariance, PTL

-----------------------------------------------------------------------------
(* The cutting of messages: counting *)

\* A set of numbers has a least one.
LEMMA Least ==
    ASSUME NEW S, S \subseteq Nat, S # {}
    PROVE  \E m \in S : \A k \in S : m <= k
<1>1. PICK m \in S : \A k \in S : <<k, m>> \notin OpToRel(<, Nat)
  BY NatLessThanWellFounded, WFMin
<1>2. \A k \in S : ~ (k < m)
  BY <1>1 DEF OpToRel
<1> QED
  BY <1>2

\* Counting from 0 to N stays in S.
LEMMA UpTo ==
    ASSUME NEW N \in Nat, NEW S, 0 \in S, \A k \in 0..(N - 1) : k \in S => k + 1 \in S
    PROVE  \A k \in 0..N : k \in S
<1> DEFINE Bad == {k \in 0..N : k \notin S}
<1>1. Bad \subseteq Nat
  OBVIOUS
<1>2. ASSUME Bad # {} PROVE FALSE
  <2>1. PICK m \in Bad : \A k \in Bad : m <= k
    <3> HIDE DEF Bad
    <3> QED
      BY <1>1, <1>2, Least
  <2>2. m # 0 /\ m - 1 \in 0..(N - 1)
    OBVIOUS
  <2>3. m - 1 \notin Bad
    BY <2>1, <2>2
  <2> QED
    BY <2>2, <2>3
<1> QED
  BY <1>2

\* The least number of a set.
LEMMA MinIs ==
    ASSUME NEW S, NEW m \in S, \A x \in S : x \in Int /\ m <= x
    PROVE  Min(S) = m
<1>1. \A y \in S : m =< y
  OBVIOUS
<1>2. \A x \in S : (\A y \in S : x =< y) => x = m
  OBVIOUS
<1> QED
  BY <1>1, <1>2, Zenon DEF Min


-----------------------------------------------------------------------------
(* How many rounds it takes to send a message *)

\* The remainder of a division.
LEMMA Modulus ==
    ASSUME NEW a \in Nat, NEW b \in Nat \ {0}
    PROVE  /\ a % b \in Nat /\ a % b < b
           /\ b <= a /\ a < 2 * b => a % b = a - b
<1>1. /\ a % b \in 0..(b - 1)
      /\ a = b * (a \div b) + (a % b) /\ a \div b \in Int
  OBVIOUS
<1> DEFINE q == a \div b
           r == a % b
<1>2. q \in Int /\ r \in Int /\ 0 <= r /\ r < b /\ a = b * q + r
  BY <1>1
<1> HIDE DEF q, r
<1>3. ASSUME b <= a, a < 2 * b PROVE q = 1
  <2>1. CASE q <= 0
    <3>1. b * q <= 0
      BY <1>2, <2>1
    <3> QED
      BY <1>2, <1>3, <3>1
  <2>2. CASE q >= 2
    <3>1. b * q >= b * 2
      BY <1>2, <2>2
    <3> QED
      BY <1>2, <1>3, <3>1
  <2> QED
    BY <1>2, <2>1, <2>2
<1>4. ASSUME b <= a, a < 2 * b PROVE r = a - b
  BY <1>2, <1>3, <1>4
<1> QED
  BY <1>2, <1>4 DEF r

\* The first entry of a sound message holds what send() counts as sent, and
\* leaves room for the header.
LEMMA SoundFirst ==
    ASSUME NEW bytes \in Nat, Sound(bytes)
    PROVE  /\ First(bytes) = SendingFirst(bytes)
           /\ SendingFirst(bytes) \in 1..bytes
<1> DEFINE R == Remainder(bytes)
           S == SendingFirst(bytes)
<1>1. /\ bufsize \in Nat \ {0} /\ overhead \in Nat \ {0} /\ 2 * overhead < bufsize
      /\ bytes > 0 /\ bytes + overhead \in Nat
  BY FramingAssumption DEF Sound
<1>2. /\ R \in Nat /\ R < bufsize
      /\ bufsize <= bytes + overhead /\ bytes + overhead < 2 * bufsize
            => R = bytes + overhead - bufsize
  <2> DEFINE a == bytes + overhead
  <2>1. a \in Nat
    BY <1>1
  <2> HIDE DEF a
  <2>2. /\ a % bufsize \in Nat /\ a % bufsize < bufsize
        /\ bufsize <= a /\ a < 2 * bufsize => a % bufsize = a - bufsize
    BY <1>1, <2>1, Modulus
  <2>3. R = a % bufsize
    BY DEF Remainder, a
  <2> HIDE DEF R
  <2>4. R \in Nat /\ R < bufsize /\ (bufsize <= a /\ a < 2 * bufsize => R = a - bufsize)
    BY <2>2, <2>3
  <2> QED
    BY <1>1, <2>4 DEF a
<1>3. bytes <= bufsize \/ R >= overhead
  BY DEF Sound
<1>4. S = IF LeastOf(bytes, bufsize) > bufsize - overhead
          THEN LeastOf(bytes, bufsize) - R ELSE LeastOf(bytes, bufsize)
  BY DEF SendingFirst
<1>5. First(bytes) = IF S > bufsize - overhead THEN S + R - overhead ELSE S
  BY DEF First
<1> HIDE DEF R, S
<1>6. S \in 1..bytes /\ S <= bufsize - overhead
  <2>1. CASE bytes <= bufsize - overhead
    <3>1. LeastOf(bytes, bufsize) = bytes
      BY <1>1, <2>1 DEF LeastOf
    <3> QED
      BY <1>1, <1>4, <2>1, <3>1
  <2>2. CASE bytes > bufsize - overhead /\ bytes <= bufsize
    <3>1. LeastOf(bytes, bufsize) = bytes
      BY <1>1, <2>2 DEF LeastOf
    <3>2. R = bytes + overhead - bufsize
      BY <1>1, <1>2, <2>2
    <3> QED
      BY <1>1, <1>4, <2>2, <3>1, <3>2
  <2>3. CASE bytes > bufsize
    <3>1. LeastOf(bytes, bufsize) = bufsize
      BY <1>1, <2>3 DEF LeastOf
    <3> QED
      BY <1>1, <1>2, <1>3, <1>4, <2>3, <3>1
  <2> QED
    BY <1>1, <2>1, <2>2, <2>3
<1>7. First(bytes) = S
  BY <1>1, <1>5, <1>6
<1> QED
  BY <1>6, <1>7 DEF S

\* Round after round more is sent, until all is.
LEMMA Cuts ==
    ASSUME NEW bytes \in Nat, Sound(bytes)
    PROVE  /\ \A k \in 1..bytes : Cut(bytes, k) \in 1..bytes
           /\ Cut(bytes, 1) = SendingFirst(bytes)
           /\ \A k \in 1..(bytes - 1) : Cut(bytes, k) <= Cut(bytes, k + 1)
           /\ Cut(bytes, bytes) = bytes
<1> DEFINE S == SendingFirst(bytes)
<1>1. /\ bufsize \in Nat /\ bufsize >= 1 /\ bytes >= 1
  BY FramingAssumption DEF Sound
<1>2. S \in 1..bytes
  BY SoundFirst
<1>3. \A k : Cut(bytes, k) = IF bytes < S + (k - 1) * bufsize THEN bytes
                             ELSE S + (k - 1) * bufsize
  BY DEF Cut, LeastOf
<1> HIDE DEF S
<1>4. ASSUME NEW k \in 1..bytes
      PROVE  /\ (k - 1) * bufsize \in Nat
             /\ ((k + 1) - 1) * bufsize = (k - 1) * bufsize + bufsize
             /\ k - 1 <= (k - 1) * bufsize
  <2> DEFINE j == k - 1
  <2>1. j \in Nat /\ (k + 1) - 1 = j + 1
    OBVIOUS
  <2> HIDE DEF j
  <2>2. j * bufsize \in Nat /\ (j + 1) * bufsize = j * bufsize + bufsize
    BY <1>1, <2>1
  <2>3. j <= j * bufsize
    <3>1. bufsize - 1 \in Nat /\ j * (bufsize - 1) \in Nat
      BY <1>1, <2>1
    <3>2. j * bufsize = j * (bufsize - 1) + j
      BY <1>1, <2>1
    <3> QED
      BY <2>1, <3>1, <3>2
  <2> QED
    BY <2>1, <2>2, <2>3 DEF j
<1>5. ASSUME NEW k \in 1..bytes PROVE Cut(bytes, k) \in 1..bytes
  BY <1>1, <1>2, <1>3, <1>4
<1>6. Cut(bytes, 1) = S
  <2>1. (1 - 1) * bufsize = 0
    BY <1>1
  <2> QED
    BY <1>2, <1>3, <2>1
<1>7. ASSUME NEW k \in 1..(bytes - 1) PROVE Cut(bytes, k) <= Cut(bytes, k + 1)
  <2> DEFINE m == (k - 1) * bufsize
  <2>1. k \in 1..bytes
    OBVIOUS
  <2>2. m \in Nat /\ ((k + 1) - 1) * bufsize = m + bufsize
    BY <1>4, <2>1
  <2>3. /\ Cut(bytes, k) = IF bytes < S + m THEN bytes ELSE S + m
        /\ Cut(bytes, k + 1) = IF bytes < S + (m + bufsize) THEN bytes ELSE S + (m + bufsize)
    BY <1>3, <2>2
  <2> HIDE DEF m
  <2> QED
    BY <1>1, <1>2, <2>2, <2>3
<1>8. Cut(bytes, bytes) = bytes
  <2> DEFINE m == (bytes - 1) * bufsize
  <2>1. m \in Nat /\ bytes - 1 <= m
    BY <1>1, <1>4
  <2>2. Cut(bytes, bytes) = IF bytes < S + m THEN bytes ELSE S + m
    BY <1>3
  <2> HIDE DEF m
  <2> QED
    BY <1>1, <1>2, <2>1, <2>2
<1> QED
  BY <1>5, <1>6, <1>7, <1>8 DEF S

\* All is sent after the last round and not before.
LEMMA RoundsEnd ==
    ASSUME NEW bytes \in Nat, Sound(bytes)
    PROVE  /\ Rounds(bytes) \in 1..bytes
           /\ Cut(bytes, Rounds(bytes)) = bytes
           /\ \A k \in 1..(Rounds(bytes) - 1) : Cut(bytes, k) < bytes
<1> DEFINE S == {k \in 1..bytes : Cut(bytes, k) = bytes}
<1>1. /\ \A k \in 1..bytes : Cut(bytes, k) \in 1..bytes
      /\ Cut(bytes, bytes) = bytes
  BY Cuts
<1>2. bytes \in S /\ S \subseteq Nat
  BY <1>1 DEF Sound
<1>3. PICK m \in S : \A k \in S : m <= k
  <2> HIDE DEF S
  <2> QED
    BY <1>2, Least
<1>4. Min(S) = m
  <2> HIDE DEF S
  <2>1. \A x \in S : x \in Int /\ m <= x
    BY <1>2, <1>3
  <2> QED
    BY <2>1, MinIs
<1>5. Rounds(bytes) = m
  BY <1>4 DEF Rounds
<1>6. m \in 1..bytes /\ Cut(bytes, m) = bytes
  BY <1>3
<1>7. ASSUME NEW k \in 1..(m - 1) PROVE Cut(bytes, k) < bytes
  <2>1. k \in 1..bytes /\ ~(m <= k)
    BY <1>6
  <2>2. k \notin S
    BY <1>3, <2>1
  <2>3. Cut(bytes, k) # bytes /\ Cut(bytes, k) \in 1..bytes
    BY <1>1, <2>1, <2>2
  <2> QED
    BY <2>3
<1> QED
  BY <1>5, <1>6, <1>7

-----------------------------------------------------------------------------
(* How a message is put together *)

\* Two parts that follow on each other.
LEMMA Joined ==
    ASSUME NEW x, NEW a \in Nat, NEW b \in Nat, a <= b
    PROVE  Payload(x, 1, a) \o Payload(x, a + 1, b) = Payload(x, 1, b)
<1> DEFINE s == Payload(x, 1, a)
           t == Payload(x, a + 1, b)
           u == Payload(x, 1, b)
           Byte == [sender : {x}, at : Int]
<1>1. /\ s \in Seq(Byte) /\ Len(s) = a /\ \A i \in 1..a : s[i] = [sender |-> x, at |-> i]
  <2>1. s = [i \in 1..a |-> [sender |-> x, at |-> i]]
    BY DEF Payload
  <2> HIDE DEF s
  <2> QED
    BY <2>1
<1>2. /\ u \in Seq(Byte) /\ Len(u) = b /\ \A i \in 1..b : u[i] = [sender |-> x, at |-> i]
  <2>1. u = [i \in 1..b |-> [sender |-> x, at |-> i]]
    BY DEF Payload
  <2> HIDE DEF u
  <2> QED
    BY <2>1
<1> DEFINE n == b - a
<1>3. /\ t \in Seq(Byte) /\ Len(t) = n
      /\ \A i \in 1..n : t[i] = [sender |-> x, at |-> a + i]
  <2>1. t = [i \in 1..n |-> [sender |-> x, at |-> a + i]]
    <3>1. b - (a + 1) + 1 = n /\ \A i \in 1..n : (a + 1) + i - 1 = a + i
      OBVIOUS
    <3> QED
      BY <3>1 DEF Payload
  <2>2. n \in Nat /\ \A i \in 1..n : [sender |-> x, at |-> a + i] \in Byte
    OBVIOUS
  <2> HIDE DEF t, Byte, n
  <2>3. \A i \in 1..n : t[i] = [sender |-> x, at |-> a + i]
    BY <2>1, Zenon
  <2>4. t \in [1..n -> Byte]
    BY <2>1, <2>2, Zenon
  <2>5. t \in Seq(Byte) /\ Len(t) = n
    BY <2>2, <2>4
  <2> QED
    BY <2>3, <2>5
<1>a. n \in Nat /\ b = a + n
  OBVIOUS
<1> HIDE DEF s, t, u, Byte, n
<1>4. s \o t \in Seq(Byte) /\ Len(s \o t) = b
  BY <1>1, <1>3, <1>a
<1>5. ASSUME NEW i \in 1..b PROVE (s \o t)[i] = u[i]
  <2>1. CASE i <= a
    <3>1. i \in 1..a
      BY <2>1
    <3>2. (s \o t)[i] = s[i]
      BY <1>1, <1>3, <3>1
    <3> QED
      BY <1>1, <1>2, <3>1, <3>2
  <2>2. CASE i > a
    <3>1. i - a \in 1..n /\ a + (i - a) = i
      BY <1>a, <2>2
    <3>2. i \in 1..(Len(s) + Len(t)) /\ i > Len(s)
      BY <1>1, <1>3, <1>a, <2>2
    <3>3. (s \o t)[i] = t[i - Len(s)]
      BY <1>1, <1>3, <3>2
    <3>4. (s \o t)[i] = t[i - a]
      BY <1>1, <3>3
    <3>5. t[i - a] = [sender |-> x, at |-> a + (i - a)]
      BY <1>3, <3>1
    <3>6. u[i] = [sender |-> x, at |-> i]
      BY <1>2
    <3> QED
      BY <3>1, <3>4, <3>5, <3>6
  <2>3. i <= a \/ i > a
    OBVIOUS
  <2> QED
    BY <2>1, <2>2, <2>3
<1>6. s \o t = u
  BY <1>2, <1>4, <1>5
<1> QED
  BY <1>6 DEF s, t, u

\* The first entry after its header.
LEMMA Headed ==
    ASSUME NEW x, NEW bytes \in Nat, NEW a \in Nat
    PROVE  LET buf == Entry(x, bytes, 1, a).buf
           IN  SubSeq(buf, overhead + 1, Len(buf)) = Payload(x, 1, a)
<1> DEFINE Byte == [sender : {x}, at : Int]
           h == Header(x, bytes)
           s == Payload(x, 1, a)
           buf == Entry(x, bytes, 1, a).buf
<1>1. overhead \in Nat
  BY FramingAssumption
<1>2. h \in Seq(Byte) /\ Len(h) = overhead
  <2>1. h = [i \in 1..overhead |-> [sender |-> x, at |-> 1 - i]]
    BY DEF Header
  <2> HIDE DEF h
  <2> QED
    BY <1>1, <2>1
<1>3. s \in Seq(Byte) /\ Len(s) = a
  <2>1. s = [i \in 1..a |-> [sender |-> x, at |-> i]]
    BY DEF Payload
  <2> HIDE DEF s
  <2> QED
    BY <2>1
<1>4. buf = h \o s
  BY DEF Entry
<1> HIDE DEF h, s, buf, Byte
<1>5. /\ buf \in Seq(Byte) /\ Len(buf) = overhead + a
      /\ \A i \in 1..a : buf[overhead + i] = s[i]
  BY <1>1, <1>2, <1>3, <1>4
<1> DEFINE u == SubSeq(buf, overhead + 1, Len(buf))
<1>6. /\ u \in Seq(Byte) /\ Len(u) = a /\ \A i \in 1..a : u[i] = buf[overhead + i]
  BY <1>1, <1>5
<1> HIDE DEF u
<1>7. u = s
  BY <1>3, <1>5, <1>6
<1> QED
  BY <1>7 DEF u, s, buf

-----------------------------------------------------------------------------
(* How receive() goes through the queue *)

\* What is left of a queue when its first m entries were taken.
LEMMA OneMore ==
    ASSUME NEW W, NEW s \in Seq(W), NEW m \in Nat, m < Len(s)
    PROVE  LET t == SubSeq(s, m + 1, Len(s))
           IN  t # << >> /\ Head(t) = s[m + 1] /\ Tail(t) = SubSeq(s, m + 2, Len(s))
<1> DEFINE L == Len(s)
           t == SubSeq(s, m + 1, L)
           u == SubSeq(s, m + 2, L)
<1>1. L \in Nat /\ m < L
  OBVIOUS
<1>2. t \in Seq(W) /\ Len(t) = L - m /\ \A i \in 1..(L - m) : t[i] = s[m + i]
  BY <1>1
<1>3. u \in Seq(W) /\ Len(u) = L - m - 1 /\ \A i \in 1..(L - m - 1) : u[i] = s[m + 1 + i]
  BY <1>1
<1> HIDE DEF L, t, u
<1>4. t # << >> /\ Head(t) = s[m + 1]
  BY <1>1, <1>2
<1>5. /\ Tail(t) \in Seq(W) /\ Len(Tail(t)) = L - m - 1
      /\ \A i \in 1..(L - m - 1) : Tail(t)[i] = t[i + 1]
  BY <1>1, <1>2, <1>4
<1>6. ASSUME NEW i \in 1..(L - m - 1) PROVE Tail(t)[i] = u[i]
  <2>1. i + 1 \in 1..(L - m) /\ m + (i + 1) = m + 1 + i
    BY <1>1
  <2> QED
    BY <1>2, <1>3, <1>5, <2>1
<1>7. Tail(t) = u
  BY <1>1, <1>3, <1>5, <1>6
<1> QED
  BY <1>4, <1>7 DEF L, t, u

\* What is left behind the first sequence is the second.
LEMMA Behind ==
    ASSUME NEW W, NEW s \in Seq(W), NEW t \in Seq(W)
    PROVE  SubSeq(s \o t, Len(s) + 1, Len(s \o t)) = t
<1> DEFINE n == Len(s)
           q == s \o t
           u == SubSeq(q, n + 1, Len(q))
<1>1. /\ q \in Seq(W) /\ Len(q) = n + Len(t) /\ n \in Nat /\ Len(t) \in Nat
      /\ \A i \in 1..Len(t) : q[n + i] = t[i]
  OBVIOUS
<1> HIDE DEF q, n
<1>2. /\ u \in Seq(W) /\ Len(u) = Len(t) /\ \A i \in 1..Len(t) : u[i] = q[n + i]
  BY <1>1
<1> HIDE DEF u
<1>3. u = t
  BY <1>1, <1>2
<1> QED
  BY <1>3 DEF u, q, n

\* f is the function that Continue defines, up to k.
GotTo(f, q, last, bytes, msg, k) ==
    f = [i \in 0..k |-> IF i = 0 THEN [msg |-> msg, queue |-> q, buf |-> last]
                        ELSE More(f[i - 1], bytes)]

\* There is such a function.
LEMMA SomeGot ==
    ASSUME NEW q, NEW last, NEW bytes, NEW msg, NEW N \in Nat
    PROVE  \E f : GotTo(f, q, last, bytes, msg, N)
<1> DEFINE Good == {k \in 0..N : \E f : GotTo(f, q, last, bytes, msg, k)}
           Start == [msg |-> msg, queue |-> q, buf |-> last]
<1>1. 0 \in Good
  <2> DEFINE f == [i \in 0..0 |-> Start]
  <2>1. GotTo(f, q, last, bytes, msg, 0)
    BY DEF GotTo
  <2> QED
    BY <2>1
<1>2. ASSUME NEW k \in 0..(N - 1), k \in Good PROVE k + 1 \in Good
  <2>1. PICK f : GotTo(f, q, last, bytes, msg, k)
    BY <1>2
  <2> DEFINE h == [j \in 0..(k + 1) |-> IF j = 0 THEN Start ELSE More(f[j - 1], bytes)]
  <2>2. \A j \in 0..k : f[j] = IF j = 0 THEN Start ELSE More(f[j - 1], bytes)
    BY <2>1, Zenon DEF GotTo
  <2>3. \A j \in 0..k : h[j] = f[j]
    <3>1. 0..k \subseteq 0..(k + 1)
      OBVIOUS
    <3>2. \A j \in 0..k : h[j] = IF j = 0 THEN Start ELSE More(f[j - 1], bytes)
      BY <3>1, Zenon
    <3> QED
      BY <2>2, <3>2, Zenon
  <2>4. \A j \in 0..(k + 1) : j # 0 => j - 1 \in 0..k
    OBVIOUS
  <2>5. h = [j \in 0..(k + 1) |-> IF j = 0 THEN Start ELSE More(h[j - 1], bytes)]
    <3>1. \A j \in 0..(k + 1) : (IF j = 0 THEN Start ELSE More(f[j - 1], bytes))
                                 = (IF j = 0 THEN Start ELSE More(h[j - 1], bytes))
      BY <2>3, <2>4, Zenon
    <3> QED
      BY <3>1, Zenon
  <2>6. GotTo(h, q, last, bytes, msg, k + 1)
    BY <2>5, Zenon DEF GotTo
  <2>7. k + 1 \in 0..N
    OBVIOUS
  <2> QED
    BY <2>6, <2>7
<1> HIDE DEF Good
<1>3. \A k \in 0..N : k \in Good
  BY <1>1, <1>2, UpTo
<1>4. N \in Good
  BY <1>3
<1> QED
  BY <1>4 DEF Good

\* Continue gives the last value of f, round by round.
Continues(f, q, last, bytes, msg) ==
    /\ f[0] = [msg |-> msg, queue |-> q, buf |-> last]
    /\ \A i \in 1..bytes : f[i] = More(f[i - 1], bytes)
    /\ Continue(q, last, bytes, msg) = [msg |-> f[bytes].msg, queue |-> f[bytes].queue]

\* There is such a function.
LEMMA ContinueIs ==
    ASSUME NEW q, NEW last, NEW bytes \in Nat, NEW msg
    PROVE  \E f : Continues(f, q, last, bytes, msg)
<1> DEFINE f == CHOOSE f : GotTo(f, q, last, bytes, msg, bytes)
<1>1. GotTo(f, q, last, bytes, msg, bytes)
  BY SomeGot
<1>2. Continue(q, last, bytes, msg) = [msg |-> f[bytes].msg, queue |-> f[bytes].queue]
  BY DEF Continue, GotTo
<1> HIDE DEF f
<1>3. \A i \in 0..bytes : f[i] = IF i = 0 THEN [msg |-> msg, queue |-> q, buf |-> last]
                                 ELSE More(f[i - 1], bytes)
  BY <1>1, Zenon DEF GotTo
<1>4. 0 \in 0..bytes /\ \A i \in 1..bytes : i \in 0..bytes /\ i # 0
  OBVIOUS
<1>5. Continues(f, q, last, bytes, msg)
  BY <1>2, <1>3, <1>4 DEF Continues
<1> QED
  BY <1>5

\* The entries of a sound message.
LEMMA SoundEntries ==
    ASSUME NEW x, NEW bytes \in Nat, Sound(bytes)
    PROVE  /\ Entries(x, bytes) \in Seq({Entries(x, bytes)[k] : k \in 1..Rounds(bytes)})
           /\ Len(Entries(x, bytes)) = Rounds(bytes)
           /\ Entries(x, bytes)[1] = Entry(x, bytes, 1, Cut(bytes, 1))
           /\ \A k \in 1..(Rounds(bytes) - 1) :
                 Entries(x, bytes)[k + 1].buf
                    = Payload(x, Cut(bytes, k) + 1, Cut(bytes, k + 1))
<1> DEFINE n == Rounds(bytes)
           E == Entries(x, bytes)
<1>1. n \in 1..bytes /\ n \in Nat
  BY RoundsEnd
<1>2. /\ First(bytes) = Cut(bytes, 1)
      /\ \A k \in 1..bytes : Cut(bytes, k) \in 1..bytes
  BY SoundFirst, Cuts
<1>3. E = [k \in 1..n |-> IF k = 1 THEN Entry(x, bytes, 1, First(bytes))
                          ELSE Entry(x, bytes, Cut(bytes, k - 1) + 1, Cut(bytes, k))]
  BY DEF Entries, Sound
<1> HIDE DEF n, E
<1>4. E \in Seq({E[k] : k \in 1..n}) /\ Len(E) = n
  <2> DEFINE V == {E[k] : k \in 1..n}
  <2>1. DOMAIN E = 1..n /\ \A k \in 1..n : E[k] \in V
    BY <1>3
  <2>2. E = [k \in 1..n |-> E[k]]
    BY <1>3
  <2> HIDE DEF V
  <2>3. E \in [1..n -> V]
    BY <2>1, <2>2, Zenon
  <2> QED
    BY <1>1, <2>3 DEF V
<1>5. E[1] = Entry(x, bytes, 1, Cut(bytes, 1))
  BY <1>1, <1>2, <1>3
<1>6. ASSUME NEW k \in 1..(n - 1)
      PROVE  E[k + 1].buf = Payload(x, Cut(bytes, k) + 1, Cut(bytes, k + 1))
  <2>1. k + 1 \in 1..n /\ k + 1 # 1 /\ (k + 1) - 1 = k /\ k \in 1..bytes
    BY <1>1
  <2>2. E[k + 1] = Entry(x, bytes, Cut(bytes, k) + 1, Cut(bytes, k + 1))
    BY <1>3, <2>1
  <2>3. Cut(bytes, k) + 1 # 1
    BY <1>2, <2>1
  <2> QED
    BY <2>2, <2>3 DEF Entry
<1> QED
  BY <1>4, <1>5, <1>6 DEF n, E

(***************************************************************************)
(* receive() gives back what send() was given, and leaves in the queue     *)
(* what came behind it, for every buffer size and every length that is     *)
(* sound: up to a full entry, or with a remainder that leaves room for the *)
(* header (mq.h:71-155).                                                   *)
(***************************************************************************)
THEOREM SoundFramesArrive ==
    ASSUME NEW sender, NEW bytes \in Nat, Sound(bytes), NEW W, NEW more \in Seq(W)
    PROVE  Receive(Entries(sender, bytes) \o more)
             = [msg |-> Message(sender, bytes), queue |-> more]
<1> DEFINE n == Rounds(bytes)
           E == Entries(sender, bytes)
           V == {E[k] : k \in 1..n} \cup W
           Q == E \o more
           L == Len(Q)
           c(k) == Cut(bytes, k)
<1>1. n \in 1..bytes /\ n \in Nat /\ c(n) = bytes /\ \A k \in 1..(n - 1) : c(k) < bytes
  BY RoundsEnd
<1>2. /\ \A k \in 1..bytes : c(k) \in 1..bytes
      /\ \A k \in 1..(bytes - 1) : c(k) <= c(k + 1)
  BY Cuts
<1>3. /\ E \in Seq({E[k] : k \in 1..n}) /\ Len(E) = n
      /\ E[1] = Entry(sender, bytes, 1, c(1))
      /\ \A k \in 1..(n - 1) : E[k + 1].buf = Payload(sender, c(k) + 1, c(k + 1))
  BY SoundEntries
<1> HIDE DEF n, E, c
<1>4. E \in Seq(V) /\ more \in Seq(V)
  BY <1>3
<1> HIDE DEF V
<1>5. /\ Q \in Seq(V) /\ L = n + Len(more) /\ L \in Nat /\ n <= L
      /\ \A k \in 1..n : Q[k] = E[k]
  <2>1. Q \in Seq(V) /\ Len(Q) = Len(E) + Len(more) /\ Len(more) \in Nat
    BY <1>4
  <2>2. \A k \in 1..Len(E) : Q[k] = E[k]
    BY <1>4
  <2> HIDE DEF Q
  <2> QED
    BY <1>1, <1>3, <2>1, <2>2
<1>6. SubSeq(Q, n + 1, L) = more
  BY <1>3, <1>4, Behind
<1> HIDE DEF Q, L
<1>7. Q[1] = Entry(sender, bytes, 1, c(1)) /\ c(1) \in Nat
  BY <1>1, <1>2, <1>3, <1>5
<1> DEFINE start == SubSeq(Q[1].buf, overhead + 1, Len(Q[1].buf))
           rest == SubSeq(Q, 2, L)
<1>8. start = Payload(sender, 1, c(1))
  BY <1>7, Headed
<1>9. Receive(Q) = Continue(rest, Q[1].buf, bytes, start)
  <2> DEFINE firsts == {i \in DOMAIN Q : Q[i].ordinal}
  <2>1. Q[1].ordinal /\ Q[1].bytes = bytes
    <3>1. Q[1].bytes = bytes /\ Q[1].ordinal = (1 = 1)
      BY <1>7 DEF Entry
    <3> QED
      BY <3>1, Zenon
  <2>2. DOMAIN Q = 1..L /\ 1 \in 1..L
    BY <1>1, <1>5 DEF L
  <2>3. 1 \in firsts /\ \A k \in firsts : 1 <= k /\ k \in Nat
    BY <2>1, <2>2
  <2> HIDE DEF firsts
  <2>4. (CHOOSE j \in firsts : \A k \in firsts : j <= k) = 1
    <3>1. \A j \in firsts : (\A k \in firsts : j <= k) => j = 1
      BY <2>3
    <3> QED
      BY <2>3, <3>1, Zenon
  <2> DEFINE i == CHOOSE j \in firsts : \A k \in firsts : j <= k
  <2>5. Receive(Q) = Continue(SubSeq(Q, i + 1, Len(Q)), Q[i].buf, Q[i].bytes,
                              SubSeq(Q[i].buf, overhead + 1, Len(Q[i].buf)))
    BY <2>3 DEF Receive, firsts
  <2>6. i = 1
    BY <2>4
  <2> HIDE DEF i
  <2> QED
    BY <2>1, <2>5, <2>6 DEF L
<1> DEFINE first == Q[1].buf
<1> HIDE DEF start, rest, first
<1>a. PICK f : Continues(f, rest, first, bytes, start)
  BY ContinueIs
<1>10. /\ f[0] = [msg |-> start, queue |-> rest, buf |-> first]
       /\ \A i \in 1..bytes : f[i] = More(f[i - 1], bytes)
       /\ Continue(rest, first, bytes, start)
            = [msg |-> f[bytes].msg, queue |-> f[bytes].queue]
  BY <1>a DEF Continues
<1> DEFINE J(i) == IF i < n THEN i + 1 ELSE n
           Good == {i \in 0..bytes : /\ f[i].msg = Payload(sender, 1, c(J(i)))
                                     /\ f[i].queue = SubSeq(Q, J(i) + 1, L)}
<1>11. 0 \in Good
  <2>1. J(0) = 1 /\ J(0) + 1 = 2
    BY <1>1
  <2> HIDE DEF J
  <2> QED
    BY <1>8, <1>10, <2>1 DEF rest
<1>12. ASSUME NEW i \in 0..(bytes - 1), i \in Good PROVE i + 1 \in Good
  <2> DEFINE m == J(i)
             g == f[i]
  <2>1. i + 1 \in 1..bytes /\ i + 1 \in 0..bytes /\ (i + 1) - 1 = i
    OBVIOUS
  <2>2. f[i + 1] = More(g, bytes)
    BY <1>10, <2>1
  <2>3. g.msg = Payload(sender, 1, c(m)) /\ g.queue = SubSeq(Q, m + 1, L)
    BY <1>12
  <2>4. m \in 1..n /\ m \in 1..bytes /\ m \in Nat
    BY <1>1
  <2>5. c(m) \in Nat /\ Len(g.msg) = c(m)
    <3>1. c(m) \in Nat
      BY <1>2, <2>4
    <3>2. Payload(sender, 1, c(m)) = [k \in 1..c(m) |-> [sender |-> sender, at |-> k]]
      <4> DEFINE a == c(m)
      <4> HIDE DEF a
      <4>1. a \in Nat
        BY <3>1 DEF a
      <4>2. Payload(sender, 1, a) = [k \in 1..a |-> [sender |-> sender, at |-> k]]
        BY <4>1 DEF Payload
      <4> QED
        BY <4>2 DEF a
    <3> QED
      BY <2>3, <3>1, <3>2
  <2>6. CASE m = n
    <3>1. More(g, bytes) = g
      BY <1>1, <2>5, <2>6 DEF More
    <3>2. J(i + 1) = m
      BY <1>1, <2>6
    <3> QED
      BY <2>1, <2>2, <2>3, <3>1, <3>2
  <2>7. CASE m # n
    <3>1. m = i + 1 /\ J(i + 1) = m + 1 /\ m \in 1..(n - 1) /\ m \in 1..(bytes - 1)
      BY <1>1, <2>4, <2>7
    <3>2. m \in Nat /\ m < L /\ m + 1 \in 1..n
      BY <1>1, <1>5, <2>4, <3>1
    <3> HIDE DEF m, g, J
    <3>3. g.queue # << >> /\ Head(g.queue) = Q[m + 1] /\ Tail(g.queue) = SubSeq(Q, m + 2, L)
      BY <1>5, <2>3, <3>2, OneMore DEF L
    <3>4. Head(g.queue).buf = Payload(sender, c(m) + 1, c(m + 1))
      BY <1>3, <1>5, <3>1, <3>2, <3>3
    <3>5. ~(Len(g.msg) >= bytes)
      BY <1>1, <2>5, <3>1
    <3>6. More(g, bytes) = [msg |-> g.msg \o Head(g.queue).buf, queue |-> Tail(g.queue),
                            buf |-> Head(g.queue).buf]
      BY <3>3, <3>5 DEF More
    <3>7. c(m + 1) \in Nat /\ c(m) <= c(m + 1)
      BY <1>1, <1>2, <3>1, <3>2
    <3>8. Payload(sender, 1, c(m)) \o Payload(sender, c(m) + 1, c(m + 1))
            = Payload(sender, 1, c(m + 1))
      BY <2>5, <3>7, Joined
    <3>9. f[i + 1].msg = Payload(sender, 1, c(m + 1))
      <4> DEFINE a == g.msg \o Head(g.queue).buf
                 b == Tail(g.queue)
                 d == Head(g.queue).buf
      <4>a. f[i + 1] = [msg |-> a, queue |-> b, buf |-> d]
        BY <2>2, <3>6
      <4> HIDE DEF a, b, d
      <4>b. f[i + 1].msg = a
        BY <4>a
      <4>1. f[i + 1].msg = g.msg \o Head(g.queue).buf
        BY <4>b DEF a
      <4> QED
        BY <2>3, <3>4, <3>8, <4>1
    <3>10. f[i + 1].queue = SubSeq(Q, (m + 1) + 1, L)
      <4>1. (m + 1) + 1 = m + 2
        BY <3>2
      <4>2. f[i + 1].queue = Tail(g.queue)
        BY <2>2, <3>6
      <4> QED
        BY <3>3, <4>1, <4>2
    <3> QED
      BY <2>1, <3>1, <3>9, <3>10
  <2> QED
    BY <2>6, <2>7
<1> HIDE DEF Good
<1>13. \A i \in 0..bytes : i \in Good
  BY <1>11, <1>12, UpTo
<1>14. f[bytes].msg = Payload(sender, 1, bytes) /\ f[bytes].queue = SubSeq(Q, n + 1, L)
  <2>1. bytes \in Good
    BY <1>13
  <2>2. J(bytes) = n
    BY <1>1
  <2> HIDE DEF J
  <2> QED
    BY <1>1, <2>1, <2>2 DEF Good
<1>15. Receive(Q) = [msg |-> Message(sender, bytes), queue |-> more]
  BY <1>6, <1>9, <1>10, <1>14 DEF Message, first
<1> QED
  BY <1>15 DEF Q, E

\* f is the function that ReceiveAll defines, up to k.
AllTo(f, q, k) ==
    f = [i \in 0..k |->
            IF i = 0 THEN [all |-> << >>, queue |-> q]
            ELSE LET r == Receive(f[i - 1].queue)
                 IN IF r.msg = << >> THEN f[i - 1]
                    ELSE [all |-> Append(f[i - 1].all, r.msg), queue |-> r.queue]]

\* One call of receive() after g.
Received(g) ==
    LET r == Receive(g.queue)
    IN IF r.msg = << >> THEN g ELSE [all |-> Append(g.all, r.msg), queue |-> r.queue]

\* What two calls get and the third finds empty is all there is: there is such a
\* function, and no other value for ReceiveAll.
LEMMA AllOfTwo ==
    ASSUME NEW q, Len(q) \in Nat, 2 <= Len(q), NEW g1, NEW g2,
           Received([all |-> << >>, queue |-> q]) = g1,
           Received(g1) = g2, Received(g2) = g2
    PROVE  ReceiveAll(q) = g2.all
<1> DEFINE N == Len(q)
           Start == [all |-> << >>, queue |-> q]
           At(i) == IF i = 0 THEN Start ELSE IF i = 1 THEN g1 ELSE g2
           h == [i \in 0..N |-> At(i)]
           f == CHOOSE f : AllTo(f, q, N)
<1>1. h = [i \in 0..N |-> IF i = 0 THEN Start ELSE Received(h[i - 1])]
  <2>1. ASSUME NEW i \in 0..N PROVE At(i) = IF i = 0 THEN Start ELSE Received(h[i - 1])
    <3>1. CASE i = 0
      BY <3>1
    <3>2. CASE i = 1
      <4>1. h[i - 1] = Start
        BY <3>2
      <4> QED
        BY <3>2, <4>1
    <3>3. CASE i = 2
      <4>1. h[i - 1] = g1 /\ At(i) = g2
        BY <3>3
      <4> QED
        BY <3>3, <4>1
    <3>4. CASE i > 2
      <4>1. h[i - 1] = g2 /\ At(i) = g2
        BY <3>4
      <4> QED
        BY <3>4, <4>1
    <3> QED
      BY <3>1, <3>2, <3>3, <3>4
  <2> HIDE DEF At
  <2> QED
    BY <2>1, Zenon
<1>2. AllTo(h, q, N)
  <2> HIDE DEF h
  <2> QED
    BY <1>1, Zenon DEF AllTo, Received
<1>3. AllTo(f, q, N)
  BY <1>2, Zenon
<1>4. ReceiveAll(q) = f[N].all
  BY Zenon DEF ReceiveAll, AllTo
<1> HIDE DEF f
<1>5. \A i \in 0..N : f[i] = IF i = 0 THEN Start ELSE Received(f[i - 1])
  BY <1>3, Zenon DEF AllTo, Received
<1> DEFINE Good == {i \in 0..N : f[i] = At(i)}
<1>6. 0 \in Good
  <2>1. 0 \in 0..N
    OBVIOUS
  <2> QED
    BY <1>5, <2>1, Zenon
<1>7. ASSUME NEW i \in 0..(N - 1), i \in Good PROVE i + 1 \in Good
  <2>1. i + 1 \in 0..N /\ i + 1 # 0 /\ (i + 1) - 1 = i
    OBVIOUS
  <2>2. f[i + 1] = Received(At(i))
    BY <1>5, <1>7, <2>1
  <2>3. Received(At(i)) = At(i + 1)
    <3>1. CASE i = 0
      BY <3>1
    <3>2. CASE i = 1
      BY <3>2
    <3>3. CASE i > 1
      BY <3>3
    <3> QED
      BY <3>1, <3>2, <3>3
  <2> QED
    BY <2>1, <2>2, <2>3
<1> HIDE DEF Good
<1>8. \A i \in 0..N : i \in Good
  BY <1>6, <1>7, UpTo
<1>9. N \in 0..N /\ N # 0 /\ N # 1
  <2>1. N \in Nat /\ 2 <= N
    OBVIOUS
  <2> HIDE DEF N
  <2> QED
    BY <2>1
<1>10. N \in Good
  BY <1>8, <1>9, Zenon
<1>11. At(N) = g2
  BY <1>9, Zenon
<1> QED
  BY <1>4, <1>10, <1>11, Zenon DEF Good

(***************************************************************************)
(* Two messages of sound lengths, whoever sent them, come out of the queue *)
(* as they were sent and in that order, and nothing after them, when no    *)
(* entry of one stands between two of the other: the part of               *)
(* FramesReassemble that says what is right, for every buffer size and     *)
(* both lengths (mq.h:71-155).                                             *)
(***************************************************************************)
THEOREM BothMessagesArrive ==
    ASSUME NEW x, NEW y, NEW a \in Nat, Sound(a), NEW b \in Nat, Sound(b)
    PROVE  ReceiveAll(Entries(x, a) \o Entries(y, b)) = <<Message(x, a), Message(y, b)>>
<1> DEFINE s == Entries(x, a)
           t == Entries(y, b)
           g0 == [all |-> << >>, queue |-> s \o t]
           g1 == [all |-> <<Message(x, a)>>, queue |-> t]
           g2 == [all |-> <<Message(x, a), Message(y, b)>>, queue |-> << >>]
<1>1. PICK V : s \in Seq(V) /\ t \in Seq(V) /\ Len(s) >= 1 /\ Len(t) >= 1
  <2> DEFINE V == {s[k] : k \in 1..Rounds(a)}
             W == {t[k] : k \in 1..Rounds(b)}
  <2>1. s \in Seq(V) /\ t \in Seq(W) /\ Len(s) = Rounds(a) /\ Len(t) = Rounds(b)
    BY SoundEntries
  <2>2. Rounds(a) >= 1 /\ Rounds(b) >= 1
    BY RoundsEnd
  <2> HIDE DEF V, W, s, t
  <2>3. s \in Seq(V \cup W) /\ t \in Seq(V \cup W)
    BY <2>1
  <2> QED
    BY <2>1, <2>2, <2>3
<1>2. Message(x, a) # << >> /\ Message(y, b) # << >>
  <2>1. DOMAIN Message(x, a) = 1..a /\ DOMAIN Message(y, b) = 1..b
    BY DEF Message, Payload
  <2>2. 1 \in 1..a /\ 1 \in 1..b
    BY DEF Sound
  <2>3. DOMAIN << >> = {}
    OBVIOUS
  <2> QED
    BY <2>1, <2>2, <2>3, Zenon
<1>3. Receive(s \o t) = [msg |-> Message(x, a), queue |-> t]
  BY <1>1, SoundFramesArrive
<1>4. Receive(t) = [msg |-> Message(y, b), queue |-> << >>]
  <2>1. Receive(t \o << >>) = [msg |-> Message(y, b), queue |-> << >>]
    <3>1. << >> \in Seq({})
      OBVIOUS
    <3> QED
      BY <3>1, SoundFramesArrive
  <2>2. t \o << >> = t
    <3> HIDE DEF t, s
    <3> QED
      BY <1>1
  <2> QED
    BY <2>1, <2>2
<1>5. Receive(<< >>).msg = << >>
  BY DEF Receive
<1>6. Len(s \o t) \in Nat /\ 2 <= Len(s \o t)
  <2> HIDE DEF s, t
  <2>1. Len(s \o t) = Len(s) + Len(t) /\ Len(s) \in Nat /\ Len(t) \in Nat
    BY <1>1
  <2> QED
    BY <1>1, <2>1
<1> DEFINE m == Message(x, a)
           k == Message(y, b)
<1> HIDE DEF s, t, m, k
<1>7. Received(g0) = g1
  BY <1>2, <1>3 DEF Received, m, k
<1>8. Received(g1) = g2
  BY <1>2, <1>4 DEF Received, m, k
<1>9. Received(g2) = g2
  BY <1>5 DEF Received
<1>10. ReceiveAll(s \o t) = g2.all
  BY <1>6, <1>7, <1>8, <1>9, AllOfTwo
<1> QED
  BY <1>10 DEF s, t

=============================================================================
