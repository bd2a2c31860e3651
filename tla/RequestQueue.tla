---------------------------- MODULE RequestQueue ----------------------------
(***************************************************************************)
(* The way of a write from a client thread to the store daemon of its host *)
(* and back (librange/core/stored_message.{h,cpp}, stored/mqserv.cpp): one *)
(* request queue for the host, and one ack queue for each client id, both  *)
(* of them boost message queues that outlive the threads that use them.    *)
(*                                                                         *)
(* The consensus protocol is the environment here: a request that reached  *)
(* the proposers is learned on this host never, once or, when a proposer   *)
(* retried it under another number, several times.                         *)
(*                                                                         *)
(* All calls but create_env, remove_env and add_host look their nodes up   *)
(* before they send, with reads that take write locks, in transactions     *)
(* they keep open until the ack has come: a learner that is to apply the   *)
(* request of such a call has to wait for the locks of its own client.     *)
(***************************************************************************)
EXTENDS Integers, Sequences

CONSTANTS
    Client,        \* the client ids: node, process and thread id
    Capacity,      \* 512 in the code: the length of the request queue
    AckCapacity,   \* 512 in the code: the length of an ack queue
    Checking,      \* the request ids of the calls that look their nodes up
    MaxRequests,   \* bound on the writes of one thread
    MaxThreads     \* bound on the threads that have had one client id

ASSUME QueueAssumption ==
    /\ Capacity \in Nat
    /\ AckCapacity \in Nat
    /\ Checking \subseteq Nat
    /\ MaxRequests \in Nat
    /\ MaxThreads \in Nat

VARIABLES
    thread,        \* thread[c]: how many threads had id c before this one
    request_id,    \* request_id[c]: the thread_local counter request_id_
    pc,            \* pc[c]: "idle", or "waiting" for an ack
    queue,         \* the request queue of the host
    acks,          \* acks[c]: the ack queue of client id c
    proposed,      \* the requests that reached the proposers
    learned,       \* the outcomes of Learner::learn on this host
    returned       \* what the calls returned to the API

vars == <<thread, request_id, pc, queue, acks, proposed, learned, returned>>

Request == [client : Client, thread : 0 .. MaxThreads, id : 0 .. MaxRequests]
AckMsg  == [id : 0 .. MaxRequests, status : BOOLEAN]

\* "result" is the value of RequestQueueClient::request, "status" that of
\* the ack which WriteRequest::send hands to process_ack().
Return  == [req : Request, result : BOOLEAN, status : BOOLEAN]

TypeOK ==
    /\ thread     \in [Client -> 0 .. MaxThreads]
    /\ request_id \in [Client -> 0 .. MaxRequests]
    /\ pc         \in [Client -> {"idle", "waiting"}]
    /\ queue      \in Seq(Request)
    /\ Len(queue) <= Capacity
    /\ acks       \in [Client -> Seq(AckMsg)]
    /\ \A c \in Client : Len(acks[c]) <= AckCapacity
    /\ proposed   \subseteq Request
    /\ learned    \subseteq [req : Request, status : BOOLEAN]
    /\ returned   \subseteq Return

Init ==
    /\ thread = [c \in Client |-> 0]
    /\ request_id = [c \in Client |-> 0]
    /\ pc = [c \in Client |-> "idle"]
    /\ queue = <<>>
    /\ acks = [c \in Client |-> <<>>]
    /\ proposed = {}
    /\ learned = {}
    /\ returned = {}

-----------------------------------------------------------------------------
(* Client threads *)

\* The request of c's current call: the counter is one ahead of it.
Current(c) == [client |-> c, thread |-> thread[c], id |-> request_id[c] - 1]

\* WriteRequest's constructor and the first half of request(): flush the ack
\* queue, then send.  Acks that arrive in between are as good as acks that
\* arrive after the send.
Send(c) ==
    /\ pc[c] = "idle"
    /\ request_id[c] < MaxRequests
    /\ Len(queue) < Capacity
    /\ request_id' = [request_id EXCEPT ![c] = @ + 1]
    /\ acks' = [acks EXCEPT ![c] = <<>>]
    /\ queue' = Append(queue, [client |-> c, thread |-> thread[c],
                               id |-> request_id[c]])
    /\ pc' = [pc EXCEPT ![c] = "waiting"]
    /\ UNCHANGED <<thread, proposed, learned, returned>>

\* The request queue is full until the send times out: request() returns
\* false and the ack is still the default one, without a status.
SendTimesOut(c) ==
    /\ pc[c] = "idle"
    /\ request_id[c] < MaxRequests
    /\ Len(queue) = Capacity
    /\ request_id' = [request_id EXCEPT ![c] = @ + 1]
    /\ acks' = [acks EXCEPT ![c] = <<>>]
    /\ returned' = returned \cup
         {[req |-> [client |-> c, thread |-> thread[c], id |-> request_id[c]],
           result |-> FALSE, status |-> FALSE]}
    /\ UNCHANGED <<thread, pc, queue, proposed, learned>>

\* A variant that does not compare the request ids.
ReceiveAnyAck(c) ==
    /\ pc[c] = "waiting"
    /\ acks[c] # <<>>
    /\ returned' = returned \cup
         {[req |-> Current(c), result |-> TRUE, status |-> Head(acks[c]).status]}
    /\ acks' = [acks EXCEPT ![c] = Tail(@)]
    /\ pc' = [pc EXCEPT ![c] = "idle"]
    /\ UNCHANGED <<thread, request_id, queue, proposed, learned>>

\* The second half of request(): the first ack in the queue is parsed into
\* the caller's ack_, then its request id is compared (its client id is that
\* of the queue).  WriteRequest::send does not look at request()'s result.
ReceiveAck(c) ==
    /\ pc[c] = "waiting"
    /\ acks[c] # <<>>
    /\ returned' = returned \cup
         {[req |-> Current(c), result |-> Head(acks[c]).id = Current(c).id,
           status |-> Head(acks[c]).status]}
    /\ acks' = [acks EXCEPT ![c] = Tail(@)]
    /\ pc' = [pc EXCEPT ![c] = "idle"]
    /\ UNCHANGED <<thread, request_id, queue, proposed, learned>>

\* A variant that starts another receive().
ReceiveAgain(c) ==
    /\ pc[c] = "waiting"
    /\ acks[c] = <<>>
    /\ UNCHANGED vars

\* No ack within stored_request_timeout.
ReceiveTimesOut(c) ==
    /\ pc[c] = "waiting"
    /\ acks[c] = <<>>
    /\ returned' = returned \cup
         {[req |-> Current(c), result |-> FALSE, status |-> FALSE]}
    /\ pc' = [pc EXCEPT ![c] = "idle"]
    /\ UNCHANGED <<thread, request_id, queue, acks, proposed, learned>>

\* The thread ends and the process starts another one that is given the same
\* std::thread::id: a new thread_local counter, the same ack queue.
NewThread(c) ==
    /\ pc[c] = "idle"
    /\ thread[c] < MaxThreads
    /\ thread' = [thread EXCEPT ![c] = @ + 1]
    /\ request_id' = [request_id EXCEPT ![c] = 0]
    /\ UNCHANGED <<pc, queue, acks, proposed, learned, returned>>

ClientStep(c) ==
    \/ Send(c)
    \/ SendTimesOut(c)
    \/ ReceiveAck(c)
    \/ ReceiveTimesOut(c)
    \/ NewThread(c)

-----------------------------------------------------------------------------
(* Store daemon *)

\* MQServer::event_task sends the first request of the queue to the
\* proposers, once: the datagrams may be lost.
Forward ==
    /\ queue # <<>>
    /\ queue' = Tail(queue)
    /\ \/ proposed' = proposed \cup {Head(queue)}
       \/ UNCHANGED proposed
    /\ UNCHANGED <<thread, request_id, pc, acks, learned, returned>>

\* A variant that reports success whatever the write returned.
LearnReportsSuccess(r, status) ==
    /\ r \in proposed
    /\ learned' = learned \cup {[req |-> r, status |-> status]}
    /\ acks' = IF Len(acks[r.client]) < AckCapacity
               THEN [acks EXCEPT ![r.client] =
                       Append(@, [id |-> r.id, status |-> TRUE])]
               ELSE acks
    /\ UNCHANGED <<thread, request_id, pc, queue, proposed, returned>>

\* A variant that does not wait for the locks of the client.
LearnUnlocked(r, status) ==
    /\ r \in proposed
    /\ learned' = learned \cup {[req |-> r, status |-> status]}
    /\ acks' = IF Len(acks[r.client]) < AckCapacity
               THEN [acks EXCEPT ![r.client] =
                       Append(@, [id |-> r.id, status |-> status])]
               ELSE acks
    /\ UNCHANGED <<thread, request_id, pc, queue, proposed, returned>>

\* The client that waits for the answer to r keeps locked what r changes.
Locked(r) ==
    r.id \in Checking /\ pc[r.client] = "waiting" /\ Current(r.client) = r

\* Learner::learn runs the write, which succeeds or throws, and sends the ack;
\* send_ack() gives up when the ack queue stays full.  To succeed the write
\* needs the locks of all it changes; it may throw before.
Learn(r, status) ==
    /\ r \in proposed
    /\ status => ~Locked(r)
    /\ learned' = learned \cup {[req |-> r, status |-> status]}
    /\ acks' = IF Len(acks[r.client]) < AckCapacity
               THEN [acks EXCEPT ![r.client] =
                       Append(@, [id |-> r.id, status |-> status])]
               ELSE acks
    /\ UNCHANGED <<thread, request_id, pc, queue, proposed, returned>>

DaemonStep ==
    \/ Forward
    \/ \E r \in proposed, status \in BOOLEAN : Learn(r, status)

Next == DaemonStep \/ \E c \in Client : ClientStep(c)

Spec == Init /\ [][Next]_vars

\* A waiting client finds an ack or its timed_receive() expires.
FairSpec ==
    Spec /\ \A c \in Client : WF_vars(ReceiveAck(c) \/ ReceiveTimesOut(c))

-----------------------------------------------------------------------------
(***************************************************************************)
(* When request() returns true, a request with this client and request id  *)
(* was learned, with the outcome that the ack reports: no ack that belongs *)
(* to an expired call or repeats an earlier one passes for it.  As long as *)
(* no thread id is used again that request is the caller's own.            *)
(***************************************************************************)
TrueIsLearned ==
    \A x \in returned : x.result =>
        \E l \in learned :
            /\ l.req.client = x.req.client
            /\ l.req.id = x.req.id
            /\ l.req.thread <= x.req.thread
            /\ l.status = x.status

-----------------------------------------------------------------------------
(* The inductive invariant behind it. *)

\* A waiting thread has taken its request id from the counter.
WaitInv == \A c \in Client : pc[c] = "waiting" => request_id[c] > 0

\* Requests on their way come from this thread or an earlier one.
ThreadInv ==
    /\ \A i \in DOMAIN queue : queue[i].thread <= thread[queue[i].client]
    /\ \A r \in proposed : r.thread <= thread[r.client]

\* An ack in a queue reports an outcome that a request of this client id had.
Reported(c, k) ==
    \E l \in learned :
        /\ l.req.client = c
        /\ l.req.id = k.id
        /\ l.req.thread <= thread[c]
        /\ l.status = k.status

AckInv == \A c \in Client : \A i \in DOMAIN acks[c] : Reported(c, acks[c][i])

Inv ==
    /\ TypeOK
    /\ WaitInv
    /\ ThreadInv
    /\ AckInv
    /\ TrueIsLearned

-----------------------------------------------------------------------------
(***************************************************************************)
(* A write call comes back although its request, the datagrams or the ack  *)
(* were lost.                                                              *)
(***************************************************************************)
CallReturns == \A c \in Client : pc[c] = "waiting" ~> pc[c] = "idle"

(***************************************************************************)
(* A call that keeps its transactions open while it waits is never told of *)
(* its own success: the learner gets its locks after the call has given    *)
(* up.  If it is told of a success of its request id, an earlier thread of *)
(* its client id had it (the transactions before req.send() in             *)
(* write_api.cpp, and the locking reads of berkeley_dbcxx_db.cpp).         *)
(***************************************************************************)
LockedIsNotConfirmed ==
    \A x \in returned : x.req.id \in Checking /\ x.result /\ x.status =>
        \E l \in learned : /\ l.req.client = x.req.client
                           /\ l.req.id = x.req.id
                           /\ l.req.thread < x.req.thread

(***************************************************************************)
(* "Ensure ack queue is empty; [...] any garbage left in the ack_queue is  *)
(* from a previously expired request" (stored_message.cpp:63).  An ack may *)
(* also come after the flush, and WriteRequest::send hands on whatever was *)
(* parsed: a reported success is that of the request itself, or that of an *)
(* earlier request of this client id whose own call had returned by then.  *)
(***************************************************************************)
SuccessIsOwnOrLate ==
    \A x \in returned : x.status =>
        \E l \in learned :
            /\ l.status
            /\ l.req.client = x.req.client
            /\ \/ l.req = x.req
               \/ /\ \/ l.req.thread < x.req.thread
                     \/ l.req.thread = x.req.thread /\ l.req.id < x.req.id
                  /\ \E y \in returned : y.req = l.req
-----------------------------------------------------------------------------
(* The inductive invariant behind these two. *)

\* r was sent before q by the same client id.
Before(r, q) == r.thread < q.thread \/ (r.thread = q.thread /\ r.id < q.id)

HasReturned(r) == \E y \in returned : y.req = r

\* A request on its way has an id the counter has passed, and its call has
\* returned, unless it is the one its client waits for.
Sent(r) ==
    LET c == r.client IN
    /\ r.thread < thread[c] \/ (r.thread = thread[c] /\ r.id < request_id[c])
    /\ (pc[c] = "waiting" /\ r = Current(c)) \/ HasReturned(r)

SentInv ==
    /\ \A i \in DOMAIN queue : Sent(queue[i])
    /\ \A r \in proposed : Sent(r)

\* The success in ack k, for a client that waits: its own, when it holds no
\* locks, or a late one.
Answers(c, k) ==
    \E l \in learned :
        /\ l.status /\ l.req.client = c /\ l.req.id = k.id
        /\ \/ l.req = Current(c) /\ k.id \notin Checking
           \/ Before(l.req, Current(c)) /\ HasReturned(l.req)

AnswerInv ==
    \A c \in Client : pc[c] = "waiting" =>
        \A i \in DOMAIN acks[c] : acks[c][i].status => Answers(c, acks[c][i])

OwnInv == SentInv /\ AnswerInv /\ LockedIsNotConfirmed /\ SuccessIsOwnOrLate
=============================================================================
