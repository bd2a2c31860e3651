------------------------------ MODULE Messages ------------------------------
(***************************************************************************)
(* The messages between clients and store daemons (librange/core/          *)
(* store.proto): how they are built, signed with a crc over their own      *)
(* serialisation, checked by the listener of every daemon, changed and     *)
(* signed again on the way from the client to the learners and into the    *)
(* transaction log.                                                        *)
(***************************************************************************)
EXTENDS Wire
LOCAL INSTANCE SequencesExt

RequestType == {"REQUEST", "PREPARE", "PROPOSE", "LEARN", "REPLAY", "FAILOVER", "HEARTBEAT"}

AckType == {"ACK", "PROMISE", "NACK", "ACCEPTED"}

RequestClass ==
    <<Number("crc", "required"), Bytes("client_id", "required"),
      Number("request_id", "required"), Bytes("method", "required"),
      Bytes("args", "repeated"), Number("timestamp", "optional"),
      Enum("type", "optional", RequestType), Number("proposal_num", "optional"),
      Number("proposer_id", "optional"), Number("sender_addr", "optional"),
      Number("sender_port", "optional"), Number("version", "optional"),
      Number("sequence_num", "optional")>>

AckClass ==
    <<Number("status", "required"), Bytes("client_id", "required"),
      Number("request_id", "required"), Number("code", "optional"),
      Bytes("reason", "optional"), Enum("type", "optional", AckType),
      Number("proposal_num", "optional"), Number("proposer_id", "optional"),
      Number("next_proposal_num", "optional"), Number("sequence_num", "optional")>>

SerializedRequest(m) == Serialized(RequestClass, m)
ParsedRequest(wire)  == Parse(RequestClass, wire)
SerializedAck(m)     == Serialized(AckClass, m)
ParsedAck(wire)      == Parse(AckClass, wire)

-----------------------------------------------------------------------------
(* The crc *)

\* Two different serialisations have different checksums here.
NoCrc == << >>
crc32(wire) == <<wire>>

\* A variant that leaves the crc of the message received in place.
SignedOver(m) == [m EXCEPT !.crc = <<crc32(SerializedRequest(m))>>]

\* set_crc(0), then set_crc() of the serialisation.
Signed(m) ==
    LET zero == [m EXCEPT !.crc = <<NoCrc>>]
    IN [m EXCEPT !.crc = <<crc32(SerializedRequest(zero))>>]

\* ListenServer::validate_msg: the result of the parser is not looked at, only
\* what it left.  The message handed on has no crc.
validate_msg(wire) ==
    LET msg == ParsedRequest(wire)
        zero == [msg EXCEPT !.crc = <<NoCrc>>]
    IN IF ~IsInitialized(RequestClass, msg) THEN [status |-> FALSE, msg |-> msg]
       ELSE [status |-> msg.crc[1] = crc32(SerializedRequest(zero)), msg |-> zero]

-----------------------------------------------------------------------------
(* From the client to the transaction log *)

\* WriteRequest, Heartbeat and get_random_peer build requests alike.
NewRequest(client, id, method, args, type) ==
    Signed([Cleared(RequestClass) EXCEPT
              !.client_id = <<client>>, !.request_id = <<id>>,
              !.method = <<method>>, !.args = args, !.type = <<type>>])

\* MQServer::event_task passes on what RequestQueueListener::receive parsed.
Relayed(wire) == SerializedRequest(ParsedRequest(wire))

\* ListenServer::receive_handler
Received(wire, addr, port) ==
    [validate_msg(wire).msg EXCEPT !.sender_addr = <<addr>>, !.sender_port = <<port>>]

\* Proposer::prepare, Proposer::propose
Prepared(m, num, id) ==
    Signed([m EXCEPT !.type = <<"PREPARE">>, !.proposal_num = <<num>>, !.proposer_id = <<id>>])

Proposed(m, num, id, now) ==
    Signed([m EXCEPT !.type = <<"PROPOSE">>, !.proposal_num = <<num>>,
                     !.proposer_id = <<id>>, !.timestamp = <<now>>])

\* The LEARN of Accepter::accept.
ToLearn(m) == Signed([m EXCEPT !.type = <<"LEARN">>])

\* BerkeleyDBCXXTxLogDb::append_txn
Logged(m, version) == Signed([m EXCEPT !.version = <<version>>])

\* Accepter::promise, accept and nack, and Learner::ack.
NewAck(m, type, status, num) ==
    [Cleared(AckClass) EXCEPT
       !.type = <<type>>, !.status = <<status>>, !.request_id = m.request_id,
       !.proposer_id = m.proposer_id, !.proposal_num = <<num>>, !.client_id = m.client_id]

-----------------------------------------------------------------------------
\* What a request asks for.
Content(m) == <<m.client_id, m.request_id, m.method, m.args>>

(***************************************************************************)
(* A request that is not damaged passes the check of every daemon on its   *)
(* way, although each of them signs it anew after it has changed it, and   *)
(* is learned and logged as the client wrote it: also when a number in it  *)
(* is zero or it has no arguments.  The answers are parsed as they were    *)
(* sent (req() in stored_message.h, prepare, propose, accept, append_txn,  *)
(* validate_msg).                                                          *)
(***************************************************************************)
RequestsArrive(requests, numbers) ==
    \A r \in requests, num \in numbers :
        LET sent == Relayed(SerializedRequest(r))
            prepare == SerializedRequest(Prepared(Received(sent, 1, 1), num, 7))
            promise == NewAck(Received(prepare, 2, 2), "PROMISE", TRUE, num)
            propose == SerializedRequest(Proposed(Received(sent, 1, 1), num, 7, 0))
            learn == SerializedRequest(ToLearn(Received(propose, 2, 2)))
            learned == Received(learn, 3, 3)
            logged == ParsedRequest(SerializedRequest(Logged(learned, num)))
        IN /\ \A w \in {sent, prepare, propose, learn} : validate_msg(w).status
           /\ \A m \in {learned, logged} : Content(m) = Content(r)
           /\ learned.proposal_num = <<num>> /\ learned.type = <<"LEARN">>
           /\ ParsedAck(SerializedAck(promise)) = promise
           /\ IsInitialized(AckClass, promise)

\* Another value for the field of a request.
Changed(t) ==
    [t EXCEPT !.value = CASE t.number = 1 -> NoCrc
                          [] t.number = 7 -> "LEARN"
                          [] t.type = "varint" /\ t.number \notin {1, 7} -> @ + 1
                          [] t.type = "delimited" -> "other"]

\* Datagrams that were cut off, lost one of their values or had one of their
\* values changed.
Damaged(wire) ==
    {SubSeq(wire, 1, i) : i \in 0 .. Len(wire) - 1}
    \cup {RemoveAt(wire, i) : i \in DOMAIN wire}
    \cup {[wire EXCEPT ![i] = Changed(@)] : i \in DOMAIN wire}

(***************************************************************************)
(* A damaged datagram is refused, or it says the same as the one that was  *)
(* sent: validate_msg does not look at the result of ParseFromString, and  *)
(* a message whose tail is missing may still have all required fields.     *)
(***************************************************************************)
DamageIsRefused(requests) ==
    \A r \in requests : \A w \in Damaged(SerializedRequest(r)) :
        validate_msg(w).status => ParsedRequest(w) = r

(***************************************************************************)
(* Reading two serialisations one after the other into one message is the  *)
(* same as merging the two messages, and a message of a class with fewer   *)
(* fields that was read and written by it has lost nothing (MergeFrom and  *)
(* the unknown fields of the generated classes).                           *)
(***************************************************************************)
ReadingIsMerging(requests) ==
    /\ \A r, s \in requests :
         ParsedRequest(SerializedRequest(r) \o SerializedRequest(s))
           = MergedFrom(RequestClass, r, s)
    /\ \A r \in requests, n \in 0 .. Len(RequestClass) :
         LET older == SubSeq(RequestClass, 1, n)
         IN ParsedRequest(Serialized(older, Parse(older, SerializedRequest(r)))) = r
=============================================================================
