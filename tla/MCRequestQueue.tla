--------------------------- MODULE MCRequestQueue ---------------------------
(***************************************************************************)
(* RequestQueue on a small instance, the messages in it on their further   *)
(* way, and the cutting of messages for lengths around the multiples of a  *)
(* small buffer.                                                           *)
(***************************************************************************)
EXTENDS RequestQueue, Framing, Messages

\* Requests of every length and of the types that clients and daemons send.
MCRequests ==
    {NewRequest("c", id, "m", args, type) :
        id \in {0, 1}, args \in {<< >>, <<"x">>, <<"x", "x">>},
        type \in {"REQUEST", "FAILOVER", "HEARTBEAT"}}

\* A request reaches the learners as it was written.  Messages of up to four
\* entries of five bytes, the header two of them, are put together as they were
\* sent, if their entries do not mix (mq.h).  Requests pass every crc check of
\* the daemons on the way, ids and proposal numbers of zero included, and one
\* that was damaged is refused by validate_msg (listenserv.cpp:147-172).
\* Parsing is merging, and a reader of an older version loses nothing
\* (store.pb.cpp).  It does not depend on the queues and is looked at in the
\* first state.
MessagesArriveMC ==
    Init => /\ FramesReassemble(0 .. 14)
            /\ RequestsArrive(MCRequests, {0, 1})
            /\ DamageIsRefused(MCRequests)
            /\ ReadingIsMerging(MCRequests)
=============================================================================
