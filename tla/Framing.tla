------------------------------- MODULE Framing -------------------------------
(***************************************************************************)
(* How MessageQueue (librange/core/mq.h) cuts a message into entries of a  *)
(* boost message queue and puts it together again.  A message is its       *)
(* length; its bytes are the pairs of a sender and a position, so that a   *)
(* byte that is lost, repeated or taken from another message shows.        *)
(***************************************************************************)
EXTENDS Integers, Sequences, FiniteSets, FiniteSetsExt

CONSTANTS
    bufsize,     \* 16384 in the code
    overhead     \* 8 in the code: the ordinal and the length

ASSUME FramingAssumption ==
    bufsize \in Nat /\ overhead \in Nat /\ 0 < overhead /\ 2 * overhead < bufsize

Payload(sender, from, to) ==
    [i \in 1 .. to - from + 1 |-> [sender |-> sender, at |-> from + i - 1]]

Message(sender, bytes) == Payload(sender, 1, bytes)

\* The bytes before the payload of a first entry.
Header(sender, bytes) ==
    [i \in 1 .. overhead |-> [sender |-> sender, at |-> 1 - i]]

\* An entry of the queue.  "ordinal" tells whether it starts with msg_ordinal,
\* and bytes is the length after it.
Entry(sender, bytes, from, to) ==
    [ordinal |-> from = 1, bytes |-> bytes,
     buf |-> IF from = 1 THEN Header(sender, bytes) \o Payload(sender, from, to)
                         ELSE Payload(sender, from, to)]

-----------------------------------------------------------------------------
(* send() *)

LeastOf(a, b) == IF a < b THEN a ELSE b

Remainder(bytes) == (bytes + overhead) % bufsize

\* How many bytes the first round counts as sent.
SendingFirst(bytes) ==
    LET sending == LeastOf(bytes, bufsize)
    IN IF sending > bufsize - overhead THEN sending - Remainder(bytes) ELSE sending

\* How many of them are in the entry: its length includes the header unless
\* the count is above what leaves room for it, and then the remainder.
First(bytes) ==
    LET sending == SendingFirst(bytes)
    IN IF sending > bufsize - overhead THEN sending + Remainder(bytes) - overhead
                                       ELSE sending

\* How many bytes are counted as sent after k rounds: each round but the first
\* sends what is left, or a full entry of it.
Cut(bytes, k) == LeastOf(bytes, SendingFirst(bytes) + (k - 1) * bufsize)

Rounds(bytes) == Min({k \in 1 .. bytes : Cut(bytes, k) = bytes})

Entries(sender, bytes) ==
    IF bytes = 0 THEN << >>
    ELSE [k \in 1 .. Rounds(bytes) |->
            IF k = 1 THEN Entry(sender, bytes, 1, First(bytes))
            ELSE Entry(sender, bytes, Cut(bytes, k - 1) + 1, Cut(bytes, k))]

-----------------------------------------------------------------------------
(* receive() *)

\* A round of the second loop.  The result of timed_receive is not looked at:
\* when the queue stays empty the last entry is appended once more.
More(g, bytes) ==
    IF Len(g.msg) >= bytes THEN g
    ELSE IF g.queue = << >> THEN [g EXCEPT !.msg = g.msg \o g.buf]
    ELSE [msg |-> g.msg \o Head(g.queue).buf, queue |-> Tail(g.queue),
          buf |-> Head(g.queue).buf]

\* The second loop: no entry is empty, so it ends after as many rounds as the
\* message has bytes at most.
Continue(queue, last, bytes, msg) ==
    LET got[k \in 0 .. bytes] ==
            IF k = 0 THEN [msg |-> msg, queue |-> queue, buf |-> last]
            ELSE More(got[k - 1], bytes)
    IN [msg |-> got[bytes].msg, queue |-> got[bytes].queue]

\* Entries that do not start with the ordinal are skipped; an empty queue
\* gives the empty message.
Receive(queue) ==
    LET firsts == {i \in DOMAIN queue : queue[i].ordinal}
    IN IF firsts = {} THEN [msg |-> << >>, queue |-> << >>]
       ELSE LET i == CHOOSE j \in firsts : \A k \in firsts : j <= k
            IN Continue(SubSeq(queue, i + 1, Len(queue)), queue[i].buf, queue[i].bytes,
                        SubSeq(queue[i].buf, overhead + 1, Len(queue[i].buf)))

\* Everything the receiver gets out of a queue, call by call until there is
\* nothing.
ReceiveAll(queue) ==
    LET got[k \in 0 .. Len(queue)] ==
            IF k = 0 THEN [all |-> << >>, queue |-> queue]
            ELSE LET r == Receive(got[k - 1].queue)
                 IN IF r.msg = << >> THEN got[k - 1]
                    ELSE [all |-> Append(got[k - 1].all, r.msg), queue |-> r.queue]
    IN got[Len(queue)].all

\* The queues that two senders can fill together.
Merges(s, t) ==
    {[i \in 1 .. Len(s) + Len(t) |->
        LET k == Cardinality(m \cap 1 .. i)
        IN IF i \in m THEN s[k] ELSE t[i - k]] :
     m \in {x \in SUBSET (1 .. Len(s) + Len(t)) : Cardinality(x) = Len(s)}}

-----------------------------------------------------------------------------
\* The length of a message that send() cuts right: it is no longer than an
\* entry, or the remainder leaves room for the header.  For the empty message
\* nothing is sent.
Sound(bytes) == bytes > 0 /\ (bytes <= bufsize \/ Remainder(bytes) >= overhead)

(***************************************************************************)
(* Two senders write one message each into the queue, and the receiver     *)
(* gets both of them as they were sent if their lengths are sound and no   *)
(* entry of one stands between two entries of the other; in all other      *)
(* cases it gets something else ("sending -= ((bytes + overhead) %         *)
(* bufsize)", mq.h:126, and the unchecked timed_receive, mq.h:103).        *)
(***************************************************************************)
FramesReassemble(lengths) ==
    \A a, b \in lengths :
        LET s == Entries("a", a)
            t == Entries("b", b)
            ms == {<<Message("a", a), Message("b", b)>>, <<Message("b", b), Message("a", a)>>}
        IN \A q \in Merges(s, t) :
              ReceiveAll(q) \in ms <=>
                  Sound(a) /\ Sound(b) /\ q \in {s \o t, t \o s}

=============================================================================
