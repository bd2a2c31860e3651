---------------------------- MODULE WorkerThreads ---------------------------
(***************************************************************************)
(* The threads of one store daemon (stored/worker_thread.{h,cpp},          *)
(* listenserv.cpp, signalhandler.cpp, paxos.cpp): the listener puts each   *)
(* datagram into the single-producer queue of the worker it is for and     *)
(* notifies that worker's condition variable; the signal handler's thread  *)
(* tells every thread to stop and joins it.                                *)
(*                                                                         *)
(* The notifier never holds the mutex of the condition, and the waiter     *)
(* does not look at its queue before it waits: a notification can come     *)
(* after the last look and before the wait.  All threads have been started *)
(* and registered when the model begins.                                   *)
(***************************************************************************)
EXTENDS Integers, Sequences, SequencesExt

CONSTANTS
    Registered,   \* the queue workers in the order in which they were started
    TimedWait,    \* those that wait with a timeout: in the code the learner
    Item,         \* datagrams
    Capacity,     \* 1024 in the code: the size of a spsc_queue
    NoWorker

Worker == Range(Registered)

ASSUME ThreadAssumption ==
    /\ TimedWait \subseteq Worker
    /\ NoWorker \notin Worker
    /\ Capacity \in Nat

VARIABLES
    arriving,     \* arriving[w]: datagrams for w that were not received yet
    notifying,    \* the worker whose submit() is between push and notify
    listening,    \* whether the listener's thread runs
    queue,        \* queue[w]: Derived::q_
    wpc,          \* wpc[w]: where worker w is, see below
    shutdown,     \* shutdown[t]: shutdown_ of a worker or of the listener
    handled,      \* handled[w]: the datagrams that w took and processed
    sigterm,      \* sigstatus_ = SIGTERM
    step          \* how far SignalHandler::shutdown has come, 0 before it

lvars == <<arriving, notifying, listening>>
hvars == <<sigterm, step>>
vars  == <<lvars, queue, wpc, shutdown, handled, hvars>>

\* A worker's places: the test of the loop in WorkerThread::operator(), the
\* test in q_wait(), before the wait, in the wait, before q_pop(), and after
\* the end of the thread.
Place == {"loop", "check", "lock", "waiting", "drain", "ended"}

Listener == "listener"
Thread   == Worker \cup {Listener}

\* What SignalHandler::shutdown does, in order: threads_ was filled from the
\* front, so the listener, started after the workers, comes first.  Its
\* shutdown() runs unblock_queues(); that of a worker unblock().
Script ==
    LET each(op(_)) == [i \in 1 .. Len(Registered) |-> op(Registered[i])]
        note(w) == [op |-> "notify", thread |-> w]
        join(w) == [op |-> "join", thread |-> w]
        stop(w) == <<[op |-> "flag", thread |-> w], note(w)>>
        newest == Reverse(Registered)
    IN  <<[op |-> "flag", thread |-> Listener]>>
          \o each(note)
          \o FlattenSeq([i \in 1 .. Len(newest) |-> stop(newest[i])])
          \o <<join(Listener)>>
          \o Reverse(each(join))

TypeOK ==
    /\ arriving  \in [Worker -> SUBSET Item]
    /\ notifying \in Worker \cup {NoWorker}
    /\ listening \in BOOLEAN
    /\ queue     \in [Worker -> Seq(Item)]
    /\ \A w \in Worker : Len(queue[w]) <= Capacity
    /\ wpc       \in [Worker -> Place]
    /\ shutdown  \in [Thread -> BOOLEAN]
    /\ handled   \in [Worker -> SUBSET Item]
    /\ sigterm   \in BOOLEAN
    /\ step      \in 0 .. Len(Script) + 1

Init ==
    /\ arriving = [w \in Worker |-> Item]
    /\ notifying = NoWorker
    /\ listening = TRUE
    /\ queue = [w \in Worker |-> <<>>]
    /\ wpc = [w \in Worker |-> "loop"]
    /\ shutdown = [t \in Thread |-> FALSE]
    /\ handled = [w \in Worker |-> {}]
    /\ sigterm = FALSE
    /\ step = 0

-----------------------------------------------------------------------------
\* notify_one() or notify_all() on the condition of w: only a thread that
\* waits at this moment is woken.
Wake(w) == wpc' = [wpc EXCEPT ![w] = IF @ = "waiting" THEN "drain" ELSE @]

(* Listener *)

\* receive_handler() up to the push in submit(); its result is ignored, so a
\* datagram is lost when the queue is full.
Push(w, i) ==
    /\ listening
    /\ ~ shutdown[Listener]
    /\ notifying = NoWorker
    /\ i \in arriving[w]
    /\ arriving' = [arriving EXCEPT ![w] = @ \ {i}]
    /\ queue' = IF Len(queue[w]) < Capacity
                THEN [queue EXCEPT ![w] = Append(@, i)]
                ELSE queue
    /\ notifying' = w
    /\ UNCHANGED <<listening, wpc, shutdown, handled, hvars>>

\* The rest of submit() and of receive_handler().
Notify ==
    /\ notifying # NoWorker
    /\ Wake(notifying)
    /\ notifying' = NoWorker
    /\ UNCHANGED <<arriving, listening, queue, shutdown, handled, hvars>>

\* io_service_.run() returns and the loop in operator() ends.
ListenerEnds ==
    /\ listening
    /\ notifying = NoWorker
    /\ shutdown[Listener]
    /\ listening' = FALSE
    /\ UNCHANGED <<arriving, notifying, queue, wpc, shutdown, handled, hvars>>

(* Workers *)

Goto(w, place) == wpc' = [wpc EXCEPT ![w] = place]

\* A variant that does not test shutdown_.
LoopForEver(w) ==
    /\ wpc[w] = "loop"
    /\ Goto(w, "check")
    /\ UNCHANGED <<lvars, queue, shutdown, handled, hvars>>

\* while(!shutdown_) in WorkerThread::operator().
Loop(w) ==
    /\ wpc[w] = "loop"
    /\ Goto(w, IF shutdown[w] THEN "ended" ELSE "check")
    /\ UNCHANGED <<lvars, queue, shutdown, handled, hvars>>

\* q_wait() returns at once when the thread is to stop.
Check(w) ==
    /\ wpc[w] = "check"
    /\ Goto(w, IF shutdown[w] THEN "drain" ELSE "lock")
    /\ UNCHANGED <<lvars, queue, shutdown, handled, hvars>>

\* The thread begins to wait.
Wait(w) ==
    /\ wpc[w] = "lock"
    /\ Goto(w, "waiting")
    /\ UNCHANGED <<lvars, queue, shutdown, handled, hvars>>

\* A variant for the q_wait() without a timeout, which the proposer and the
\* accepter use: nothing but a notification ends the wait.
NeverExpire(w) == FALSE /\ Goto(w, "drain")

\* wait_for() times out, or the wait ends spuriously.
Expire(w) ==
    /\ wpc[w] = "waiting"
    /\ Goto(w, "drain")
    /\ UNCHANGED <<lvars, queue, shutdown, handled, hvars>>

\* while(q_pop(req) && !get_shutdown()): a request that is popped when the
\* thread is to stop is dropped.
Pop(w) ==
    /\ wpc[w] = "drain"
    /\ IF queue[w] = <<>>
       THEN UNCHANGED <<queue, handled>>
       ELSE /\ queue' = [queue EXCEPT ![w] = Tail(@)]
            /\ handled' = IF shutdown[w] THEN handled
                          ELSE [handled EXCEPT ![w] = @ \cup {Head(queue[w])}]
    /\ Goto(w, IF queue[w] = <<>> \/ shutdown[w] THEN "loop" ELSE "drain")
    /\ UNCHANGED <<lvars, shutdown, hvars>>

\* An exception leaves event_task(): the thread ends and asks for the end of
\* the daemon with SignalHandler::terminate.
Fail(w) ==
    /\ wpc[w] = "drain"
    /\ ~ shutdown[w]
    /\ queue[w] # <<>>
    /\ queue' = [queue EXCEPT ![w] = Tail(@)]
    /\ Goto(w, "ended")
    /\ sigterm' = TRUE
    /\ UNCHANGED <<lvars, shutdown, handled, step>>

(* Signal handler *)

\* signal_handler_tophalf() on SIGINT, SIGQUIT or SIGTERM.
Signal ==
    /\ ~ sigterm
    /\ sigterm' = TRUE
    /\ UNCHANGED <<lvars, queue, wpc, shutdown, handled, step>>

\* signal_handler_bottomhalf() calls shutdown().
BottomHalf ==
    /\ sigterm
    /\ step = 0
    /\ step' = 1
    /\ UNCHANGED <<lvars, queue, wpc, shutdown, handled, sigterm>>

Ended(t) == IF t = Listener THEN ~ listening ELSE wpc[t] = "ended"

\* The next operation of shutdown(); join() blocks until the thread ended.
HandlerStep ==
    /\ step \in DOMAIN Script
    /\ step' = step + 1
    /\ LET s == Script[step]
       IN  \/ /\ s.op = "flag"
              /\ shutdown' = [shutdown EXCEPT ![s.thread] = TRUE]
              /\ UNCHANGED wpc
           \/ /\ s.op = "notify"
              /\ Wake(s.thread)
              /\ UNCHANGED shutdown
           \/ /\ s.op = "join"
              /\ Ended(s.thread)
              /\ UNCHANGED <<wpc, shutdown>>
    /\ UNCHANGED <<lvars, queue, handled, sigterm>>

-----------------------------------------------------------------------------
ListenerStep == (\E w \in Worker, i \in Item : Push(w, i)) \/ Notify \/ ListenerEnds

WorkerRuns(w) == Loop(w) \/ Check(w) \/ Wait(w) \/ Pop(w)

Next ==
    \/ ListenerStep
    \/ \E w \in Worker : WorkerRuns(w) \/ Expire(w) \/ Fail(w)
    \/ Signal \/ BottomHalf \/ HandlerStep

Spec == Init /\ [][Next]_vars

\* Threads that can run do; only a wait with a timeout ends by itself.
FairSpec ==
    /\ Spec
    /\ WF_vars(Notify) /\ WF_vars(ListenerEnds)
    /\ \A w \in Worker : WF_vars(WorkerRuns(w))
    /\ \A w \in TimedWait : WF_vars(Expire(w))
    /\ WF_vars(BottomHalf) /\ WF_vars(HandlerStep)

-----------------------------------------------------------------------------
(***************************************************************************)
(* What submit() put into a queue is processed, unless the daemon stops or *)
(* the worker died of an exception: notifications that miss the wait are   *)
(* made up for by the timeout of the learner's q_wait().                   *)
(***************************************************************************)
QueuedIsHandled ==
    \A w \in Worker, i \in Item :
        (\E k \in DOMAIN queue[w] : queue[w][k] = i)
            ~> (i \in handled[w] \/ shutdown[w] \/ wpc[w] = "ended")

(***************************************************************************)
(* Once the daemon was told to stop, by a signal or by terminate() in a    *)
(* failing worker, SignalHandler::shutdown has joined every thread in the  *)
(* end: no worker is left in a wait that began after its notification.     *)
(***************************************************************************)
ShutdownReturns == sigterm ~> step = Len(Script) + 1
=============================================================================
