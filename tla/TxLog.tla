------------------------------- MODULE TxLog --------------------------------
(***************************************************************************)
(* The transaction log by its records (librange/db/                        *)
(* berkeley_dbcxx_txlog.cpp, txlog_iterator.cpp): a table of numbered      *)
(* records (DB_RECNO) in which a record that is deleted leaves its number  *)
(* empty.  A record is the call that was logged and the version it was     *)
(* given.                                                                  *)
(***************************************************************************)
EXTENDS Integers, Sequences, FiniteSetsExt

\* A cursor that has come to no record: an iterator there is equal to end().
None == 0

\* BerkeleyDBCXXTxLogCursor: the record a step comes to.
get(log, v) == IF v \in DOMAIN log THEN v ELSE None
next(log, at) == LET later == {r \in DOMAIN log : r > at}
                 IN IF later = {} THEN None ELSE Min(later)
prev(log, at) == LET earlier == {r \in DOMAIN log : r < at}
                 IN IF earlier = {} THEN None ELSE Max(earlier)
first(log) == next(log, 0)
last(log) == IF DOMAIN log = {} THEN None ELSE Max(DOMAIN log)

\* append_txn: the number after that of the last record.
append_txn(log, call) ==
    LET key == IF last(log) = None THEN 1 ELSE log[last(log)].version + 1
    IN [r \in DOMAIN log \cup {key} |->
          IF r = key THEN [version |-> key, call |-> call] ELSE log[r]]

\* A variant: the version itself goes as well.
prune_txns_prior_toWith(log, v) ==
    LET gone == {r \in DOMAIN log : \A q \in DOMAIN log : q <= r => log[q].version <= v}
    IN [r \in DOMAIN log \ gone |-> log[r]]

\* prune_txns_prior_to: from the first record on, up to one of this version.
prune_txns_prior_to(log, v) ==
    LET gone == {r \in DOMAIN log : \A q \in DOMAIN log : q <= r => log[q].version < v}
    IN [r \in DOMAIN log \ gone |-> log[r]]

\* TxLogIterator: the record that the iterator at record r comes to.
increment(log, r) == next(log, r)
decrement(log, r) == prev(log, r)
advance(log, r, n) == get(log, log[r].version + n)

\* TxLogIterator::distance_to
distance_to(log, r, q) == log[q].version - log[r].version

-----------------------------------------------------------------------------
(* A history of the log: 0 appends a call, another number prunes up to it. *)

\* The log and the calls that were ever appended, after the i-th call, h, of
\* a history that had led to s.
After(s, h, i) ==
    IF h = 0 THEN [log |-> append_txn(s.log, i), calls |-> Append(s.calls, i)]
    ELSE [log |-> prune_txns_prior_to(s.log, h), calls |-> s.calls]

Run(history) ==
    LET run[i \in 0 .. Len(history)] ==
            IF i = 0 THEN [log |-> << >>, calls |-> << >>]
            ELSE After(run[i - 1], history[i], i)
    IN run

(***************************************************************************)
(* The version of a call is its place among all that were ever appended,   *)
(* pruned or not, and what find() gives for it; the iterators meet the     *)
(* versions that are left one by one, forwards and backwards, and count    *)
(* them right ("version which should become oldest version in txlog        *)
(* (version itself is NOT removed)", db_interface.h:213).  The exception:  *)
(* a call that prunes all leaves no last record, and the versions start    *)
(* from 1 again (berkeley_dbcxx_txlog.cpp:380).                            *)
(***************************************************************************)
VersionsArePlaces(histories) ==
    \A history \in histories :
        LET run == Run(history)
        IN (\A i \in DOMAIN history : history[i] <= last(run[i - 1].log)) =>
             \A i \in DOMAIN history :
                LET log == run[i].log
                    calls == run[i].calls
                    oldest == Max({1} \cup {history[j] : j \in 1 .. i})
                IN /\ first(log) = oldest /\ last(log) = Len(calls)
                   /\ \A v \in DOMAIN calls :
                        IF v < oldest THEN get(log, v) = None
                        ELSE /\ get(log, v) = v /\ log[v].call = calls[v]
                             /\ increment(log, v) = IF v = Len(calls) THEN None ELSE v + 1
                             /\ decrement(log, v) = IF v = oldest THEN None ELSE v - 1
                             /\ \A q \in DOMAIN log : advance(log, v, distance_to(log, v, q)) = q
=============================================================================
