--------------------------- MODULE RangeVersions ---------------------------
(***************************************************************************)
(* The stored state that spans the two graphs: the transaction log         *)
(* (librange/db/berkeley_dbcxx_txlog.cpp), the list of range versions with *)
(* the version of each graph (berkeley_dbcxx_backend.cpp), the order in    *)
(* which a write call commits them (berkeley_dbcxx_range_txn.cpp), and the *)
(* versions that readers of the past get back.  Of a graph only its        *)
(* version is kept.                                                        *)
(*                                                                         *)
(* Most calls hold one Berkeley DB transaction until they return.          *)
(* create_env, remove_env and add_host declare the range transaction       *)
(* first: each graph, the log and the list are committed by themselves,    *)
(* and a crash of the daemon may come between any two.                     *)
(*                                                                         *)
(* A reader names a range version by its index in the list, which starts   *)
(* from 0.  For index 0, and for an empty list, the unsigned counter of    *)
(* set_wanted_version wraps around and the code reads before the list:     *)
(* these calls are left out.                                               *)
(***************************************************************************)
EXTENDS Integers, Sequences

CONSTANTS
    Readers,      \* threads of one process that read a past version
    MaxCalls,     \* bound on the write calls
    MaxCrashes,   \* bound on the crashes of the daemon
    MaxTime       \* bound on the clock

ASSUME VersionsAssumption ==
    MaxCalls \in Nat /\ MaxCrashes \in Nat /\ MaxTime \in Nat

VARIABLES
    primary,      \* the version of the primary graph
    dependency,   \* the version of the dependency graph
    txlog,        \* the transaction log: the calls in it
    changes,      \* range_changelist: [primary, dependency, time]
    step,         \* what the running call commits next
    calls,        \* how many write calls began
    brokeOff,     \* the last call ended after it had committed a part
    crashes,
    clock,
    wanted,       \* graph_wanted_version_map_, one for the process
    reader        \* what each reader is doing, see Reader

stored == <<primary, dependency, txlog, changes, step, calls, brokeOff, crashes, clock>>

reading == <<wanted, reader>>

vars == <<stored, reading>>

Change == [primary : Nat, dependency : Nat, time : 0..MaxTime]

Steps == {"idle", "dependency", "append_txn", "add_new_range_version"}

\* -1: the graph is not in the map, and the current version is read.
Wanted == [primary : Nat \cup {-1}, dependency : Nat \cup {-1}]

Reader == [pc : {"idle", "set_primary", "get_primary", "set_dependency",
                 "get_dependency", "done"},
           version : Nat,         \* the range version that was asked for
           there : BOOLEAN,       \* it was in the list when the call began
           disturbed : BOOLEAN,   \* another reader wrote the map meanwhile
           got : Wanted]

TypeOK ==
    /\ primary \in Nat /\ dependency \in Nat
    /\ txlog \in Seq(1..MaxCalls)
    /\ changes \in Seq(Change)
    /\ step \in Steps
    /\ calls \in 0..MaxCalls /\ crashes \in 0..MaxCrashes /\ clock \in 0..MaxTime
    /\ brokeOff \in BOOLEAN
    /\ wanted \in Wanted
    /\ reader \in [Readers -> Reader]

Nothing == [primary |-> -1, dependency |-> -1]

IdleReader == [pc |-> "idle", version |-> 0, there |-> FALSE, disturbed |-> FALSE,
               got |-> Nothing]

Init ==
    /\ primary = 0 /\ dependency = 0
    /\ txlog = <<>> /\ changes = <<>>
    /\ step = "idle" /\ calls = 0 /\ brokeOff = FALSE /\ crashes = 0
    /\ clock = 0
    /\ wanted = Nothing
    /\ reader = [r \in Readers |-> IdleReader]

-----------------------------------------------------------------------------
(* Writing *)

Begins == step = "idle" /\ calls < MaxCalls /\ calls' = calls + 1

append_txn(call) == txlog' = Append(txlog, call)

\* The list gets the versions the graphs have now, with what is pending.
add_new_range_version(p, d) ==
    changes' = Append(changes, [primary |-> p, dependency |-> d, time |-> clock])

\* A call in one transaction.  p and d tell which graphs it changed: neither,
\* when a cluster is added that is there already.  All these calls need a node,
\* and a dependency needs one in its graph.
Call(p, d) ==
    /\ Begins
    /\ primary > 0
    /\ p = 0 => d = 0 \/ dependency > 0
    /\ primary' = primary + p
    /\ dependency' = dependency + d
    /\ append_txn(calls')
    /\ add_new_range_version(primary', dependency')
    /\ brokeOff' = FALSE
    /\ UNCHANGED <<step, crashes, clock, reading>>

\* create_env, remove_env and add_host: the primary graph.
CommitPrimary ==
    /\ Begins
    /\ primary' = primary + 1
    /\ step' = "dependency"
    /\ UNCHANGED <<dependency, txlog, changes, brokeOff, crashes, clock, reading>>

CommitDependency ==
    /\ step = "dependency"
    /\ dependency' = dependency + 1
    /\ step' = "append_txn"
    /\ UNCHANGED <<primary, txlog, changes, calls, brokeOff, crashes, clock, reading>>

\* The node is there already, or is not: an exception ends the call.  The first
\* call of all finds the dependency graph empty and creates its node.
ThrowInDependency ==
    /\ step = "dependency"
    /\ dependency > 0 \/ primary > 1
    /\ step' = "idle"
    /\ brokeOff' = TRUE
    /\ UNCHANGED <<primary, dependency, txlog, changes, calls, crashes, clock, reading>>

\* A variant: the log is written last.
CommitLogLast ==
    /\ step = "append_txn"
    /\ add_new_range_version(primary, dependency)
    /\ step' = "add_new_range_version"
    /\ UNCHANGED <<primary, dependency, txlog, calls, brokeOff, crashes, clock, reading>>

CommitLog ==
    /\ step = "append_txn"
    /\ append_txn(calls)
    /\ step' = "add_new_range_version"
    /\ UNCHANGED <<primary, dependency, changes, calls, brokeOff, crashes, clock, reading>>

\* A variant: the graphs are asked for their versions before the call.
CommitVersionEarly ==
    /\ step = "add_new_range_version"
    /\ add_new_range_version(primary - 1, dependency - 1)
    /\ step' = "idle"
    /\ brokeOff' = FALSE
    /\ UNCHANGED <<primary, dependency, txlog, calls, crashes, clock, reading>>

CommitVersion ==
    /\ step = "add_new_range_version"
    /\ add_new_range_version(primary, dependency)
    /\ step' = "idle"
    /\ brokeOff' = FALSE
    /\ UNCHANGED <<primary, dependency, txlog, calls, crashes, clock, reading>>

\* The daemon crashes and starts again on what was committed.
Crash ==
    /\ step # "idle"
    /\ crashes < MaxCrashes
    /\ crashes' = crashes + 1
    /\ step' = "idle"
    /\ brokeOff' = TRUE
    /\ UNCHANGED <<primary, dependency, txlog, changes, calls, clock, reading>>

Tick ==
    /\ clock < MaxTime
    /\ clock' = clock + 1
    /\ UNCHANGED <<primary, dependency, txlog, changes, step, calls, brokeOff, crashes,
                   reading>>

-----------------------------------------------------------------------------
(* Reading the past: graphdb() of the read API for the primary graph and   *)
(* then for the dependency graph.                                          *)

\* BerkeleyDB::set_wanted_version goes down the list to the version and keeps
\* what it saw last; a version that is not in the list leaves the map alone.
\* A variant: the version itself is not looked at.
set_wanted_versionAbove(v) ==
    IF v + 1 < Len(changes)
    THEN [primary |-> changes[v + 2].primary, dependency |-> changes[v + 2].dependency]
    ELSE wanted

set_wanted_version(v) ==
    IF v < Len(changes)
    THEN [primary |-> changes[v + 1].primary, dependency |-> changes[v + 1].dependency]
    ELSE wanted

Ask(r, v) ==
    /\ reader[r].pc = "idle"
    /\ changes # <<>>
    /\ reader' = [reader EXCEPT ![r] = [IdleReader EXCEPT !.pc = "set_primary",
                     !.version = v, !.there = v < Len(changes)]]
    /\ UNCHANGED <<stored, wanted>>

SetWanted(r, pc, next) ==
    /\ reader[r].pc = pc
    /\ wanted' = set_wanted_version(reader[r].version)
    /\ reader' = [q \in Readers |->
                     IF q = r THEN [reader[q] EXCEPT !.pc = next]
                     ELSE IF reader[q].pc \in {"idle", "done"} THEN reader[q]
                     ELSE [reader[q] EXCEPT !.disturbed = TRUE]]
    /\ UNCHANGED stored

GetPrimary(r) ==
    /\ reader[r].pc = "get_primary"
    /\ reader' = [reader EXCEPT ![r].pc = "set_dependency",
                                ![r].got.primary = wanted.primary]
    /\ UNCHANGED <<stored, wanted>>

GetDependency(r) ==
    /\ reader[r].pc = "get_dependency"
    /\ reader' = [reader EXCEPT ![r].pc = "done",
                                ![r].got.dependency = wanted.dependency]
    /\ UNCHANGED <<stored, wanted>>

Answer(r) ==
    /\ reader[r].pc = "done"
    /\ reader' = [reader EXCEPT ![r] = IdleReader]
    /\ UNCHANGED <<stored, wanted>>

Read(r) ==
    \/ \E v \in 1..MaxCalls : Ask(r, v)
    \/ SetWanted(r, "set_primary", "get_primary")
    \/ GetPrimary(r)
    \/ SetWanted(r, "set_dependency", "get_dependency")
    \/ GetDependency(r)
    \/ Answer(r)

Next ==
    \/ \E p, d \in {0, 1} : Call(p, d)
    \/ CommitPrimary \/ CommitDependency \/ ThrowInDependency
    \/ CommitLog \/ CommitVersion
    \/ Crash
    \/ Tick
    \/ \E r \in Readers : Read(r)

Spec == Init /\ [][Next]_vars

-----------------------------------------------------------------------------
(* get_range_version of the read API: the first change before time t, from *)
(* the oldest, and the version that was passed before it.                  *)

Null == -1

Earlier(t) == {i \in DOMAIN changes : t > changes[i].time}

\* A variant: the version of the change that was found.
get_range_versionFound(t) ==
    IF Earlier(t) = {} THEN Null
    ELSE LET i == CHOOSE i \in Earlier(t) : \A j \in Earlier(t) : i <= j IN i - 1

get_range_version(t) ==
    IF Earlier(t) = {} THEN Null
    ELSE LET i == CHOOSE i \in Earlier(t) : \A j \in Earlier(t) : i <= j
         IN  IF i = 1 THEN Len(changes) ELSE i - 2

-----------------------------------------------------------------------------
\* When no call is running, the newest range version has the versions of both
\* graphs, unless the last call broke off between two transactions: a crash in
\* create_env, remove_env or add_host, or an exception after the primary graph
\* was committed.  The next call that returns puts it right, whichever it is.
LagIsBreak ==
    step = "idle" /\ ~ brokeOff =>
        IF changes = <<>> THEN primary = 0 /\ dependency = 0
        ELSE /\ changes[Len(changes)].primary = primary
             /\ changes[Len(changes)].dependency = dependency

\* The versions in the log and the range versions number the same calls.  The
\* log gets ahead by a crash between the two, and stays so; it never falls
\* behind, and nothing else parts them.
LogAheadByCrashes ==
    (Len(txlog) - Len(changes)) - (IF step = "add_new_range_version" THEN 1 ELSE 0)
        \in 0..crashes

\* Reading version 0 of a graph walks past the first change of its history
\* (GraphDB::set_wanted_version).  A range version asks for it only after a
\* crash in the first calls left a graph without any transaction.
ZeroIsCrash ==
    crashes = 0 => \A i \in DOMAIN changes :
                       changes[i].primary > 0 /\ changes[i].dependency > 0

\* The conjuncts that make the properties inductive: what a call has done that
\* is running, how the first one goes on, the order of the times in the list, and what a
\* reader has seen so far.
Running == step # "idle" => calls > 0 /\ primary > 0

FirstCall ==
    crashes = 0 /\ dependency = 0 =>
        (primary = 0 /\ step = "idle") \/ (primary = 1 /\ step = "dependency")

TimesInOrder ==
    \A i \in DOMAIN changes :
        /\ changes[i].time <= clock
        /\ \A j \in 1..i : changes[j].time <= changes[i].time

At(v) == [primary |-> changes[v + 1].primary, dependency |-> changes[v + 1].dependency]

Seen ==
    \A r \in Readers :
        LET q == reader[r] IN
        q.pc # "idle" /\ q.there /\ ~ q.disturbed =>
            /\ q.version < Len(changes)
            /\ q.pc \in {"get_primary", "get_dependency"} => wanted = At(q.version)
            /\ q.pc \in {"set_dependency", "get_dependency", "done"} =>
                  q.got.primary = At(q.version).primary
            /\ q.pc = "done" => q.got.dependency = At(q.version).dependency

\* A reader of a range version in the list gets the versions both graphs had
\* then, however many calls commit meanwhile, unless another thread of its
\* process read a past version at the same time: the map is shared and the
\* versions are set and got in separate calls.
OwnVersions ==
    \A r \in Readers :
        LET q == reader[r] IN
        q.pc = "done" /\ q.there /\ ~ q.disturbed =>
            /\ q.got.primary = changes[q.version + 1].primary
            /\ q.got.dependency = changes[q.version + 1].dependency

\* The inductive invariant of the proofs.
Inv == /\ TypeOK /\ LagIsBreak /\ LogAheadByCrashes /\ Running /\ FirstCall
       /\ ZeroIsCrash /\ TimesInOrder /\ Seen

\* "the range version that was active at the specified time, or RangeNull if
\* there was no range version" (api.h:114) holds for a time after the newest
\* change, for which it is the current version, and for one before the first.
\* For a time in between it is the current version as well: no time finds an
\* older one.
TimeFindsCurrent ==
    \A t \in 0..MaxTime :
        /\ get_range_version(t) \in {Null, Len(changes)}
        /\ (\A i \in DOMAIN changes : t <= changes[i].time)
               <=> get_range_version(t) = Null
        /\ (changes # <<>> /\ \A i \in DOMAIN changes : t > changes[i].time)
               => get_range_version(t) = Len(changes)
=============================================================================
