------------------------------- MODULE Search -------------------------------
(***************************************************************************)
(* Searches of the read API while calls of the write API commit: a reader  *)
(* holds no lock over a search, and every node object reads its record by  *)
(* itself, when it is first asked for its edges or its type.               *)
(*                                                                         *)
(* One reader runs all_clusters and find_orphaned_nodes                    *)
(* (librange/core/read_api.cpp), one step per record it reads.  get_node   *)
(* first reads the version of the graph and then the record; the list of   *)
(* versions in the record says whether the node was there at that version, *)
(* which is the set "then" here.  A loop over all nodes reads in one       *)
(* Berkeley DB snapshot.                                                   *)
(***************************************************************************)
EXTENDS Lookup

VARIABLES
    reader,    \* the call that is running, see Idle
    keptEdges, \* the edges that were there ever since the call began
    keptLive   \* the nodes that were there ever since the call began

searchVars == <<reader, keptEdges, keptLive>>

allVars == <<vars, searchVars>>

\* No call is running.
Idle == [pc |-> "idle", op |-> "none",
         start |-> {},      \* the nodes that were there when the call began
         root |-> NoName,   \* the node the search starts from
         then |-> {},       \* the nodes of the version that was read
         todo |-> {},       \* the environments that are left
         st |-> <<>>,       \* the stack
         visited |-> {},
         found |-> {}]

SearchInit == Init /\ reader = Idle /\ keptEdges = {} /\ keptLive = {}

Reads == UNCHANGED <<vars, keptEdges, keptLive>>

-----------------------------------------------------------------------------
(* all_clusters *)

\* get_node reads the version.
AllClusters(e) ==
    /\ reader.pc = "idle"
    /\ reader' = [Idle EXCEPT !.pc = "root", !.op = "all_clusters", !.root = e,
                              !.start = primary.live, !.then = primary.live]
    /\ keptEdges' = primary.edges
    /\ keptLive' = primary.live
    /\ UNCHANGED vars

(* find_orphaned_nodes *)

\* all_environments reads the version.
FindOrphanedNodes ==
    /\ reader.pc = "idle"
    /\ reader' = [Idle EXCEPT !.pc = "envs", !.op = "find_orphaned_nodes",
                              !.start = primary.live, !.then = primary.live]
    /\ keptEdges' = primary.edges
    /\ keptLive' = primary.live
    /\ UNCHANGED vars

\* The snapshot of all_environments.
ReadEnvironments ==
    /\ reader.pc = "envs"
    /\ reader' = [reader EXCEPT !.pc = "version", !.then = {},
                     !.todo = {n \in reader.then : primary.type[n] = "ENVIRONMENT"}]
    /\ Reads

\* A variant: the list is not advanced.
NextEnvironmentAgain ==
    /\ reader.pc = "version"
    /\ \E e \in reader.todo :
          reader' = [reader EXCEPT !.pc = "root", !.root = e, !.then = primary.live]
    /\ Reads

\* The next environment: get_node reads the version.
NextEnvironment ==
    /\ reader.pc = "version"
    /\ \E e \in reader.todo :
          reader' = [reader EXCEPT !.pc = "root", !.root = e, !.todo = @ \ {e},
                                   !.then = primary.live]
    /\ Reads

\* The nodes of the graph that were not visited; version and records.
ListOrphans ==
    /\ reader.pc = "version"
    /\ reader.todo = {}
    /\ reader' = [reader EXCEPT !.pc = "answer", !.found = primary.live \ reader.visited]
    /\ Reads

(* Both *)

\* A variant: children are marked when they are pushed and not looked into.
LoadedMarked(r, v, st) ==
    IF v \in r.visited THEN [r EXCEPT !.st = st, !.pc = "walk"]
    ELSE [r EXCEPT !.pc = "walk", !.then = {},
                   !.visited = @ \cup {v} \cup Range(forward_edges(primary, v)),
                   !.st = st \o forward_edges(primary, v),
                   !.found = IF /\ r.op = "all_clusters"
                                /\ primary.type[v] = "CLUSTER"
                             THEN @ \cup {v} ELSE @]

\* The record of v is read: its type and its edges.
Loaded(r, v, st) ==
    IF v \in r.visited THEN [r EXCEPT !.st = st, !.pc = "walk"]
    ELSE [r EXCEPT !.pc = "walk", !.then = {},
                   !.visited = @ \cup {v}, !.st = st \o forward_edges(primary, v),
                   !.found = IF /\ r.op = "all_clusters"
                                /\ primary.type[v] = "CLUSTER"
                             THEN @ \cup {v} ELSE @]

\* The second half of get_node.
ReadRoot ==
    /\ reader.pc = "root"
    /\ reader.root \in reader.then
    /\ reader' = Loaded(reader, reader.root, <<>>)
    /\ Reads

Ended == reader' = Idle /\ keptEdges' = {} /\ keptLive' = {} /\ UNCHANGED vars

\* all_clusters throws NodeNotFoundException for a node that is not there.
ThrowNotFound ==
    /\ reader.pc = "root" /\ reader.op = "all_clusters"
    /\ reader.root \notin reader.then
    /\ Ended

\* find_orphaned_nodes pushes the null pointer and reads through it.
ReadNull ==
    /\ reader.pc = "root" /\ reader.op = "find_orphaned_nodes"
    /\ reader.root \notin reader.then
    /\ reader' = [reader EXCEPT !.pc = "crashed"]
    /\ Reads

ReadNext ==
    /\ reader.pc = "walk"
    /\ reader.st # <<>>
    /\ reader' = Loaded(reader, Last(reader.st), Front(reader.st))
    /\ Reads

EndWalk ==
    /\ reader.pc = "walk"
    /\ reader.st = <<>>
    /\ reader' = [reader EXCEPT !.pc = IF reader.op = "all_clusters" THEN "answer"
                                       ELSE "version"]
    /\ Reads

Answer == reader.pc = "answer" /\ Ended

Step == ReadEnvironments \/ NextEnvironment \/ ListOrphans \/ ReadRoot
        \/ ThrowNotFound \/ ReadNull \/ ReadNext \/ EndWalk \/ Answer

\* A call of the write API commits.
Write ==
    /\ Next
    /\ keptEdges' = keptEdges \cap primary'.edges
    /\ keptLive' = keptLive \cap primary'.live
    /\ UNCHANGED reader

SearchNext == (\E e \in Env : AllClusters(e)) \/ FindOrphanedNodes \/ Step \/ Write

SearchSpec == SearchInit /\ [][SearchNext]_allVars /\ WF_allVars(Step)

-----------------------------------------------------------------------------
\* A search that runs beside writers sees what stayed as long as it ran.
\* all_clusters finds every cluster that was in the environment, by a path of
\* edges that stayed, whatever was written meanwhile; find_orphaned_nodes
\* reports no node that an environment held all the time; and it reads a null
\* pointer only when an environment that was there when it began was removed
\* (read_api.cpp:213-247, 966-1005).
KeptIsSeen ==
    /\ reader.pc = "answer" /\ reader.op = "all_clusters" =>
          \A n \in Reached(keptEdges, {reader.root} \cap keptLive) :
              primary.type[n] = "CLUSTER" => n \in reader.found
    /\ reader.pc = "answer" /\ reader.op = "find_orphaned_nodes" =>
          reader.found
              \cap Reached(keptEdges, {e \in keptLive : primary.type[e] = "ENVIRONMENT"}) = {}
    /\ reader.pc = "crashed" => reader.root \in reader.start \ keptLive

\* A search ends, or crashes, however many calls write meanwhile.
SearchEnds == reader.pc # "idle" ~> reader.pc \in {"idle", "crashed"}

-----------------------------------------------------------------------------
(* The inductive invariant behind KeptIsSeen. *)

Reader ==
    [pc : {"idle", "envs", "version", "root", "walk", "answer", "crashed"},
     op : {"none", "all_clusters", "find_orphaned_nodes"},
     start : SUBSET Node, root : Node \cup {NoName}, then : SUBSET Node,
     todo : SUBSET Node, st : Seq(Node), visited : SUBSET Node, found : SUBSET Node]

\* What stayed is there, and was when the call began and when it last read the
\* version.
StillThere ==
    /\ keptEdges \subseteq primary.edges
    /\ keptLive \subseteq primary.live \cap reader.start
    /\ reader.pc \in {"envs", "root"} => keptLive \subseteq reader.then

\* Where the call is and what it is about.
Places ==
    /\ reader.pc # "idle" => reader.op # "none"
    /\ reader.pc \in {"envs", "version", "crashed"} => reader.op = "find_orphaned_nodes"
    /\ reader.pc # "walk" => reader.st = <<>>
    /\ reader.pc = "envs" => reader.then \subseteq reader.start
    /\ reader.todo \subseteq reader.start
    /\ reader.pc = "root" => reader.root \in Node
    /\ reader.pc = "root" /\ reader.op = "find_orphaned_nodes" => reader.root \in reader.start
    /\ reader.pc = "crashed" => reader.root \in reader.start \ keptLive

\* What the call holds had a type when it was read, so it keeps that.
Known ==
    \A n \in reader.then \cup reader.visited \cup Range(reader.st) :
        primary.type[n] # "UNKNOWN"

\* An edge that stayed leads from a visited node to one that is visited or on
\* the stack.
Followed ==
    \A n, m \in Node :
        n \in reader.visited /\ <<n, m>> \in keptEdges =>
            m \in reader.visited \cup Range(reader.st)

\* all_clusters has its root behind it, and found every cluster it visited.
ClustersCounted ==
    reader.op = "all_clusters" =>
        /\ reader.pc \in {"walk", "answer"} => reader.root \in reader.visited
        /\ \A n \in reader.visited : primary.type[n] = "CLUSTER" => n \in reader.found

\* find_orphaned_nodes has every environment that stayed behind it or before it.
EnvironmentsCounted ==
    reader.op = "find_orphaned_nodes" =>
        /\ reader.pc \in {"version", "root", "walk", "answer"} =>
              \A e \in keptLive : primary.type[e] = "ENVIRONMENT" =>
                  \/ e \in reader.visited \cup reader.todo
                  \/ reader.pc = "root" /\ e = reader.root
        /\ reader.pc = "walk" => reader.root \in reader.visited
        /\ reader.pc = "answer" => reader.todo = {} /\ reader.found \cap reader.visited = {}

SearchInv ==
    /\ Inv /\ TypesFit
    /\ reader \in Reader
    /\ StillThere /\ Places /\ Known /\ Followed
    /\ ClustersCounted /\ EnvironmentsCounted
=============================================================================
