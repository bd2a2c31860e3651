------------------------------ MODULE WriteAPI ------------------------------
(***************************************************************************)
(* The write API (librange/core/write_api.cpp) over its two graphs: the    *)
(* primary graph holds environments, clusters and hosts, the dependency    *)
(* graph the same names with edges to what they depend on.                 *)
(*                                                                         *)
(* A graph is what PropertyGraph promises, with the type of each node.     *)
(* Most calls run both graph transactions inside one Berkeley DB           *)
(* transaction, which an exception aborts.  create_env, remove_env and     *)
(* add_host run them one after the other, and an exception in the second   *)
(* leaves the first committed.  A call that throws before anything was     *)
(* committed changes nothing and is not a step.  Calls do not overlap: the *)
(* learner makes them.  The calls for keys and values are in GraphDB.      *)
(***************************************************************************)
EXTENDS Naturals

CONSTANTS
    Plain,        \* names without an environment: of environments and hosts
    Local,        \* names of clusters in their environment
    Env,          \* the names used for environments
    Host,         \* the names used for hosts
    Cluster,      \* the names used for clusters: <<environment, local name>>
    MaxVersion    \* bound on the transactions of each graph

ASSUME WriteAssumption ==
    /\ Env \subseteq Plain
    /\ Host \subseteq Plain
    /\ Cluster \subseteq Env \X Local
    /\ Plain \cap (Plain \X Local) = {}
    /\ MaxVersion \in Nat

VARIABLES
    primary,
    dependency,
    threw         \* whether the last call threw an exception

vars == <<primary, dependency, threw>>

\* prefixed_node_name: the name of a cluster is <<env_name, cluster_name>>.
Node == Plain \cup Cluster

Type == {"UNKNOWN", "ENVIRONMENT", "CLUSTER", "HOST"}

Graph == [live : SUBSET Node, edges : SUBSET (Node \X Node),
          type : [Node -> Type], version : Nat]

TypeOK ==
    /\ primary \in Graph
    /\ dependency \in Graph
    /\ threw \in BOOLEAN

Init ==
    /\ primary = [live |-> {}, edges |-> {}, type |-> [n \in Node |-> "UNKNOWN"],
                  version |-> 0]
    /\ dependency = primary
    /\ threw = FALSE

-----------------------------------------------------------------------------
(* One transaction of a graph. *)

\* get_node and the check of its type.
Is(g, n, type) == n \in g.live /\ g.type[n] = type

\* get_node, create if there is none, set_type.
Created(g, n, type) ==
    [live |-> g.live \cup {n}, edges |-> g.edges,
     type |-> [g.type EXCEPT ![n] = IF n \in g.live THEN @ ELSE type],
     version |-> g.version]

WithEdges(g, E) ==
    [live |-> g.live, edges |-> E, type |-> g.type, version |-> g.version]

Linked(g, p, n) == WithEdges(g, g.edges \cup {<<p, n>>})

Unlinked(g, p, n) == WithEdges(g, g.edges \ {<<p, n>>})

\* A variant: the edges of the removed node stay.
RemovedWithEdges(g, n) ==
    [live |-> g.live \ {n}, edges |-> g.edges,
     type |-> g.type, version |-> g.version]

Removed(g, n) ==
    [live |-> g.live \ {n}, edges |-> {e \in g.edges : n \notin {e[1], e[2]}},
     type |-> g.type, version |-> g.version]

\* The end of a transaction that leaves g: a new version if it changed
\* something.
Committed(old, g) ==
    [live |-> g.live, edges |-> g.edges, type |-> g.type,
     version |-> old.version + (IF g = old THEN 0 ELSE 1)]

\* A call commits p and d.
Commit(p, d) ==
    /\ primary.version < MaxVersion
    /\ dependency.version < MaxVersion
    /\ primary' = Committed(primary, p)
    /\ dependency' = Committed(dependency, d)

-----------------------------------------------------------------------------
(* Environments *)

CreateEnv(e) ==
    /\ e \notin primary.live
    /\ threw' = (e \in dependency.live)
    /\ Commit(Created(primary, e, "ENVIRONMENT"),
              Created(dependency, e, "ENVIRONMENT"))

\* A variant: the dependency graph is changed before its check fails.
RemoveEnvAnyway(e) ==
    /\ Is(primary, e, "ENVIRONMENT")
    /\ threw' = ~ Is(dependency, e, "ENVIRONMENT")
    /\ Commit(Removed(primary, e), Removed(dependency, e))

RemoveEnv(e) ==
    /\ Is(primary, e, "ENVIRONMENT")
    /\ threw' = ~ Is(dependency, e, "ENVIRONMENT")
    /\ Commit(Removed(primary, e),
              IF threw' THEN dependency ELSE Removed(dependency, e))

(* Clusters *)

\* A variant: the cluster is not created in the dependency graph.
AddClusterToEnvOnly(e, n) ==
    /\ Is(primary, e, "ENVIRONMENT")
    /\ n[1] = e
    /\ n \in primary.live => Is(primary, n, "CLUSTER")
    /\ <<e, n>> \notin primary.edges
    /\ threw' = FALSE
    /\ Commit(Linked(Created(primary, n, "CLUSTER"), e, n), dependency)

AddClusterToEnv(e, n) ==
    /\ Is(primary, e, "ENVIRONMENT")
    /\ n[1] = e
    /\ n \in primary.live => Is(primary, n, "CLUSTER")
    /\ <<e, n>> \notin primary.edges
    /\ threw' = FALSE
    /\ Commit(Linked(Created(primary, n, "CLUSTER"), e, n),
              Created(dependency, n, "CLUSTER"))

RemoveClusterFromEnv(e, n) ==
    /\ Is(primary, e, "ENVIRONMENT")
    /\ n[1] = e
    /\ Is(primary, n, "CLUSTER")
    /\ <<e, n>> \in primary.edges
    /\ threw' = FALSE
    /\ Commit(Unlinked(primary, e, n), dependency)

\* The result of add_forward_edge is ignored.  A cluster that is added to
\* itself is left to GraphDB, here and below.
AddClusterToCluster(p, n) ==
    /\ Is(primary, p, "CLUSTER")
    /\ n[1] = p[1] /\ n # p
    /\ n \in primary.live => Is(primary, n, "CLUSTER")
    /\ threw' = FALSE
    /\ Commit(Linked(Created(primary, n, "CLUSTER"), p, n),
              Created(dependency, n, "CLUSTER"))

RemoveClusterFromCluster(p, n) ==
    /\ Is(primary, p, "CLUSTER")
    /\ n[1] = p[1] /\ n # p
    /\ Is(primary, n, "CLUSTER")
    /\ <<p, n>> \in primary.edges
    /\ threw' = FALSE
    /\ Commit(Unlinked(primary, p, n), dependency)

\* dependency->remove is given the node of the primary graph: it removes the
\* edges of that node once more, and the dependency graph does not change.
RemoveCluster(n) ==
    /\ Is(primary, n, "CLUSTER")
    /\ threw' = FALSE
    /\ Commit(Removed(primary, n), dependency)

(* Hosts *)

AddHost(h) ==
    /\ h \notin primary.live
    /\ threw' = (h \in dependency.live)
    /\ Commit(Created(primary, h, "HOST"), Created(dependency, h, "HOST"))

\* The host is in no cluster of another environment.
NotElsewhere(p, h) ==
    \A e \in primary.edges :
        e[2] = h /\ primary.type[e[1]] = "CLUSTER" => e[1][1] = p[1]

\* A variant: a host may be in several environments.
AddHostAnywhere(p, h) ==
    /\ Is(primary, p, "CLUSTER")
    /\ h \in primary.live => Is(primary, h, "HOST")
    /\ <<p, h>> \notin primary.edges
    /\ threw' = FALSE
    /\ Commit(Linked(Created(primary, h, "HOST"), p, h),
              Created(dependency, h, "HOST"))

\* A variant: whatever has the name is added.
AddAnyToCluster(p, h) ==
    /\ Is(primary, p, "CLUSTER")
    /\ <<p, h>> \notin primary.edges
    /\ NotElsewhere(p, h)
    /\ threw' = FALSE
    /\ Commit(Linked(Created(primary, h, "HOST"), p, h),
              Created(dependency, h, "HOST"))

AddHostToCluster(p, h) ==
    /\ Is(primary, p, "CLUSTER")
    /\ h \in primary.live => Is(primary, h, "HOST")
    /\ NotElsewhere(p, h)
    /\ <<p, h>> \notin primary.edges
    /\ threw' = FALSE
    /\ Commit(Linked(Created(primary, h, "HOST"), p, h),
              Created(dependency, h, "HOST"))

RemoveHostFromCluster(p, h) ==
    /\ Is(primary, p, "CLUSTER")
    /\ Is(primary, h, "HOST")
    /\ <<p, h>> \in primary.edges
    /\ threw' = FALSE
    /\ Commit(Unlinked(primary, p, h), dependency)

\* The nodes from which n can be reached, n among them.
Ancestors(n) ==
    {m \in Node : \A S \in SUBSET Node :
        n \in S /\ (\A e \in primary.edges : e[2] \in S => e[1] \in S) => m \in S}

\* The type of the node is not looked at.  The search upwards ends at the
\* first environment, which has to be the one that was named; a node that is
\* in none may be removed by any.
RemoveHost(e, n) ==
    /\ n \in primary.live
    /\ {m \in Ancestors(n) : m # n /\ primary.type[m] = "ENVIRONMENT"} \subseteq {e}
    /\ threw' = FALSE
    /\ Commit(Removed(primary, n), dependency)

(* Dependencies *)

AddDependency(n, d) ==
    /\ n \in dependency.live /\ d \in dependency.live /\ n # d
    /\ dependency.type[n] \notin {"ENVIRONMENT", "UNKNOWN"}
    /\ <<n, d>> \notin dependency.edges
    /\ threw' = FALSE
    /\ Commit(primary, Linked(dependency, n, d))

RemoveDependency(n, d) ==
    /\ n \in dependency.live /\ d \in dependency.live /\ n # d
    /\ <<n, d>> \in dependency.edges
    /\ threw' = FALSE
    /\ Commit(primary, Unlinked(dependency, n, d))

Next ==
    \/ \E e \in Env : CreateEnv(e) \/ RemoveEnv(e)
    \/ \E h \in Host : AddHost(h)
    \/ \E n \in Cluster : RemoveCluster(n)
    \/ \E e \in Env :
          \/ \E n \in Cluster : AddClusterToEnv(e, n) \/ RemoveClusterFromEnv(e, n)
          \/ \E n \in Node : RemoveHost(e, n)
    \/ \E p \in Cluster :
          \/ \E n \in Cluster : AddClusterToCluster(p, n) \/ RemoveClusterFromCluster(p, n)
          \/ \E h \in Host : AddHostToCluster(p, h) \/ RemoveHostFromCluster(p, h)
    \/ \E n, d \in Node : AddDependency(n, d) \/ RemoveDependency(n, d)

Spec == Init /\ [][Next]_vars

-----------------------------------------------------------------------------
\* Environments hold clusters, clusters hold clusters and hosts, and a cluster
\* is only held by its own environment or a cluster of it; what an edge joins
\* exists.  The types are checked call by call, types outlive their nodes, and
\* remove_host removes whatever has the name.
WellFormed ==
    \A p, n \in Node : <<p, n>> \in primary.edges =>
        /\ p \in primary.live /\ n \in primary.live
        /\ \/ /\ primary.type[p] = "ENVIRONMENT"
              /\ primary.type[n] = "CLUSTER"
              /\ n \in Cluster /\ n[1] = p
           \/ /\ primary.type[p] = "CLUSTER"
              /\ primary.type[n] = "CLUSTER"
              /\ n \in Cluster /\ p \in Cluster /\ n[1] = p[1]
           \/ /\ primary.type[p] = "CLUSTER"
              /\ primary.type[n] = "HOST"
              /\ p \in Cluster

\* All clusters that hold a host belong to one environment ("exists in another
\* environment", add_host_to_cluster), also when clusters and environments were
\* removed and created again meanwhile.
OneEnvironment ==
    \A p, q \in Cluster, h \in Host :
        <<p, h>> \in primary.edges /\ <<q, h>> \in primary.edges => p[1] = q[1]

\* Whatever exists in the primary graph can be given dependencies: it exists in
\* the dependency graph too, although calls fail half way and the two graphs
\* are not removed from alike.
DependencyCovers == primary.live \subseteq dependency.live

\* The three are inductive together.
Inv == TypeOK /\ WellFormed /\ OneEnvironment /\ DependencyCovers

\* Each of the two graphs sees one transaction of PropertyGraph at a time,
\* which is what GraphDB implements.
P == INSTANCE PropertyGraph WITH
        Nodes <- Node, Keys <- {}, Values <- {},
        live <- primary.live, edges <- primary.edges, loops <- {},
        tags <- [n \in Node |-> {}], done <- primary.version

D == INSTANCE PropertyGraph WITH
        Nodes <- Node, Keys <- {}, Values <- {},
        live <- dependency.live, edges <- dependency.edges, loops <- {},
        tags <- [n \in Node |-> {}], done <- dependency.version

ImplementsGraphs == P!GraphSpec /\ D!GraphSpec

\* "has a native atomic-write API" (README.md:12).  A call that throws after
\* its first transaction has done the half of it on the primary graph: it made
\* a name that remove_cluster or remove_host had left in the dependency graph,
\* or removed an environment that is none in there, and the dependency graph
\* stays as it was (create_env, remove_env, add_host).
ThrewIsHalfDone ==
    [][threw' =>
        /\ dependency' = dependency
        /\ \E n \in Plain :
              \/ /\ n \in dependency.live \ primary.live
                 /\ primary'.live = primary.live \cup {n}
              \/ /\ n \in primary.live
                 /\ dependency.type[n] # primary.type[n]
                 /\ primary'.live = primary.live \ {n}]_vars
=============================================================================
