----------------------------- MODULE APIProofs ------------------------------
(***************************************************************************)
(* The calls of the API, for every set of names and any number of calls:   *)
(* the invariants of the two graphs that the write API keeps; the names in *)
(* the answers of the read API; searches that run beside writers; and what *)
(* the searches down from an environment and up for a key and the sort of  *)
(* dependencies give.                                                      *)
(***************************************************************************)
EXTENDS Search, Traversal, FiniteSetTheorems, NaturalsInduction, WellFoundedInduction, TLAPS

(***************************************************************************)
(* The end of a transaction only counts: what it leaves is what the call   *)
(* made of the graph.                                                      *)
(***************************************************************************)
LEMMA CommittedFields ==
    ASSUME NEW old \in Graph, NEW g \in Graph
    PROVE  LET c == Committed(old, g)
           IN  /\ c \in Graph
               /\ c.live = g.live
               /\ c.edges = g.edges
               /\ c.type = g.type
BY DEF Committed, Graph

(***************************************************************************)
(* What creating, linking, unlinking and removing make of a graph.         *)
(***************************************************************************)
LEMMA CreatedFields ==
    ASSUME NEW g \in Graph, NEW n \in Node, NEW t \in Type
    PROVE  /\ Created(g, n, t) \in Graph
           /\ Created(g, n, t).live = g.live \cup {n}
           /\ Created(g, n, t).edges = g.edges
           /\ \A m \in Node : m # n \/ n \in g.live =>
                                Created(g, n, t).type[m] = g.type[m]
           /\ n \notin g.live => Created(g, n, t).type[n] = t
BY DEF Created, Graph

LEMMA LinkedFields ==
    ASSUME NEW g \in Graph, NEW p \in Node, NEW n \in Node
    PROVE  /\ Linked(g, p, n) \in Graph
           /\ Linked(g, p, n).live = g.live
           /\ Linked(g, p, n).edges = g.edges \cup {<<p, n>>}
           /\ Linked(g, p, n).type = g.type
BY DEF Linked, WithEdges, Graph

LEMMA UnlinkedFields ==
    ASSUME NEW g \in Graph, NEW p \in Node, NEW n \in Node
    PROVE  /\ Unlinked(g, p, n) \in Graph
           /\ Unlinked(g, p, n).live = g.live
           /\ Unlinked(g, p, n).edges = g.edges \ {<<p, n>>}
           /\ Unlinked(g, p, n).type = g.type
BY DEF Unlinked, WithEdges, Graph

LEMMA RemovedFields ==
    ASSUME NEW g \in Graph, NEW n \in Node
    PROVE  /\ Removed(g, n) \in Graph
           /\ Removed(g, n).live = g.live \ {n}
           /\ \A p, m \in Node : <<p, m>> \in Removed(g, n).edges <=>
                                   <<p, m>> \in g.edges /\ p # n /\ m # n
           /\ Removed(g, n).type = g.type
BY DEF Removed, Graph

(***************************************************************************)
(* What a call that commits p and d leaves in the two graphs.              *)
(***************************************************************************)
LEMMA CommitFields ==
    ASSUME TypeOK, NEW p \in Graph, NEW d \in Graph, Commit(p, d), threw' \in BOOLEAN
    PROVE  /\ TypeOK'
           /\ primary'.live = p.live
           /\ primary'.edges = p.edges
           /\ primary'.type = p.type
           /\ dependency'.live = d.live
<1>1. primary \in Graph /\ dependency \in Graph
  BY DEF TypeOK
<1>2. primary' = Committed(primary, p) /\ dependency' = Committed(dependency, d)
  BY DEF Commit
<1>3. primary' \in Graph /\ dependency' \in Graph
  BY <1>1, <1>2, CommittedFields
<1> QED
  BY <1>1, <1>2, <1>3, CommittedFields DEF TypeOK

(***************************************************************************)
(* prefixed_node_name keeps the names of clusters apart from the others.   *)
(***************************************************************************)
LEMMA NodeNames ==
    /\ Env \subseteq Node /\ Host \subseteq Node /\ Cluster \subseteq Node
    /\ \A n \in Cluster : n \notin Env /\ n \notin Host /\ n[1] \in Env
BY WriteAssumption DEF Node

(***************************************************************************)
(* Creating a node that does not exist disturbs no edge, since none ends   *)
(* in it: create_env and add_host, also when the second transaction throws.*)
(***************************************************************************)
LEMMA CreateKeepsInv ==
    ASSUME Inv, NEW n \in Node, NEW t \in Type, n \notin primary.live,
           Commit(Created(primary, n, t), Created(dependency, n, t)),
           threw' \in BOOLEAN
    PROVE  Inv'
<1>1. primary \in Graph /\ dependency \in Graph
  BY DEF Inv, TypeOK
<1> DEFINE p == Created(primary, n, t)
           d == Created(dependency, n, t)
<1>2. /\ p \in Graph /\ d \in Graph
      /\ p.live = primary.live \cup {n}
      /\ p.edges = primary.edges
      /\ \A m \in Node : m # n => p.type[m] = primary.type[m]
      /\ d.live = dependency.live \cup {n}
  BY <1>1, CreatedFields
<1>3. /\ TypeOK'
      /\ primary'.live = p.live
      /\ primary'.edges = p.edges
      /\ primary'.type = p.type
      /\ dependency'.live = d.live
  <2> HIDE DEF p, d
  <2> Commit(p, d)
    BY DEF p, d
  <2> QED
    BY <1>2, CommitFields DEF Inv
<1> HIDE DEF p, d
<1>4. WellFormed'
  BY <1>2, <1>3 DEF Inv, WellFormed
<1>5. OneEnvironment'
  BY <1>2, <1>3 DEF Inv, OneEnvironment
<1>6. DependencyCovers'
  BY <1>2, <1>3 DEF Inv, DependencyCovers
<1> QED
  BY <1>3, <1>4, <1>5, <1>6 DEF Inv

(***************************************************************************)
(* Removing a node takes its edges along: remove_env, remove_cluster and   *)
(* remove_host, whatever becomes of it in the dependency graph.            *)
(***************************************************************************)
LEMMA RemoveKeepsInv ==
    ASSUME Inv, NEW n \in Node,
           NEW d \in Graph, dependency.live \ {n} \subseteq d.live,
           Commit(Removed(primary, n), d),
           threw' \in BOOLEAN
    PROVE  Inv'
<1>1. primary \in Graph
  BY DEF Inv, TypeOK
<1> DEFINE p == Removed(primary, n)
<1>2. /\ p \in Graph
      /\ p.live = primary.live \ {n}
      /\ \A q, m \in Node : <<q, m>> \in p.edges <=>
                              <<q, m>> \in primary.edges /\ q # n /\ m # n
      /\ p.type = primary.type
  BY <1>1, RemovedFields
<1>3. /\ TypeOK'
      /\ primary'.live = p.live
      /\ primary'.edges = p.edges
      /\ primary'.type = p.type
      /\ dependency'.live = d.live
  <2> HIDE DEF p
  <2> Commit(p, d)
    BY DEF p
  <2> QED
    BY <1>2, CommitFields DEF Inv
<1> HIDE DEF p
<1>4. WellFormed'
  BY <1>2, <1>3 DEF Inv, WellFormed
<1>5. OneEnvironment'
  BY <1>2, <1>3, NodeNames DEF Inv, OneEnvironment
<1>6. DependencyCovers'
  BY <1>2, <1>3 DEF Inv, DependencyCovers
<1> QED
  BY <1>3, <1>4, <1>5, <1>6 DEF Inv

(***************************************************************************)
(* Taking an edge away keeps the rest: the calls that remove a cluster or  *)
(* a host from what holds it.                                              *)
(***************************************************************************)
LEMMA UnlinkKeepsInv ==
    ASSUME Inv, NEW q \in Node, NEW n \in Node,
           Commit(Unlinked(primary, q, n), dependency),
           threw' \in BOOLEAN
    PROVE  Inv'
<1>1. primary \in Graph /\ dependency \in Graph
  BY DEF Inv, TypeOK
<1> DEFINE p == Unlinked(primary, q, n)
<1>2. /\ p \in Graph
      /\ p.live = primary.live
      /\ p.edges = primary.edges \ {<<q, n>>}
      /\ p.type = primary.type
  BY <1>1, UnlinkedFields
<1>3. /\ TypeOK'
      /\ primary'.live = p.live
      /\ primary'.edges = p.edges
      /\ primary'.type = p.type
      /\ dependency'.live = dependency.live
  <2> HIDE DEF p
  <2> Commit(p, dependency)
    BY DEF p
  <2> QED
    BY <1>1, <1>2, CommitFields DEF Inv
<1> HIDE DEF p
<1>4. WellFormed'
  BY <1>2, <1>3 DEF Inv, WellFormed
<1>5. OneEnvironment'
  BY <1>2, <1>3 DEF Inv, OneEnvironment
<1>6. DependencyCovers'
  BY <1>2, <1>3 DEF Inv, DependencyCovers
<1> QED
  BY <1>3, <1>4, <1>5, <1>6 DEF Inv

(***************************************************************************)
(* A call on the dependency graph alone: add_dependency and                *)
(* remove_dependency.                                                      *)
(***************************************************************************)
LEMMA DependencyKeepsInv ==
    ASSUME Inv, NEW d \in Graph, d.live = dependency.live, Commit(primary, d),
           threw' \in BOOLEAN
    PROVE  Inv'
<1>1. primary \in Graph
  BY DEF Inv, TypeOK
<1>2. /\ TypeOK'
      /\ primary'.live = primary.live
      /\ primary'.edges = primary.edges
      /\ primary'.type = primary.type
      /\ dependency'.live = dependency.live
  BY <1>1, CommitFields DEF Inv
<1> QED
  BY <1>2 DEF Inv, WellFormed, OneEnvironment, DependencyCovers

(***************************************************************************)
(* What the calls that add a member to q leave: the member exists with the *)
(* type t, and the edges have one more.                                    *)
(***************************************************************************)
LEMMA AddMember ==
    ASSUME Inv, NEW q \in Node, NEW n \in Node, NEW t \in Type,
           n \in primary.live => primary.type[n] = t,
           q \in primary.live,
           Commit(Linked(Created(primary, n, t), q, n), Created(dependency, n, t)),
           threw' \in BOOLEAN
    PROVE  /\ TypeOK'
           /\ DependencyCovers'
           /\ primary'.live = primary.live \cup {n}
           /\ primary'.edges = primary.edges \cup {<<q, n>>}
           /\ \A m \in Node : m # n => primary'.type[m] = primary.type[m]
           /\ \A m \in primary.live : primary'.type[m] = primary.type[m]
           /\ primary'.type[n] = t
<1>1. primary \in Graph /\ dependency \in Graph
  BY DEF Inv, TypeOK
<1> DEFINE c == Created(primary, n, t)
           p == Linked(c, q, n)
           d == Created(dependency, n, t)
<1>2. /\ c \in Graph /\ d \in Graph
      /\ c.live = primary.live \cup {n}
      /\ c.edges = primary.edges
      /\ \A m \in Node : m # n \/ n \in primary.live => c.type[m] = primary.type[m]
      /\ n \notin primary.live => c.type[n] = t
      /\ d.live = dependency.live \cup {n}
  BY <1>1, CreatedFields
<1>3. /\ p \in Graph
      /\ p.live = c.live
      /\ p.edges = c.edges \cup {<<q, n>>}
      /\ p.type = c.type
  <2> HIDE DEF c
  <2> QED
    BY <1>2, LinkedFields
<1>4. /\ TypeOK'
      /\ primary'.live = p.live
      /\ primary'.edges = p.edges
      /\ primary'.type = p.type
      /\ dependency'.live = d.live
  <2> Commit(p, d)
    OBVIOUS
  <2> HIDE DEF p, d
  <2> QED
    BY <1>2, <1>3, CommitFields DEF Inv
<1> HIDE DEF c, p, d
<1>5. DependencyCovers'
  BY <1>2, <1>3, <1>4 DEF Inv, DependencyCovers
<1>6. primary.live \subseteq Node
  BY <1>1 DEF Graph
<1> QED
  BY <1>2, <1>3, <1>4, <1>5, <1>6

(***************************************************************************)
(* A cluster is added to its environment or to a cluster of it.            *)
(***************************************************************************)
LEMMA AddClusterKeepsInv ==
    ASSUME Inv, NEW q \in Node, NEW n \in Cluster,
           \/ Is(primary, q, "ENVIRONMENT") /\ n[1] = q
           \/ Is(primary, q, "CLUSTER") /\ q \in Cluster /\ n[1] = q[1] /\ n # q,
           n \in primary.live => Is(primary, n, "CLUSTER"),
           Commit(Linked(Created(primary, n, "CLUSTER"), q, n),
                  Created(dependency, n, "CLUSTER")),
           threw' \in BOOLEAN
    PROVE  Inv'
<1>1. n \in Node /\ "CLUSTER" \in Type
  BY NodeNames DEF Type
<1>2. /\ TypeOK'
      /\ DependencyCovers'
      /\ primary'.live = primary.live \cup {n}
      /\ primary'.edges = primary.edges \cup {<<q, n>>}
      /\ \A m \in primary.live : primary'.type[m] = primary.type[m]
      /\ primary'.type[n] = "CLUSTER"
  BY <1>1, AddMember DEF Is
<1>3. WellFormed'
  BY <1>1, <1>2 DEF Inv, WellFormed, Is
<1>4. OneEnvironment'
  BY <1>2, NodeNames DEF Inv, OneEnvironment
<1> QED
  BY <1>2, <1>3, <1>4 DEF Inv

(***************************************************************************)
(* A host is added to a cluster.  WellFormed makes the holders that        *)
(* NotElsewhere looks at all the holders there are.                        *)
(***************************************************************************)
LEMMA AddHostKeepsInv ==
    ASSUME Inv, NEW q \in Cluster, NEW n \in Host, AddHostToCluster(q, n)
    PROVE  Inv'
<1>1. n \in Node /\ q \in Node /\ n # q /\ n \notin Cluster /\ "HOST" \in Type
  BY NodeNames DEF Type
<1>2. /\ TypeOK'
      /\ DependencyCovers'
      /\ primary'.live = primary.live \cup {n}
      /\ primary'.edges = primary.edges \cup {<<q, n>>}
      /\ \A m \in primary.live : primary'.type[m] = primary.type[m]
      /\ primary'.type[n] = "HOST"
  BY <1>1, AddMember DEF AddHostToCluster, Is
<1>3. WellFormed'
  BY <1>1, <1>2 DEF Inv, WellFormed, AddHostToCluster, Is
<1>4. \A r \in Cluster : <<r, n>> \in primary.edges => r[1] = q[1]
  <2> SUFFICES ASSUME NEW r \in Cluster, <<r, n>> \in primary.edges
               PROVE  r[1] = q[1]
    OBVIOUS
  <2>1. primary.type[r] = "CLUSTER"
    BY <1>1, NodeNames DEF Inv, WellFormed
  <2> QED
    BY <2>1 DEF AddHostToCluster, NotElsewhere
<1>5. OneEnvironment'
  BY <1>2, <1>4 DEF Inv, OneEnvironment
<1> QED
  BY <1>2, <1>3, <1>5 DEF Inv

(***************************************************************************)
(* The invariant is inductive, call by call.                               *)
(***************************************************************************)
LEMMA NextKeepsInv == Inv /\ [Next]_vars => Inv'
<1> SUFFICES ASSUME Inv, [Next]_vars PROVE Inv'
  OBVIOUS
<1> USE NodeNames
<1>a. primary \in Graph /\ dependency \in Graph
  BY DEF Inv, TypeOK
<1>b. {"ENVIRONMENT", "HOST", "CLUSTER"} \subseteq Type
  BY DEF Type
<1>1. ASSUME NEW e \in Env, CreateEnv(e) PROVE Inv'
  BY <1>b, <1>1, CreateKeepsInv DEF CreateEnv
<1>2. ASSUME NEW e \in Env, RemoveEnv(e) PROVE Inv'
  <2> DEFINE d == IF threw' THEN dependency ELSE Removed(dependency, e)
  <2>1. d \in Graph /\ dependency.live \ {e} \subseteq d.live
    BY <1>a, RemovedFields
  <2>2. Commit(Removed(primary, e), d) /\ threw' \in BOOLEAN
    BY <1>2 DEF RemoveEnv, Is
  <2> HIDE DEF d
  <2> QED
    BY <2>1, <2>2, RemoveKeepsInv
<1>3. ASSUME NEW h \in Host, AddHost(h) PROVE Inv'
  BY <1>b, <1>3, CreateKeepsInv DEF AddHost
<1>4. ASSUME NEW n \in Cluster, RemoveCluster(n) PROVE Inv'
  BY <1>a, <1>4, RemoveKeepsInv DEF RemoveCluster
<1>5. ASSUME NEW e \in Env, NEW n \in Cluster, AddClusterToEnv(e, n) PROVE Inv'
  BY <1>5, AddClusterKeepsInv DEF AddClusterToEnv
<1>6. ASSUME NEW e \in Env, NEW n \in Cluster, RemoveClusterFromEnv(e, n) PROVE Inv'
  BY <1>6, UnlinkKeepsInv DEF RemoveClusterFromEnv
<1>7. ASSUME NEW e \in Env, NEW n \in Node, RemoveHost(e, n) PROVE Inv'
  BY <1>a, <1>7, RemoveKeepsInv DEF RemoveHost
<1>8. ASSUME NEW p \in Cluster, NEW n \in Cluster, AddClusterToCluster(p, n) PROVE Inv'
  BY <1>8, AddClusterKeepsInv DEF AddClusterToCluster
<1>9. ASSUME NEW p \in Cluster, NEW n \in Cluster, RemoveClusterFromCluster(p, n) PROVE Inv'
  BY <1>9, UnlinkKeepsInv DEF RemoveClusterFromCluster
<1>10. ASSUME NEW p \in Cluster, NEW h \in Host, AddHostToCluster(p, h) PROVE Inv'
  BY <1>10, AddHostKeepsInv
<1>11. ASSUME NEW p \in Cluster, NEW h \in Host, RemoveHostFromCluster(p, h) PROVE Inv'
  BY <1>11, UnlinkKeepsInv DEF RemoveHostFromCluster
<1>12. ASSUME NEW n \in Node, NEW m \in Node, AddDependency(n, m) PROVE Inv'
  <2> DEFINE d == Linked(dependency, n, m)
  <2>1. d \in Graph /\ d.live = dependency.live
    BY <1>a, LinkedFields
  <2>2. Commit(primary, d) /\ threw' \in BOOLEAN
    BY <1>12 DEF AddDependency
  <2> HIDE DEF d
  <2> QED
    BY <2>1, <2>2, DependencyKeepsInv
<1>13. ASSUME NEW n \in Node, NEW m \in Node, RemoveDependency(n, m) PROVE Inv'
  <2> DEFINE d == Unlinked(dependency, n, m)
  <2>1. d \in Graph /\ d.live = dependency.live
    BY <1>a, UnlinkedFields
  <2>2. Commit(primary, d) /\ threw' \in BOOLEAN
    BY <1>13 DEF RemoveDependency
  <2> HIDE DEF d
  <2> QED
    BY <2>1, <2>2, DependencyKeepsInv
<1>14. CASE UNCHANGED vars
  BY <1>14 DEF vars, Inv, TypeOK, WellFormed, OneEnvironment, DependencyCovers
<1> QED
  BY <1>1, <1>2, <1>3, <1>4, <1>5, <1>6, <1>7, <1>8, <1>9, <1>10, <1>11, <1>12,
     <1>13, <1>14 DEF Next

(***************************************************************************)
(* The two graphs are empty at first.                                      *)
(***************************************************************************)
LEMMA InitInv == Init => Inv
<1> SUFFICES ASSUME Init PROVE Inv
  OBVIOUS
<1>1. /\ primary \in Graph
      /\ dependency = primary
      /\ threw \in BOOLEAN
      /\ primary.edges = {}
  BY DEF Init, Graph, Type
<1> QED
  BY <1>1 DEF Inv, TypeOK, WellFormed, OneEnvironment, DependencyCovers

(***************************************************************************)
(* Whatever sequence of calls the learner makes, and although calls fail   *)
(* half way: the primary graph is well formed, a host is in the clusters   *)
(* of one environment only, and what exists in the primary graph exists in *)
(* the dependency graph.                                                   *)
(***************************************************************************)
THEOREM Invariance == Spec => []Inv
BY InitInv, NextKeepsInv, PTL DEF Spec

(***************************************************************************)
(* The calls of write_api.cpp check types one by one; together they keep   *)
(* the graph well formed.                                                  *)
(***************************************************************************)
THEOREM GraphIsWellFormed == Spec => []WellFormed
BY Invariance, PTL DEF Inv

(***************************************************************************)
(* add_host_to_cluster's test keeps each host in one environment.          *)
(***************************************************************************)
THEOREM HostHasOneEnvironment == Spec => []OneEnvironment
BY Invariance, PTL DEF Inv

(***************************************************************************)
(* add_dependency finds every node of the primary graph.                   *)
(***************************************************************************)
THEOREM DependencyGraphCovers == Spec => []DependencyCovers
BY Invariance, PTL DEF Inv
-----------------------------------------------------------------------------
(* Each call is at most one operation of PropertyGraph on each graph. *)

\* What one operation makes of graph g, with what PropertyGraph keeps of it.
OneStep(g, h) ==
    \/ h = g
    \/ /\ h.version = g.version + 1
       /\ \E n \in Node :
             \/ /\ n \notin g.live
                /\ h.live = g.live \cup {n} /\ h.edges = g.edges
             \/ /\ n \in g.live
                /\ h.live = g.live \ {n}
                /\ h.edges = {e \in g.edges : n \notin {e[1], e[2]}}
             \/ \E p \in Node :
                   \/ /\ p \in g.live /\ p # n /\ <<p, n>> \notin g.edges
                      /\ h.live = g.live \cup {n}
                      /\ h.edges = g.edges \cup {<<p, n>>}
                   \/ /\ <<p, n>> \in g.edges
                      /\ h.live = g.live
                      /\ h.edges = g.edges \ {<<p, n>>}

\* A graph is its four fields.
LEMMA SameGraph ==
    ASSUME NEW g \in Graph, NEW h \in Graph, g.live = h.live, g.edges = h.edges,
           g.type = h.type, g.version = h.version
    PROVE  g = h
BY DEF Graph

\* The version counts the transactions that changed something.
LEMMA CommittedVersion ==
    ASSUME NEW old \in Graph, NEW g \in Graph
    PROVE  /\ g = old => Committed(old, g) = old
           /\ g # old => Committed(old, g).version = old.version + 1
<1>1. ASSUME g = old PROVE Committed(old, g) = old
  <2>1. /\ Committed(old, old) \in Graph
        /\ Committed(old, old).live = old.live
        /\ Committed(old, old).edges = old.edges
        /\ Committed(old, old).type = old.type
    BY CommittedFields
  <2>2. Committed(old, old).version = old.version
    BY DEF Committed, Graph
  <2> QED
    BY <1>1, <2>1, <2>2, SameGraph
<1>2. ASSUME g # old PROVE Committed(old, g).version = old.version + 1
  BY <1>2 DEF Committed
<1> QED
  BY <1>1, <1>2

LEMMA CreatedStep ==
    ASSUME NEW g \in Graph, NEW n \in Node, NEW t \in Type
    PROVE  /\ OneStep(g, Committed(g, Created(g, n, t)))
           /\ n \in g.live => Committed(g, Created(g, n, t)) = g
<1> DEFINE c == Created(g, n, t)
<1>1. /\ c \in Graph /\ c.live = g.live \cup {n} /\ c.edges = g.edges
      /\ \A m \in Node : m # n \/ n \in g.live => c.type[m] = g.type[m]
  BY CreatedFields
<1>2. c.version = g.version
  BY DEF Created
<1> HIDE DEF c
<1>3. ASSUME n \in g.live PROVE Committed(g, c) = g
  <2>1. c.type = g.type
    <3>1. c.type \in [Node -> Type] /\ g.type \in [Node -> Type]
      BY <1>1 DEF Graph
    <3>2. \A m \in Node : c.type[m] = g.type[m]
      BY <1>1, <1>3
    <3> QED
      BY <3>1, <3>2
  <2>2. c.live = g.live
    BY <1>1, <1>3
  <2>3. c = g
    BY <1>1, <1>2, <2>1, <2>2, SameGraph
  <2> QED
    BY <1>1, <2>3, CommittedVersion
<1>4. ASSUME n \notin g.live PROVE OneStep(g, Committed(g, c))
  <2>1. c # g
    BY <1>1, <1>4
  <2> QED
    BY <1>1, <1>4, <2>1, CommittedVersion, CommittedFields DEF OneStep
<1> QED
  BY <1>3, <1>4 DEF OneStep, c

LEMMA RemovedStep ==
    ASSUME NEW g \in Graph, NEW n \in Node, n \in g.live
    PROVE  OneStep(g, Committed(g, Removed(g, n)))
<1> DEFINE c == Removed(g, n)
<1>1. /\ c \in Graph /\ c.live = g.live \ {n}
      /\ c.edges = {e \in g.edges : n \notin {e[1], e[2]}}
  BY RemovedFields DEF Removed
<1> HIDE DEF c
<1>2. c # g
  BY <1>1
<1>3. OneStep(g, Committed(g, c))
  BY <1>1, <1>2, CommittedVersion, CommittedFields DEF OneStep
<1> QED
  BY <1>3 DEF c

LEMMA UnlinkedStep ==
    ASSUME NEW g \in Graph, NEW p \in Node, NEW n \in Node, <<p, n>> \in g.edges
    PROVE  OneStep(g, Committed(g, Unlinked(g, p, n)))
<1> DEFINE c == Unlinked(g, p, n)
<1>1. /\ c \in Graph /\ c.live = g.live
      /\ c.edges = g.edges \ {<<p, n>>}
  BY UnlinkedFields
<1> HIDE DEF c
<1>2. c # g
  BY <1>1
<1>3. OneStep(g, Committed(g, c))
  BY <1>1, <1>2, CommittedVersion, CommittedFields DEF OneStep
<1> QED
  BY <1>3 DEF c

LEMMA LinkedStep ==
    ASSUME NEW g \in Graph, NEW p \in Node, NEW n \in Node,
           p \in g.live, n \in g.live, p # n, <<p, n>> \notin g.edges
    PROVE  OneStep(g, Committed(g, Linked(g, p, n)))
<1> DEFINE c == Linked(g, p, n)
<1>1. /\ c \in Graph /\ c.live = g.live
      /\ c.edges = g.edges \cup {<<p, n>>}
  BY LinkedFields
<1> HIDE DEF c
<1>2. c # g
  BY <1>1
<1>3. c.live = g.live \cup {n}
  BY <1>1
<1>4. OneStep(g, Committed(g, c))
  BY <1>1, <1>2, <1>3, CommittedVersion, CommittedFields DEF OneStep
<1> QED
  BY <1>4 DEF c

\* A member is added: the edge is new, or all is as it was.
LEMMA MemberStep ==
    ASSUME NEW g \in Graph, NEW p \in Node, NEW n \in Node, NEW t \in Type,
           p \in g.live, p # n, <<p, n>> \in g.edges => n \in g.live
    PROVE  OneStep(g, Committed(g, Linked(Created(g, n, t), p, n)))
<1> DEFINE c == Created(g, n, t)
           l == Linked(c, p, n)
<1>1. /\ c \in Graph /\ c.live = g.live \cup {n} /\ c.edges = g.edges
      /\ \A m \in Node : m # n \/ n \in g.live => c.type[m] = g.type[m]
  BY CreatedFields
<1>2. c.version = g.version
  BY DEF Created
<1>3. l.version = c.version
  BY DEF Linked, WithEdges
<1> HIDE DEF c
<1>4. /\ l \in Graph /\ l.live = g.live \cup {n} /\ l.type = c.type
      /\ l.edges = g.edges \cup {<<p, n>>}
  BY <1>1, LinkedFields
<1> HIDE DEF l
<1>5. CASE <<p, n>> \in g.edges
  <2>1. l.type = g.type
    <3>1. l.type \in [Node -> Type] /\ g.type \in [Node -> Type]
      BY <1>4 DEF Graph
    <3>2. \A m \in Node : l.type[m] = g.type[m]
      BY <1>1, <1>4, <1>5
    <3> QED
      BY <3>1, <3>2
  <2>2. l.live = g.live /\ l.edges = g.edges
    BY <1>4, <1>5
  <2>3. l = g
    BY <1>2, <1>3, <1>4, <2>1, <2>2, SameGraph
  <2>4. OneStep(g, Committed(g, l))
    BY <2>3, CommittedVersion DEF OneStep
  <2> QED
    BY <2>4 DEF l, c
<1>6. CASE <<p, n>> \notin g.edges
  <2>1. l # g
    BY <1>4, <1>6
  <2>2. OneStep(g, Committed(g, l))
    BY <1>4, <1>6, <2>1, CommittedVersion, CommittedFields DEF OneStep
  <2> QED
    BY <2>2 DEF l, c
<1> QED
  BY <1>5, <1>6

LEMMA SameStep ==
    ASSUME NEW g \in Graph
    PROVE  OneStep(g, Committed(g, g))
BY CommittedVersion DEF OneStep

\* One call is one operation on each graph, or none.
LEMMA CallIsOneStep ==
    ASSUME Inv, Next
    PROVE  OneStep(primary, primary') /\ OneStep(dependency, dependency')
<1> USE NodeNames, SameStep
<1>a. primary \in Graph /\ dependency \in Graph
  BY DEF Inv, TypeOK
<1>b. {"ENVIRONMENT", "HOST", "CLUSTER"} \subseteq Type
  BY DEF Type
<1> DEFINE Goal == OneStep(primary, primary') /\ OneStep(dependency, dependency')
<1>1. ASSUME NEW e \in Env, CreateEnv(e) PROVE Goal
  BY <1>a, <1>b, <1>1, CreatedStep DEF CreateEnv, Commit
<1>2. ASSUME NEW e \in Env, RemoveEnv(e) PROVE Goal
  BY <1>a, <1>2, RemovedStep DEF RemoveEnv, Commit, Is
<1>3. ASSUME NEW h \in Host, AddHost(h) PROVE Goal
  BY <1>a, <1>b, <1>3, CreatedStep DEF AddHost, Commit
<1>4. ASSUME NEW n \in Cluster, RemoveCluster(n) PROVE Goal
  BY <1>a, <1>4, RemovedStep DEF RemoveCluster, Commit, Is
<1>5. ASSUME NEW e \in Env, NEW n \in Cluster, AddClusterToEnv(e, n) PROVE Goal
  <2>1. e # n /\ e \in primary.live /\ <<e, n>> \notin primary.edges
    BY <1>5 DEF AddClusterToEnv, Is
  <2> QED
    BY <1>a, <1>b, <1>5, <2>1, CreatedStep, MemberStep DEF AddClusterToEnv, Commit
<1>6. ASSUME NEW e \in Env, NEW n \in Cluster, RemoveClusterFromEnv(e, n) PROVE Goal
  BY <1>a, <1>6, UnlinkedStep DEF RemoveClusterFromEnv, Commit
<1>7. ASSUME NEW e \in Env, NEW n \in Node, RemoveHost(e, n) PROVE Goal
  BY <1>a, <1>7, RemovedStep DEF RemoveHost, Commit
<1>8. ASSUME NEW p \in Cluster, NEW n \in Cluster, AddClusterToCluster(p, n) PROVE Goal
  <2>1. p # n /\ p \in primary.live /\ (<<p, n>> \in primary.edges => n \in primary.live)
    BY <1>8 DEF AddClusterToCluster, Is, Inv, WellFormed
  <2> QED
    BY <1>a, <1>b, <1>8, <2>1, CreatedStep, MemberStep DEF AddClusterToCluster, Commit
<1>9. ASSUME NEW p \in Cluster, NEW n \in Cluster, RemoveClusterFromCluster(p, n) PROVE Goal
  BY <1>a, <1>9, UnlinkedStep DEF RemoveClusterFromCluster, Commit
<1>10. ASSUME NEW p \in Cluster, NEW h \in Host, AddHostToCluster(p, h) PROVE Goal
  <2>1. p # h /\ p \in primary.live /\ <<p, h>> \notin primary.edges
    BY <1>10 DEF AddHostToCluster, Is
  <2> QED
    BY <1>a, <1>b, <1>10, <2>1, CreatedStep, MemberStep DEF AddHostToCluster, Commit
<1>11. ASSUME NEW p \in Cluster, NEW h \in Host, RemoveHostFromCluster(p, h) PROVE Goal
  BY <1>a, <1>11, UnlinkedStep DEF RemoveHostFromCluster, Commit
<1>12. ASSUME NEW n \in Node, NEW m \in Node, AddDependency(n, m) PROVE Goal
  BY <1>a, <1>12, LinkedStep DEF AddDependency, Commit
<1>13. ASSUME NEW n \in Node, NEW m \in Node, RemoveDependency(n, m) PROVE Goal
  BY <1>a, <1>13, UnlinkedStep DEF RemoveDependency, Commit
<1> QED
  BY <1>1, <1>2, <1>3, <1>4, <1>5, <1>6, <1>7, <1>8, <1>9, <1>10, <1>11, <1>12,
     <1>13 DEF Next

(***************************************************************************)
(* The write API changes each of its graphs by operations of PropertyGraph *)
(* only, one at a time, although a call works on both graphs, and a call   *)
(* that throws half way too.                                               *)
(***************************************************************************)
THEOREM GraphsAreImplemented == Spec => ImplementsGraphs
<1>1. Init => P!GraphInit /\ D!GraphInit
  BY DEF Init, P!GraphInit, D!GraphInit
<1>2. ASSUME OneStep(primary, primary') PROVE [P!GraphNext]_(P!graphVars)
  BY <1>2 DEF OneStep, P!GraphNext, P!graphVars, P!CreateNode, P!Delete, P!Link, P!Unlink
<1>3. ASSUME OneStep(dependency, dependency') PROVE [D!GraphNext]_(D!graphVars)
  BY <1>3 DEF OneStep, D!GraphNext, D!graphVars, D!CreateNode, D!Delete, D!Link, D!Unlink
<1>4. Inv /\ [Next]_vars => [P!GraphNext]_(P!graphVars) /\ [D!GraphNext]_(D!graphVars)
  <2> SUFFICES ASSUME Inv, [Next]_vars
               PROVE  [P!GraphNext]_(P!graphVars) /\ [D!GraphNext]_(D!graphVars)
    OBVIOUS
  <2>1. OneStep(primary, primary') /\ OneStep(dependency, dependency')
    BY CallIsOneStep DEF vars, OneStep
  <2> QED
    BY <1>2, <1>3, <2>1
<1> QED
  BY Invariance, <1>1, <1>4, PTL DEF Spec, ImplementsGraphs, P!GraphSpec, D!GraphSpec

(***************************************************************************)
(* A call that throws leaves the dependency graph alone and has done its   *)
(* half on the primary graph (create_env, remove_env and add_host).        *)
(***************************************************************************)
THEOREM ThrowsAreHalfDone == Spec => ThrewIsHalfDone
<1> DEFINE HalfDone ==
        threw' =>
          /\ dependency' = dependency
          /\ \E n \in Plain :
                \/ /\ n \in dependency.live \ primary.live
                   /\ primary'.live = primary.live \cup {n}
                \/ /\ n \in primary.live
                   /\ dependency.type[n] # primary.type[n]
                   /\ primary'.live = primary.live \ {n}
<1>1. ASSUME Inv, NEW n \in Plain, NEW t \in Type, n \notin primary.live,
             threw' = (n \in dependency.live),
             Commit(Created(primary, n, t), Created(dependency, n, t))
      PROVE  HalfDone
  <2>1. primary \in Graph /\ dependency \in Graph /\ n \in Node
    BY <1>1 DEF Inv, TypeOK, Node
  <2>2. primary'.live = primary.live \cup {n}
    BY <1>1, <2>1, CreatedFields, CommittedFields DEF Commit
  <2>3. n \in dependency.live => dependency' = dependency
    BY <1>1, <2>1, CreatedStep DEF Commit
  <2> QED
    BY <1>1, <2>2, <2>3
<1>2. ASSUME Inv, NEW e \in Env, RemoveEnv(e)
      PROVE  HalfDone
  <2> SUFFICES ASSUME threw' PROVE HalfDone
    OBVIOUS
  <2>1. primary \in Graph /\ dependency \in Graph /\ e \in Node /\ e \in Plain
    BY <1>2, NodeNames, WriteAssumption DEF Inv, TypeOK
  <2>2. primary'.live = primary.live \ {e}
    BY <1>2, <2>1, RemovedFields, CommittedFields DEF RemoveEnv, Commit
  <2>3. dependency' = dependency
    BY <1>2, <2>1, CommittedVersion DEF RemoveEnv, Commit
  <2>4. e \in primary.live /\ dependency.type[e] # primary.type[e]
    BY <1>2 DEF RemoveEnv, Is, Inv, DependencyCovers
  <2> QED
    BY <2>1, <2>2, <2>3, <2>4
<1>3. Inv /\ [Next]_vars => [HalfDone]_vars
  <2> SUFFICES ASSUME Inv, Next PROVE HalfDone
    OBVIOUS
  <2>1. {"ENVIRONMENT", "HOST"} \subseteq Type
    BY DEF Type
  <2>2. ASSUME NEW e \in Env, CreateEnv(e) PROVE HalfDone
    BY <1>1, <2>1, <2>2, WriteAssumption DEF CreateEnv
  <2>3. ASSUME NEW h \in Host, AddHost(h) PROVE HalfDone
    BY <1>1, <2>1, <2>3, WriteAssumption DEF AddHost
  <2> HIDE DEF HalfDone
  <2>4. threw' => \/ \E e \in Env : CreateEnv(e) \/ RemoveEnv(e)
                  \/ \E h \in Host : AddHost(h)
    BY DEF Next, RemoveCluster, AddClusterToEnv, RemoveClusterFromEnv, RemoveHost,
           AddClusterToCluster, RemoveClusterFromCluster, AddHostToCluster,
           RemoveHostFromCluster, AddDependency, RemoveDependency
  <2> QED
    BY <1>2, <2>2, <2>3, <2>4 DEF HalfDone
<1> QED
  BY Invariance, <1>3, PTL DEF Spec, ThrewIsHalfDone

-----------------------------------------------------------------------------
(* What is reached over the edges of a graph *)

\* A set of numbers has a least one.
LEMMA Least ==
    ASSUME NEW S, S \subseteq Nat, S # {}
    PROVE  \E m \in S : \A k \in S : m <= k
<1>1. PICK m \in S : \A k \in S : <<k, m>> \notin OpToRel(<, Nat)
  BY NatLessThanWellFounded, WFMin
<1>2. \A k \in S : ~ (k < m)
  BY <1>1 DEF OpToRel
<1> QED
  BY <1>2

\* Counting from 0 to N stays in S.
LEMMA UpTo ==
    ASSUME NEW N \in Nat, NEW S, 0 \in S, \A k \in 0..(N - 1) : k \in S => k + 1 \in S
    PROVE  \A k \in 0..N : k \in S
<1> DEFINE Bad == {k \in 0..N : k \notin S}
<1>1. Bad \subseteq Nat
  OBVIOUS
<1>2. ASSUME Bad # {} PROVE FALSE
  <2>1. PICK m \in Bad : \A k \in Bad : m <= k
    <3> HIDE DEF Bad
    <3> QED
      BY <1>1, <1>2, Least
  <2>2. m # 0 /\ m - 1 \in 0..(N - 1)
    OBVIOUS
  <2>3. m - 1 \notin Bad
    BY <2>1, <2>2
  <2> QED
    BY <2>2, <2>3
<1> QED
  BY <1>2

\* The nodes of T and those one edge away.
Around(E, T) == T \cup {e[2] : e \in {e \in E : e[1] \in T}}

\* f is the function that Near defines, up to k.
NearBy(f, E, S, k) == f = [i \in 0..k |-> IF i = 0 THEN S ELSE Around(E, f[i - 1])]

\* There is such a function.
LEMMA NearRuns ==
    ASSUME NEW E, NEW S, NEW k \in Nat
    PROVE  \E f : NearBy(f, E, S, k)
<1> DEFINE Good == {i \in 0..k : \E f : NearBy(f, E, S, i)}
<1>1. 0 \in Good
  <2> DEFINE f == [i \in 0..0 |-> S]
  <2>1. NearBy(f, E, S, 0)
    BY DEF NearBy
  <2> QED
    BY <2>1
<1>2. ASSUME NEW i \in 0..(k - 1), i \in Good PROVE i + 1 \in Good
  <2>1. PICK f : NearBy(f, E, S, i)
    BY <1>2
  <2> DEFINE h == [j \in 0..(i + 1) |-> IF j = 0 THEN S ELSE Around(E, f[j - 1])]
  <2>2. \A j \in 0..i : f[j] = IF j = 0 THEN S ELSE Around(E, f[j - 1])
    BY <2>1, Zenon DEF NearBy
  <2>3. \A j \in 0..i : h[j] = f[j]
    <3> TAKE j \in 0..i
    <3>1. j \in 0..(i + 1)
      OBVIOUS
    <3>2. h[j] = IF j = 0 THEN S ELSE Around(E, f[j - 1])
      BY <3>1
    <3> QED
      BY <2>2, <3>2
  <2>4. \A j \in 0..(i + 1) : j # 0 => h[j - 1] = f[j - 1]
    <3> HIDE DEF h
    <3> QED
      BY <2>3
  <2>5. h = [j \in 0..(i + 1) |-> IF j = 0 THEN S ELSE Around(E, h[j - 1])]
    <3> DEFINE g == [j \in 0..(i + 1) |-> IF j = 0 THEN S ELSE Around(E, h[j - 1])]
    <3>1. ASSUME NEW j \in 0..(i + 1) PROVE g[j] = h[j]
      <4>1. h[j] = IF j = 0 THEN S ELSE Around(E, f[j - 1])
        OBVIOUS
      <4>2. g[j] = IF j = 0 THEN S ELSE Around(E, h[j - 1])
        <5> HIDE DEF h
        <5> QED
          OBVIOUS
      <4>3. j # 0 => h[j - 1] = f[j - 1]
        BY <2>4
      <4> HIDE DEF g, h
      <4> QED
        BY <4>1, <4>2, <4>3
    <3> QED
      BY <3>1
  <2>6. NearBy(h, E, S, i + 1)
    BY <2>5 DEF NearBy
  <2> HIDE DEF h
  <2> QED
    BY <2>6
<1> HIDE DEF Good
<1>3. \A i \in 0..k : i \in Good
  BY <1>1, <1>2, UpTo
<1> QED
  BY <1>3 DEF Good

\* Near is the last value of one.
LEMMA NearIs ==
    ASSUME NEW E, NEW S, NEW k \in Nat
    PROVE  \E f : NearBy(f, E, S, k) /\ Near(E, S, k) = f[k]
<1> DEFINE f == CHOOSE f : NearBy(f, E, S, k)
<1>1. NearBy(f, E, S, k)
  BY NearRuns
<1>2. Near(E, S, k) = f[k]
  BY DEF Near, NearBy, Around
<1> QED
  BY <1>1, <1>2

\* The functions that Near defines agree as far as they go.
LEMMA NearAgree ==
    ASSUME NEW E, NEW S, NEW k \in Nat, NEW l \in Nat, k <= l,
           NEW f, NearBy(f, E, S, k), NEW h, NearBy(h, E, S, l)
    PROVE  \A i \in 0..k : f[i] = h[i]
<1>1. \A i \in 0..k : f[i] = IF i = 0 THEN S ELSE Around(E, f[i - 1])
  BY Zenon DEF NearBy
<1>2. \A i \in 0..l : h[i] = IF i = 0 THEN S ELSE Around(E, h[i - 1])
  BY Zenon DEF NearBy
<1> DEFINE Good == {i \in 0..k : f[i] = h[i]}
<1>3. 0 \in Good
  <2>1. 0 \in 0..k /\ 0 \in 0..l
    OBVIOUS
  <2> QED
    BY <1>1, <1>2, <2>1, Zenon
<1>4. ASSUME NEW i \in 0..(k - 1), i \in Good PROVE i + 1 \in Good
  <2>1. i + 1 \in 0..k /\ i + 1 \in 0..l /\ i + 1 # 0 /\ (i + 1) - 1 = i
    OBVIOUS
  <2>2. f[i + 1] = Around(E, f[i])
    BY <1>1, <2>1
  <2>3. h[i + 1] = Around(E, h[i])
    BY <1>2, <2>1
  <2> QED
    BY <1>4, <2>1, <2>2, <2>3
<1> HIDE DEF Good
<1>5. \A i \in 0..k : i \in Good
  BY <1>3, <1>4, UpTo
<1> QED
  BY <1>5 DEF Good

\* One layer after the other.
LEMMA NearNext ==
    ASSUME NEW E, NEW S
    PROVE  /\ Near(E, S, 0) = S
           /\ \A k \in Nat : Near(E, S, k + 1) = Around(E, Near(E, S, k))
<1>1. Near(E, S, 0) = S
  <2>1. PICK f : NearBy(f, E, S, 0) /\ Near(E, S, 0) = f[0]
    BY NearIs
  <2>2. 0 \in 0..0
    OBVIOUS
  <2>3. \A i \in 0..0 : f[i] = IF i = 0 THEN S ELSE Around(E, f[i - 1])
    BY <2>1, Zenon DEF NearBy
  <2>4. f[0] = S
    BY <2>2, <2>3, Zenon
  <2> QED
    BY <2>1, <2>4
<1>2. ASSUME NEW k \in Nat PROVE Near(E, S, k + 1) = Around(E, Near(E, S, k))
  <2> DEFINE l == k + 1
  <2>1. l \in Nat /\ k <= l /\ k \in 0..k /\ l \in 0..l /\ l # 0 /\ l - 1 = k
    OBVIOUS
  <2> HIDE DEF l
  <2>2. PICK f : NearBy(f, E, S, k) /\ Near(E, S, k) = f[k]
    BY NearIs
  <2>3. PICK h : NearBy(h, E, S, l) /\ Near(E, S, l) = h[l]
    BY <2>1, NearIs
  <2>4. f[k] = h[k]
    BY <2>1, <2>2, <2>3, NearAgree
  <2>5. \A i \in 0..l : h[i] = IF i = 0 THEN S ELSE Around(E, h[i - 1])
    BY <2>3, Zenon DEF NearBy
  <2>6. h[l] = Around(E, h[k])
    BY <2>1, <2>5
  <2>7. Near(E, S, l) = Around(E, Near(E, S, k))
    BY <2>2, <2>3, <2>4, <2>6
  <2> QED
    BY <2>7 DEF l
<1> QED
  BY <1>1, <1>2

\* A layer holds those before it.
LEMMA NearGrows ==
    ASSUME NEW E, NEW S, NEW j \in Nat, NEW k \in Nat, j <= k
    PROVE  Near(E, S, j) \subseteq Near(E, S, k)
<1> DEFINE d == k - j
           Good == {i \in 0..d : Near(E, S, j) \subseteq Near(E, S, j + i)}
<1>1. d \in Nat /\ j + d = k /\ j + 0 = j
  OBVIOUS
<1> HIDE DEF d
<1>2. 0 \in Good
  BY <1>1
<1>3. ASSUME NEW i \in 0..(d - 1), i \in Good PROVE i + 1 \in Good
  <2>1. i + 1 \in 0..d /\ j + i \in Nat /\ j + (i + 1) = (j + i) + 1
    BY <1>1
  <2>2. Near(E, S, (j + i) + 1) = Around(E, Near(E, S, j + i))
    BY <2>1, NearNext
  <2>3. Near(E, S, j + i) \subseteq Around(E, Near(E, S, j + i))
    BY DEF Around
  <2>4. Near(E, S, j) \subseteq Near(E, S, j + (i + 1))
    BY <1>3, <2>1, <2>2, <2>3
  <2> QED
    BY <2>1, <2>4
<1> HIDE DEF Good
<1>4. \A i \in 0..d : i \in Good
  BY <1>1, <1>2, <1>3, UpTo
<1>5. d \in Good
  BY <1>1, <1>4
<1> QED
  BY <1>1, <1>5 DEF Good

\* What is reached from S is in every set that holds S and what the edges lead
\* to from it.
LEMMA ReachedWithin ==
    ASSUME NEW E, NEW S, NEW C, S \subseteq C, \A e \in E : e[1] \in C => e[2] \in C
    PROVE  Reached(E, S) \subseteq C
<1> DEFINE k == Cardinality(Node)
<1>1. k \in Nat
  BY LookupAssumption, FS_CardinalityType
<1> HIDE DEF k
<1>2. PICK f : NearBy(f, E, S, k) /\ Near(E, S, k) = f[k]
  BY <1>1, NearIs
<1>3. \A i \in 0..k : f[i] = IF i = 0 THEN S ELSE Around(E, f[i - 1])
  BY <1>2, Zenon DEF NearBy
<1> DEFINE In == {i \in 0..k : f[i] \subseteq C}
<1>4. 0 \in In
  BY <1>1, <1>3
<1>5. ASSUME NEW i \in 0..(k - 1), i \in In PROVE i + 1 \in In
  <2>1. i + 1 \in 0..k /\ i + 1 # 0 /\ (i + 1) - 1 = i
    BY <1>1
  <2>2. f[i + 1] = Around(E, f[i])
    BY <1>3, <2>1
  <2>3. Around(E, f[i]) \subseteq C
    BY <1>5 DEF Around
  <2> QED
    BY <2>1, <2>2, <2>3
<1> HIDE DEF In
<1>6. \A i \in 0..k : i \in In
  BY <1>1, <1>4, <1>5, UpTo
<1>7. f[k] \subseteq C
  BY <1>1, <1>6 DEF In
<1> QED
  BY <1>2, <1>7 DEF Reached, k

\* A set that every edge stays in.
Shut(E, T) == \A e \in E : e[1] \in T => e[2] \in T

\* What is reached from S holds S, and every edge from it leads into it: after as
\* many rounds as there are nodes none has been added.
LEMMA ReachedIsShut ==
    ASSUME NEW E, E \subseteq Node \X Node, NEW S, S \subseteq Node
    PROVE  /\ Reached(E, S) \subseteq Node /\ S \subseteq Reached(E, S)
           /\ Shut(E, Reached(E, S))
<1> DEFINE k == Cardinality(Node)
<1>1. k \in Nat
  BY LookupAssumption, FS_CardinalityType
<1>2. \A T : T \subseteq Node => IsFiniteSet(T) /\ Cardinality(T) \in Nat /\ Cardinality(T) <= k
  BY LookupAssumption, FS_Subset, FS_CardinalityType
<1> HIDE DEF k
<1>3. PICK f : NearBy(f, E, S, k) /\ Near(E, S, k) = f[k]
  BY <1>1, NearIs
<1>4. \A i \in 0..k : f[i] = IF i = 0 THEN S ELSE Around(E, f[i - 1])
  BY <1>3, Zenon DEF NearBy
<1> DEFINE Good == {i \in 0..k : /\ f[i] \subseteq Node /\ S \subseteq f[i]
                                 /\ Shut(E, f[i]) \/ Cardinality(f[i]) > i}
<1>5. 0 \in Good
  <2>1. f[0] = S
    BY <1>1, <1>4
  <2>2. CASE S = {}
    BY <1>1, <2>1, <2>2 DEF Shut
  <2>3. CASE S # {}
    <3>1. Cardinality(S) # 0
      BY <1>2, <2>3, FS_EmptySet
    <3> QED
      BY <1>1, <1>2, <2>1, <3>1
  <2> QED
    BY <2>2, <2>3
<1>6. ASSUME NEW i \in 0..(k - 1), i \in Good PROVE i + 1 \in Good
  <2> DEFINE T == f[i]
             U == f[i + 1]
  <2>1. i + 1 \in 0..k /\ i + 1 # 0 /\ (i + 1) - 1 = i
    BY <1>1
  <2>2. U = Around(E, T)
    BY <1>4, <2>1
  <2>3. T \subseteq Node /\ S \subseteq T /\ (Shut(E, T) \/ Cardinality(T) > i)
    BY <1>6
  <2> HIDE DEF T, U
  <2>4. U \subseteq Node /\ T \subseteq U
    BY <2>2, <2>3 DEF Around
  <2>5. CASE Shut(E, T)
    <3>1. U = T
      BY <2>2, <2>5 DEF Around, Shut
    <3> QED
      BY <2>1, <2>3, <2>5, <3>1 DEF T, U
  <2>6. CASE ~ Shut(E, T) /\ Cardinality(T) > i
    <3>1. U # T
      BY <2>2, <2>6 DEF Around, Shut
    <3>2. Cardinality(T) < Cardinality(U)
      <4>1. IsFiniteSet(U)
        BY <1>2, <2>4
      <4>2. Cardinality(T) <= Cardinality(U) /\ (Cardinality(U) = Cardinality(T) => U = T)
        BY <2>4, <4>1, FS_Subset
      <4> QED
        BY <1>2, <2>3, <2>4, <3>1, <4>2
    <3>3. Cardinality(U) > i + 1
      BY <1>1, <1>2, <2>3, <2>4, <2>6, <3>2
    <3> QED
      BY <2>1, <2>3, <2>4, <3>3 DEF T, U
  <2> QED
    BY <2>3, <2>5, <2>6
<1> HIDE DEF Good
<1>7. \A i \in 0..k : i \in Good
  BY <1>1, <1>5, <1>6, UpTo
<1>8. /\ f[k] \subseteq Node /\ S \subseteq f[k]
      /\ Shut(E, f[k]) \/ Cardinality(f[k]) > k
  BY <1>1, <1>7 DEF Good
<1>9. Shut(E, f[k])
  BY <1>1, <1>2, <1>8
<1> QED
  BY <1>3, <1>8, <1>9 DEF Reached, k

\* SetToSeq lists the elements of a finite set, each once.
LEMMA ListedOnce ==
    ASSUME NEW S, IsFiniteSet(S)
    PROVE  /\ SetToSeq(S) \in Seq(S) /\ Range(SetToSeq(S)) = S
           /\ Len(SetToSeq(S)) = Cardinality(S)
<1> DEFINE n == Cardinality(S)
<1>1. n \in Nat /\ ExistsBijection(1..n, S)
  BY FS_NatBijection, FS_CardinalityType
<1>2. PICK b \in Bijection(1..n, S) : TRUE
  BY <1>1 DEF ExistsBijection
<1>3. b \in [1..n -> S] /\ IsInjective(b)
  BY <1>2 DEF Bijection, Injection, IsInjective
<1> DEFINE f == SetToSeq(S)
<1>4. f \in [1..n -> S] /\ IsInjective(f)
  BY <1>3, Zenon DEF SetToSeq
<1> HIDE DEF f
<1>5. f \in Seq(S) /\ Len(f) = n
  BY <1>1, <1>4
<1>6. f \in Surjection(1..n, S)
  <2>1. f \in Injection(1..n, S)
    BY <1>4 DEF Injection
  <2>2. Cardinality(1..n) = n
    BY <1>1, FS_Interval
  <2> QED
    BY <2>1, <2>2, FS_Injection
<1>7. Range(f) = S
  BY <1>4, <1>6 DEF Surjection, Range
<1> QED
  BY <1>5, <1>7 DEF f

-----------------------------------------------------------------------------
(* What a call of the write API does to the types *)

\* A call gives a type to at most one node, which was not there, and one that
\* fits its name.
LEMMA TypeSteps ==
    ASSUME Inv, Next
    PROVE  /\ primary' \in Graph
           /\ \/ primary'.type = primary.type /\ primary'.live \subseteq primary.live
              \/ \E n \in Node, t \in Type :
                    /\ \/ t = "ENVIRONMENT" /\ n \in Env
                       \/ t = "CLUSTER" /\ n \in Cluster
                       \/ t = "HOST" /\ n \in Host
                    /\ \A m \in Node : m # n \/ n \in primary.live =>
                                           primary'.type[m] = primary.type[m]
                    /\ n \notin primary.live => primary'.type[n] = t
                    /\ primary'.live = primary.live \cup {n}
<1> USE NodeNames
<1>a. primary \in Graph /\ dependency \in Graph
  BY DEF Inv, TypeOK
<1> DEFINE Goal == 
           /\ primary' \in Graph
           /\ \/ primary'.type = primary.type /\ primary'.live \subseteq primary.live
              \/ \E n \in Node, t \in Type :
                    /\ \/ t = "ENVIRONMENT" /\ n \in Env
                       \/ t = "CLUSTER" /\ n \in Cluster
                       \/ t = "HOST" /\ n \in Host
                    /\ \A m \in Node : m # n \/ n \in primary.live =>
                                           primary'.type[m] = primary.type[m]
                    /\ n \notin primary.live => primary'.type[n] = t
                    /\ primary'.live = primary.live \cup {n}
<1>b. {"ENVIRONMENT", "CLUSTER", "HOST"} \subseteq Type
  BY DEF Type
<1>c. ASSUME NEW n \in Node, NEW d, Commit(Removed(primary, n), d) PROVE Goal
  BY <1>a, <1>c, RemovedFields, CommittedFields DEF Commit
<1>d. ASSUME NEW p \in Node, NEW n \in Node, NEW d, Commit(Unlinked(primary, p, n), d)
      PROVE  Goal
  BY <1>a, <1>d, UnlinkedFields, CommittedFields DEF Commit
<1>e. ASSUME NEW n \in Node, NEW t \in Type, NEW d, Commit(Created(primary, n, t), d),
             \/ t = "ENVIRONMENT" /\ n \in Env
             \/ t = "CLUSTER" /\ n \in Cluster
             \/ t = "HOST" /\ n \in Host
      PROVE  Goal
  <2>1. /\ Created(primary, n, t) \in Graph
        /\ Created(primary, n, t).live = primary.live \cup {n}
        /\ \A m \in Node : m # n \/ n \in primary.live =>
                                Created(primary, n, t).type[m] = primary.type[m]
        /\ n \notin primary.live => Created(primary, n, t).type[n] = t
    BY <1>a, CreatedFields
  <2>2. /\ primary' \in Graph
        /\ primary'.live = Created(primary, n, t).live
        /\ primary'.type = Created(primary, n, t).type
    BY <1>a, <1>e, <2>1, CommittedFields DEF Commit
  <2> QED
    BY <1>e, <2>1, <2>2
<1>f. ASSUME NEW p \in Node, NEW n \in Node, NEW t \in Type, NEW d,
             Commit(Linked(Created(primary, n, t), p, n), d),
             \/ t = "ENVIRONMENT" /\ n \in Env
             \/ t = "CLUSTER" /\ n \in Cluster
             \/ t = "HOST" /\ n \in Host
      PROVE  Goal
  <2>1. /\ Created(primary, n, t) \in Graph
        /\ Created(primary, n, t).live = primary.live \cup {n}
        /\ \A m \in Node : m # n \/ n \in primary.live =>
                                Created(primary, n, t).type[m] = primary.type[m]
        /\ n \notin primary.live => Created(primary, n, t).type[n] = t
    BY <1>a, CreatedFields
  <2>2. /\ Linked(Created(primary, n, t), p, n) \in Graph
        /\ Linked(Created(primary, n, t), p, n).live = Created(primary, n, t).live
        /\ Linked(Created(primary, n, t), p, n).type = Created(primary, n, t).type
    <3> DEFINE c == Created(primary, n, t)
    <3>1. c \in Graph
      BY <2>1
    <3> HIDE DEF c
    <3>2. Linked(c, p, n) \in Graph /\ Linked(c, p, n).live = c.live /\ Linked(c, p, n).type = c.type
      BY <3>1, LinkedFields
    <3> QED
      BY <3>2 DEF c
  <2>3. /\ primary' \in Graph
        /\ primary'.live = Created(primary, n, t).live
        /\ primary'.type = Created(primary, n, t).type
    BY <1>a, <1>f, <2>2, CommittedFields DEF Commit
  <2> QED
    BY <1>f, <2>1, <2>3
<1>g. ASSUME NEW d, Commit(primary, d) PROVE Goal
  BY <1>a, <1>g, CommittedFields DEF Commit
<1> HIDE DEF Goal
<1>1. ASSUME NEW e \in Env, CreateEnv(e) \/ RemoveEnv(e) PROVE Goal
  BY <1>1, <1>b, <1>c, <1>e DEF CreateEnv, RemoveEnv
<1>2. ASSUME NEW h \in Host, AddHost(h) PROVE Goal
  BY <1>2, <1>b, <1>e DEF AddHost
<1>3. ASSUME NEW n \in Cluster, RemoveCluster(n) PROVE Goal
  BY <1>3, <1>c DEF RemoveCluster
<1>4. ASSUME NEW e \in Env, NEW n \in Cluster,
             AddClusterToEnv(e, n) \/ RemoveClusterFromEnv(e, n)
      PROVE  Goal
  BY <1>4, <1>b, <1>d, <1>f DEF AddClusterToEnv, RemoveClusterFromEnv
<1>5. ASSUME NEW e \in Env, NEW n \in Node, RemoveHost(e, n) PROVE Goal
  BY <1>5, <1>c DEF RemoveHost
<1>6. ASSUME NEW p \in Cluster, NEW n \in Cluster,
             AddClusterToCluster(p, n) \/ RemoveClusterFromCluster(p, n)
      PROVE  Goal
  BY <1>6, <1>b, <1>d, <1>f DEF AddClusterToCluster, RemoveClusterFromCluster
<1>7. ASSUME NEW p \in Cluster, NEW h \in Host,
             AddHostToCluster(p, h) \/ RemoveHostFromCluster(p, h)
      PROVE  Goal
  BY <1>7, <1>b, <1>d, <1>f DEF AddHostToCluster, RemoveHostFromCluster
<1>8. ASSUME NEW n \in Node, NEW d \in Node, AddDependency(n, d) \/ RemoveDependency(n, d)
      PROVE  Goal
  BY <1>8, <1>g DEF AddDependency, RemoveDependency
<1>9. Goal
  BY <1>1, <1>2, <1>3, <1>4, <1>5, <1>6, <1>7, <1>8 DEF Next
<1> QED
  BY <1>9 DEF Goal

\* So types fit the names, and a node that was ever there keeps its type as long
\* as it stays and never loses it for none.
LEMMA TypesKept ==
    ASSUME Inv, TypesFit, Next
    PROVE  /\ TypesFit'
           /\ \A n \in Node : primary.type[n] # "UNKNOWN" => primary'.type[n] # "UNKNOWN"
           /\ \A n \in Node : n \in primary.live => primary'.type[n] = primary.type[n]
<1>1. CASE primary'.type = primary.type /\ primary'.live \subseteq primary.live
  BY <1>1 DEF TypesFit
<1>2. ASSUME NEW n \in Node, NEW t \in Type,
             \/ t = "ENVIRONMENT" /\ n \in Env
             \/ t = "CLUSTER" /\ n \in Cluster
             \/ t = "HOST" /\ n \in Host,
             \A m \in Node : m # n \/ n \in primary.live => primary'.type[m] = primary.type[m],
             n \notin primary.live => primary'.type[n] = t,
             primary'.live = primary.live \cup {n}
      PROVE  /\ TypesFit'
             /\ \A m \in Node : primary.type[m] # "UNKNOWN" => primary'.type[m] # "UNKNOWN"
             /\ \A m \in Node : m \in primary.live => primary'.type[m] = primary.type[m]
  BY <1>2 DEF TypesFit
<1> QED
  BY <1>1, <1>2, TypeSteps

\* No name has a type at first.
LEMMA InitTypesFit == Init => TypesFit
BY DEF Init, TypesFit

(***************************************************************************)
(* The type of a node fits its name, whatever was removed and created      *)
(* again: create_env, add_host and the calls that add clusters and hosts   *)
(* give types only to names that were not there (write_api.cpp).           *)
(***************************************************************************)
THEOREM TypesFitNames == Spec => []TypesFit
<1>2. TypesFit /\ UNCHANGED vars => TypesFit'
  BY DEF TypesFit, vars
<1>3. Inv /\ TypesFit /\ [Next]_vars => TypesFit'
  BY <1>2, TypesKept
<1> QED
  BY InitTypesFit, <1>3, Invariance, PTL DEF Spec

-----------------------------------------------------------------------------
(* The names in answers *)

\* The edges that a record gives are those of the graph, each once.
LEMMA Successors ==
    ASSUME NEW g, NEW v \in Node
    PROVE  /\ forward_edges(g, v) \in Seq(Node)
           /\ Range(forward_edges(g, v)) = {m \in Node : <<v, m>> \in g.edges}
           /\ Len(forward_edges(g, v)) <= Cardinality(Node)
<1> DEFINE S == {m \in Node : <<v, m>> \in g.edges}
<1>1. IsFiniteSet(S) /\ Cardinality(S) <= Cardinality(Node)
  BY LookupAssumption, FS_Subset
<1>3. S \subseteq Node
  BY DEF S
<1> HIDE DEF S
<1>2. SetToSeq(S) \in Seq(S) /\ Range(SetToSeq(S)) = S /\ Len(SetToSeq(S)) = Cardinality(S)
  BY <1>1, ListedOnce
<1>4. SetToSeq(S) \in Seq(Node)
  BY <1>2, <1>3
<1> QED
  BY <1>1, <1>2, <1>4 DEF forward_edges, S

\* So are the edges that lead to the node.
LEMMA ReverseEdges ==
    ASSUME NEW g, NEW v \in Node
    PROVE  /\ reverse_edges(g, v) \in Seq(Node)
           /\ Range(reverse_edges(g, v)) = {m \in Node : <<m, v>> \in g.edges}
           /\ Len(reverse_edges(g, v)) <= Cardinality(Node)
<1> DEFINE S == {m \in Node : <<m, v>> \in g.edges}
<1>1. IsFiniteSet(S) /\ Cardinality(S) <= Cardinality(Node)
  BY LookupAssumption, FS_Subset
<1>2. S \subseteq Node
  BY DEF S
<1> HIDE DEF S
<1>3. SetToSeq(S) \in Seq(S) /\ Range(SetToSeq(S)) = S /\ Len(SetToSeq(S)) = Cardinality(S)
  BY <1>1, ListedOnce
<1>4. SetToSeq(S) \in Seq(Node)
  BY <1>2, <1>3
<1> QED
  BY <1>1, <1>3, <1>4 DEF reverse_edges, S

\* An answer holds the shortened name of each node it lists.
LEMMA RangeOfShortened ==
    ASSUME NEW e, NEW s \in Seq(Node)
    PROVE  \A x : x \in Range(Shortened(e, s))
               <=> \E n \in Range(s) : x = unprefix_node_name(e, n)
<1> DEFINE t == Shortened(e, s)
<1>1. DOMAIN t = DOMAIN s /\ \A i \in DOMAIN s : t[i] = unprefix_node_name(e, s[i])
  BY DEF Shortened
<1> HIDE DEF t
<1> QED
  BY <1>1 DEF Range, t

\* What environment e holds: itself, its clusters and the hosts in those.
Within(e) ==
    {n \in primary.live :
        \/ n = e
        \/ primary.type[n] = "CLUSTER" /\ n[1] = e
        \/ /\ primary.type[n] = "HOST"
           /\ \E p \in Cluster : p[1] = e /\ <<p, n>> \in primary.edges}

\* Every edge is one of three kinds.
LEMMA EdgeKinds ==
    ASSUME Inv, TypesFit, NEW d \in primary.edges
    PROVE  /\ d = <<d[1], d[2]>> /\ d[1] \in primary.live /\ d[2] \in primary.live
           /\ \/ /\ primary.type[d[1]] = "ENVIRONMENT" /\ primary.type[d[2]] = "CLUSTER"
                 /\ d[2] \in Cluster /\ d[2][1] = d[1]
              \/ /\ primary.type[d[1]] = "CLUSTER" /\ primary.type[d[2]] = "CLUSTER"
                 /\ d[1] \in Cluster /\ d[2] \in Cluster /\ d[2][1] = d[1][1]
              \/ /\ primary.type[d[1]] = "CLUSTER" /\ primary.type[d[2]] = "HOST"
                 /\ d[1] \in Cluster /\ d[2] \in Host
<1>1. d \in Node \X Node
  BY DEF Inv, TypeOK, Graph
<1>2. d = <<d[1], d[2]>> /\ d[1] \in Node /\ d[2] \in Node /\ <<d[1], d[2]>> \in primary.edges
  BY <1>1
<1> DEFINE p == d[1]
           n == d[2]
<1>3. p \in Node /\ n \in Node /\ <<p, n>> \in primary.edges /\ d = <<p, n>>
  BY <1>2
<1> HIDE DEF p, n
<1>4. /\ p \in primary.live /\ n \in primary.live
      /\ \/ /\ primary.type[p] = "ENVIRONMENT"
            /\ primary.type[n] = "CLUSTER"
            /\ n \in Cluster /\ n[1] = p
         \/ /\ primary.type[p] = "CLUSTER"
            /\ primary.type[n] = "CLUSTER"
            /\ n \in Cluster /\ p \in Cluster /\ n[1] = p[1]
         \/ /\ primary.type[p] = "CLUSTER"
            /\ primary.type[n] = "HOST"
            /\ p \in Cluster
  BY <1>3, Zenon DEF Inv, WellFormed
<1>5. primary.type[n] = "HOST" => n \in Host
  BY <1>3, Zenon DEF TypesFit
<1> QED
  BY <1>2, <1>4, <1>5 DEF p, n

\* No edge leads out of what an environment holds, and none into it from
\* elsewhere.
LEMMA WithinIsClosed ==
    ASSUME Inv, TypesFit, NEW e, Is(primary, e, "ENVIRONMENT"), NEW d \in primary.edges
    PROVE  /\ d[1] \in Within(e) => d[2] \in Within(e)
           /\ d[2] \in Within(e) => d[1] = e \/ (d[1] \in Cluster /\ d[1][1] = e)
<1>1. primary.type[e] = "ENVIRONMENT"
  BY DEF Is
<1> DEFINE p == d[1]
           n == d[2]
<1>2. /\ d = <<p, n>> /\ p \in primary.live /\ n \in primary.live
      /\ \/ /\ primary.type[p] = "ENVIRONMENT" /\ primary.type[n] = "CLUSTER"
            /\ n \in Cluster /\ n[1] = p
         \/ /\ primary.type[p] = "CLUSTER" /\ primary.type[n] = "CLUSTER"
            /\ p \in Cluster /\ n \in Cluster /\ n[1] = p[1]
         \/ /\ primary.type[p] = "CLUSTER" /\ primary.type[n] = "HOST"
            /\ p \in Cluster /\ n \in Host
  BY EdgeKinds
<1>3. <<p, n>> \in primary.edges
  BY <1>2
<1> HIDE DEF p, n
<1>4. ASSUME p \in Within(e) PROVE n \in Within(e)
  <2>1. p = e \/ (primary.type[p] = "CLUSTER" /\ p[1] = e) \/ primary.type[p] = "HOST"
    BY <1>4 DEF Within
  <2> QED
    BY <1>1, <1>2, <1>3, <2>1 DEF Within
<1>5. ASSUME n \in Within(e) PROVE p = e \/ (p \in Cluster /\ p[1] = e)
  <2>1. CASE primary.type[n] = "CLUSTER"
    <3>1. n[1] = e
      BY <1>1, <1>5, <2>1 DEF Within
    <3> QED
      BY <1>2, <2>1, <3>1
  <2>2. CASE primary.type[n] = "HOST"
    <3>1. PICK q \in Cluster : q[1] = e /\ <<q, n>> \in primary.edges
      BY <1>1, <1>5, <2>2 DEF Within
    <3>2. p \in Cluster /\ n \in Host
      BY <1>2, <2>2
    <3>3. p[1] = q[1]
      BY <1>3, <3>1, <3>2, Zenon DEF Inv, OneEnvironment
    <3> QED
      BY <3>1, <3>2, <3>3
  <2> QED
    BY <1>2, <2>1, <2>2
<1> QED
  BY <1>4, <1>5 DEF p, n

\* So that is all an environment reaches.
LEMMA HeldIsWithin ==
    ASSUME Inv, TypesFit, NEW e, Is(primary, e, "ENVIRONMENT")
    PROVE  Reached(primary.edges, {e}) \subseteq Within(e)
<1>1. {e} \subseteq Within(e)
  BY DEF Within, Is
<1>2. \A d \in primary.edges : d[1] \in Within(e) => d[2] \in Within(e)
  BY WithinIsClosed
<1> DEFINE C == Within(e)
           E == primary.edges
<1>3. {e} \subseteq C /\ \A d \in E : d[1] \in C => d[2] \in C
  BY <1>1, <1>2
<1> HIDE DEF C, E
<1>4. Reached(E, {e}) \subseteq C
  BY <1>3, ReachedWithin
<1> QED
  BY <1>4 DEF C, E

\* What is not hidden of that, and which of the three kinds it is.
Open(e, v) ==
    /\ v \in Within(e)
    /\ v \in Cluster \/ <<e, v>> \notin primary.live
    /\ v \notin Cluster \/ unprefix_node_name(e, v) # e
    /\ unprefix_node_name(e, v) # NoName

\* An environment, one of its clusters or a host of those; its name follows.
LEMMA OpenKinds ==
    ASSUME Inv, TypesFit, NEW e, Is(primary, e, "ENVIRONMENT"), NEW v, Open(e, v)
    PROVE  /\ v \in Node /\ v \in primary.live /\ v # NotFound
           /\ \/ /\ v = e /\ v \notin Cluster /\ unprefix_node_name(e, v) = v
                 /\ <<e, v>> \notin primary.live /\ primary.type[v] = "ENVIRONMENT"
              \/ /\ v # e /\ v \in Cluster /\ v = <<e, unprefix_node_name(e, v)>>
                 /\ unprefix_node_name(e, v) # e /\ primary.type[v] = "CLUSTER"
              \/ /\ v # e /\ v \notin Cluster /\ unprefix_node_name(e, v) = v
                 /\ <<e, v>> \notin primary.live /\ primary.type[v] = "HOST"
<1>1. /\ v \in primary.live
      /\ v = e \/ (primary.type[v] = "CLUSTER" /\ v[1] = e) \/ primary.type[v] = "HOST"
  BY DEF Open, Within
<1>2. v \in Node /\ v # NotFound
  BY <1>1, LookupAssumption DEF Inv, TypeOK, Graph
<1>3. primary.type[e] = "ENVIRONMENT"
  BY DEF Is
<1>4. CASE v = e
  <2>1. v \notin Cluster
    BY <1>2, <1>3, <1>4, NodeNames DEF TypesFit
  <2> QED
    BY <1>1, <1>2, <1>3, <1>4, <2>1 DEF Open, unprefix_node_name
<1>5. CASE primary.type[v] = "CLUSTER" /\ v[1] = e
  <2>1. v \in Cluster
    BY <1>2, <1>5 DEF TypesFit
  <2>2. v = <<v[1], v[2]>>
    BY <2>1, WriteAssumption
  <2>3. unprefix_node_name(e, v) = v[2]
    BY <1>5, <2>1 DEF unprefix_node_name
  <2> QED
    BY <1>1, <1>2, <1>3, <1>5, <2>1, <2>2, <2>3 DEF Open
<1>6. CASE primary.type[v] = "HOST" /\ v # e
  <2>1. v \notin Cluster
    BY <1>2, <1>6, NodeNames DEF TypesFit
  <2> QED
    BY <1>1, <1>2, <1>6, <2>1 DEF Open, unprefix_node_name
<1> QED
  BY <1>1, <1>3, <1>4, <1>5, <1>6

\* get_node finds the node that an open name stands for.
LEMMA NameIsFound ==
    ASSUME Inv, TypesFit, NEW e, Is(primary, e, "ENVIRONMENT"), e # NoName,
           NEW v, Open(e, v)
    PROVE  get_node(primary, e, unprefix_node_name(e, v)) = v
<1> DEFINE n == unprefix_node_name(e, v)
<1>1. /\ v \in Node /\ v \in primary.live /\ v # NotFound
      /\ \/ /\ v = e /\ v \notin Cluster /\ n = v
            /\ <<e, v>> \notin primary.live /\ primary.type[v] = "ENVIRONMENT"
         \/ /\ v # e /\ v \in Cluster /\ v = <<e, n>>
            /\ n # e /\ primary.type[v] = "CLUSTER"
         \/ /\ v # e /\ v \notin Cluster /\ n = v
            /\ <<e, v>> \notin primary.live /\ primary.type[v] = "HOST"
  BY OpenKinds
<1>2. n # NoName
  BY DEF Open
<1> HIDE DEF n
<1>3. CASE v = e
  <2>1. n = e /\ get_node(primary, e, n) = IF Is(primary, e, "ENVIRONMENT") THEN e ELSE NotFound
    BY <1>1, <1>2, <1>3 DEF get_node
  <2> QED
    BY <1>3, <2>1 DEF n
<1>4. CASE v # e
  <2>1. n # e
    BY <1>1, <1>4
  <2>2. get_node(primary, e, n) =
            IF <<e, n>> \in primary.live THEN <<e, n>>
            ELSE IF n \in primary.live /\ primary.type[n] = "HOST" THEN n ELSE NotFound
    BY <1>2, <2>1 DEF get_node
  <2>3. get_node(primary, e, n) = v
    BY <1>1, <1>4, <2>2
  <2> QED
    BY <2>3 DEF n
<1> QED
  BY <1>3, <1>4

\* simple_expand lists what the node holds.
LEMMA ExpansionIsMembers ==
    ASSUME Inv, TypesFit, NEW e, Is(primary, e, "ENVIRONMENT"), e # NoName,
           NEW v, Open(e, v)
    PROVE  Range(simple_expand(primary, e, unprefix_node_name(e, v), primary.type[v]))
             = {unprefix_node_name(e, d[2]) : d \in {d \in primary.edges : d[1] = v}}
<1> DEFINE n == unprefix_node_name(e, v)
           M == {unprefix_node_name(e, d[2]) : d \in {d \in primary.edges : d[1] = v}}
           x == simple_expand(primary, e, n, primary.type[v])
<1>1. get_node(primary, e, n) = v /\ v # NotFound /\ v \in Node
  BY NameIsFound, OpenKinds
<1>2. x = IF primary.type[v] = "HOST" THEN <<>> ELSE Shortened(e, forward_edges(primary, v))
  <2> HIDE DEF n
  <2> QED
    BY <1>1 DEF simple_expand
<1>3. CASE primary.type[v] = "HOST"
  <2>1. \A d \in primary.edges : primary.type[d[1]] # "HOST"
    BY EdgeKinds
  <2>2. M = {}
    BY <1>3, <2>1
  <2>3. x = <<>>
    BY <1>2, <1>3
  <2> HIDE DEF x, M
  <2>4. Range(x) = {}
    BY <2>3 DEF Range
  <2> QED
    BY <2>2, <2>4 DEF x, M, n
<1>4. CASE primary.type[v] # "HOST"
  <2> DEFINE s == forward_edges(primary, v)
  <2>1. s \in Seq(Node) /\ Range(s) = {m \in Node : <<v, m>> \in primary.edges}
    BY <1>1, Successors
  <2>2. x = Shortened(e, s)
    BY <1>2, <1>4
  <2> HIDE DEF s, x
  <2>3. \A y : y \in Range(Shortened(e, s)) <=> \E m \in Range(s) : y = unprefix_node_name(e, m)
    BY <2>1, RangeOfShortened
  <2>4. \A m : m \in Range(s) <=> \E d \in primary.edges : d[1] = v /\ d[2] = m
    <3>1. \A d \in primary.edges : d = <<d[1], d[2]>> /\ d[2] \in Node
      BY DEF Inv, TypeOK, Graph
    <3> QED
      BY <2>1, <3>1
  <2>5. \A y : y \in M <=> \E d \in primary.edges : d[1] = v /\ y = unprefix_node_name(e, d[2])
    OBVIOUS
  <2> HIDE DEF M
  <2>6. \A y : y \in Range(x) <=> y \in M
    BY <2>2, <2>3, <2>4, <2>5
  <2>7. Range(x) = M
    BY <2>6
  <2> QED
    BY <2>7 DEF x, M, n
<1> QED
  BY <1>3, <1>4

\* get_clusters lists what holds the node.
LEMMA ClustersAreHolders ==
    ASSUME Inv, TypesFit, NEW e, Is(primary, e, "ENVIRONMENT"), e # NoName,
           NEW m, Open(e, m)
    PROVE  \A y : y \in Range(get_clusters(primary, e, unprefix_node_name(e, m)))
               <=> \E u \in Node : <<u, m>> \in primary.edges /\ y = unprefix_node_name(e, u)
<1> DEFINE n == unprefix_node_name(e, m)
           x == get_clusters(primary, e, n)
           s == reverse_edges(primary, m)
<1>1. /\ m \in Node /\ m \in primary.live /\ m # NotFound
      /\ \/ /\ m = e /\ m \notin Cluster /\ n = m
            /\ <<e, m>> \notin primary.live /\ primary.type[m] = "ENVIRONMENT"
         \/ /\ m # e /\ m \in Cluster /\ m = <<e, n>>
            /\ n # e /\ primary.type[m] = "CLUSTER"
         \/ /\ m # e /\ m \notin Cluster /\ n = m
            /\ <<e, m>> \notin primary.live /\ primary.type[m] = "HOST"
  BY OpenKinds
<1>2. s \in Seq(Node) /\ Range(s) = {u \in Node : <<u, m>> \in primary.edges}
  BY <1>1, ReverseEdges
<1>3. x = Shortened(e, s)
  <2> HIDE DEF n
  <2>1. CASE m = <<e, n>>
    BY <1>1, <2>1 DEF get_clusters
  <2>2. CASE n = m /\ <<e, n>> \notin primary.live
    BY <1>1, <2>2 DEF get_clusters
  <2> QED
    BY <1>1, <2>1, <2>2
<1> HIDE DEF s
<1>4. \A y : y \in Range(Shortened(e, s)) <=> \E u \in Range(s) : y = unprefix_node_name(e, u)
  BY <1>2, RangeOfShortened
<1> QED
  BY <1>2, <1>3, <1>4

\* Open nodes that have the name of a holder are that holder.
LEMMA HolderIsNamed ==
    ASSUME Inv, TypesFit, NEW e, Is(primary, e, "ENVIRONMENT"),
           NEW v, Open(e, v), NEW m, Open(e, m), NEW u \in Node, <<u, m>> \in primary.edges,
           unprefix_node_name(e, v) = unprefix_node_name(e, u)
    PROVE  u = v
<1> DEFINE n == unprefix_node_name(e, v)
<1>1. /\ v \in primary.live
      /\ \/ v = e /\ n = v /\ v \notin Cluster /\ <<e, v>> \notin primary.live
         \/ v \in Cluster /\ v = <<e, n>> /\ n # e
         \/ n = v /\ v \notin Cluster /\ <<e, v>> \notin primary.live
  BY OpenKinds
<1>2. n = unprefix_node_name(e, u)
  OBVIOUS
<1> HIDE DEF n
<1> DEFINE d == <<u, m>>
<1>3. d \in primary.edges /\ d[1] = u /\ d[2] = m
  OBVIOUS
<1> HIDE DEF d
<1>4. d[1] \in primary.live
  BY <1>3, EdgeKinds
<1>5. m \in Within(e)
  BY DEF Open
<1>6. d[1] = e \/ (d[1] \in Cluster /\ d[1][1] = e)
  BY <1>3, <1>5, WithinIsClosed
<1>7. u \in primary.live /\ (u = e \/ (u \in Cluster /\ u[1] = e))
  BY <1>3, <1>4, <1>6
<1>8. CASE u = e
  <2>1. u \notin Cluster
    BY <1>8, NodeNames DEF TypesFit, Is
  <2>2. n = e
    BY <1>2, <1>8, <2>1 DEF unprefix_node_name
  <2> QED
    BY <1>1, <1>8, <2>2
<1>9. CASE u \in Cluster /\ u[1] = e
  <2>1. u = <<u[1], u[2]>>
    BY <1>9, WriteAssumption
  <2>2. n = u[2]
    BY <1>2, <1>9 DEF unprefix_node_name
  <2>3. u = <<e, n>>
    BY <1>9, <2>1, <2>2
  <2> QED
    BY <1>1, <1>7, <2>3
<1> QED
  BY <1>7, <1>8, <1>9

\* The three together are what NamesResolve says.
LEMMA InvResolves == Inv /\ TypesFit => NamesResolve
<1> SUFFICES ASSUME Inv, TypesFit PROVE NamesResolve
  OBVIOUS
<1>1. ASSUME NEW e \in all_environments(primary) \ {NoName}
      PROVE  LET Name(v) == unprefix_node_name(e, v)
                 held == Reached(primary.edges, {e})
                 hidden == {v \in held :
                     \/ v \notin Cluster /\ <<e, v>> \in primary.live
                     \/ v \in Cluster /\ Name(v) = e
                     \/ Name(v) = NoName}
             IN  \A v \in held \ hidden :
                    /\ get_node(primary, e, Name(v)) = v
                    /\ Range(simple_expand(primary, e, Name(v), primary.type[v]))
                          = {Name(d[2]) : d \in {d \in primary.edges : d[1] = v}}
                    /\ \A m \in held \ hidden :
                          Name(v) \in Range(get_clusters(primary, e, Name(m)))
                             <=> <<v, m>> \in primary.edges
  <2> DEFINE Name(v) == unprefix_node_name(e, v)
             held == Reached(primary.edges, {e})
             hidden == {v \in held :
                     \/ v \notin Cluster /\ <<e, v>> \in primary.live
                     \/ v \in Cluster /\ Name(v) = e
                     \/ Name(v) = NoName}
  <2>1. Is(primary, e, "ENVIRONMENT") /\ e # NoName
    BY DEF all_environments, Is
  <2>2. held \subseteq Within(e)
    BY <2>1, HeldIsWithin
  <2> HIDE DEF held
  <2>3. \A v \in held \ hidden : Open(e, v)
    BY <2>2 DEF Open
  <2> HIDE DEF hidden
  <2>4. ASSUME NEW v \in held \ hidden, NEW m \in held \ hidden
        PROVE  Name(v) \in Range(get_clusters(primary, e, Name(m)))
                  <=> <<v, m>> \in primary.edges
    <3>1. Open(e, v) /\ Open(e, m)
      BY <2>3
    <3>2. v \in Node
      BY <2>1, <3>1, OpenKinds
    <3>3. \A y : y \in Range(get_clusters(primary, e, unprefix_node_name(e, m)))
               <=> \E u \in Node : <<u, m>> \in primary.edges /\ y = unprefix_node_name(e, u)
      BY <2>1, <3>1, ClustersAreHolders
    <3>4. \A u \in Node : <<u, m>> \in primary.edges
                          /\ unprefix_node_name(e, v) = unprefix_node_name(e, u) => u = v
      BY <2>1, <3>1, HolderIsNamed
    <3> QED
      BY <3>2, <3>3, <3>4
  <2>5. ASSUME NEW v \in held \ hidden
        PROVE  /\ get_node(primary, e, Name(v)) = v
               /\ Range(simple_expand(primary, e, Name(v), primary.type[v]))
                     = {Name(d[2]) : d \in {d \in primary.edges : d[1] = v}}
    <3>1. Open(e, v)
      BY <2>3
    <3> QED
      BY <2>1, <3>1, NameIsFound, ExpansionIsMembers
  <2> QED
    BY <2>4, <2>5 DEF held, hidden
<1> QED
  BY <1>1 DEF NamesResolve

(***************************************************************************)
(* A name that the read API answered stands for the same node when it is   *)
(* given back, and simple_expand and get_clusters are each other's         *)
(* inverse, for every graph that calls of the write API can make           *)
(* (get_node, simple_expand, get_clusters, unprefix_node_name).            *)
(***************************************************************************)
THEOREM AnswersNameTheirNodes == Spec => []NamesResolve
BY Invariance, TypesFitNames, InvResolves, PTL

-----------------------------------------------------------------------------
(* Searches beside writers *)

\* The parts of a reader.
LEMMA ReaderFields ==
    ASSUME NEW r \in Reader
    PROVE  /\ r.start \subseteq Node /\ r.then \subseteq Node /\ r.todo \subseteq Node
           /\ r.st \in Seq(Node) /\ r.visited \subseteq Node /\ r.found \subseteq Node
           /\ r.root \in Node \cup {NoName}
  BY DEF Reader

\* What two sequences hold together.
LEMMA RangeOfBoth ==
    ASSUME NEW S, NEW s \in Seq(S), NEW t \in Seq(S)
    PROVE  s \o t \in Seq(S) /\ Range(s \o t) = Range(s) \cup Range(t)
<1>1. s \o t \in Seq(S) /\ Len(s \o t) = Len(s) + Len(t)
  OBVIOUS
<1>2. \A i \in 1..Len(s) : (s \o t)[i] = s[i] /\ i \in 1..Len(s \o t)
  BY <1>1
<1>3. \A i \in 1..Len(t) : (s \o t)[Len(s) + i] = t[i] /\ Len(s) + i \in 1..Len(s \o t)
  BY <1>1
<1>4. \A i \in 1..Len(s \o t) : i \in 1..Len(s) \/ i - Len(s) \in 1..Len(t)
  BY <1>1
<1>5. \A i \in 1..Len(s \o t) : (s \o t)[i] \in Range(s) \cup Range(t)
  BY <1>1, <1>4 DEF Range
<1>6. Range(s) \subseteq Range(s \o t)
  BY <1>1, <1>2 DEF Range
<1>7. Range(t) \subseteq Range(s \o t)
  <2> SUFFICES ASSUME NEW i \in 1..Len(t) PROVE t[i] \in Range(s \o t)
    BY DEF Range
  <2>1. Len(s) + i \in DOMAIN (s \o t) /\ (s \o t)[Len(s) + i] = t[i]
    BY <1>1, <1>3
  <2> QED
    BY <2>1 DEF Range
<1>8. Range(s \o t) \subseteq Range(s) \cup Range(t)
  BY <1>1, <1>5 DEF Range
<1> QED
  BY <1>1, <1>6, <1>7, <1>8

\* What a stack holds is its top and the rest.
LEMMA RangeOfTop ==
    ASSUME NEW S, NEW s \in Seq(S), s # <<>>
    PROVE  /\ Front(s) \in Seq(S) /\ Last(s) \in S
           /\ Range(s) = Range(Front(s)) \cup {Last(s)}
<1>1. Len(s) \in Nat /\ Len(s) > 0 /\ DOMAIN s = 1..Len(s)
  OBVIOUS
<1>2. /\ Front(s) \in Seq(S) /\ Len(Front(s)) = Len(s) - 1
      /\ \A i \in 1..(Len(s) - 1) : Front(s)[i] = s[i]
  BY <1>1 DEF Front
<1>3. DOMAIN Front(s) = 1..(Len(s) - 1)
  BY <1>2
<1> QED
  BY <1>1, <1>2, <1>3 DEF Last, Range

\* What reading the record of v makes of the reader.
LEMMA LoadedFields ==
    ASSUME primary \in Graph, NEW r \in Reader, NEW v \in Node, NEW st \in Seq(Node)
    PROVE  LET l == Loaded(r, v, st)
           IN  /\ l \in Reader /\ l.pc = "walk" /\ l.op = r.op
               /\ l.start = r.start /\ l.root = r.root /\ l.todo = r.todo
               /\ l.then \subseteq r.then
               /\ l.visited = r.visited \cup {v}
               /\ Range(st) \subseteq Range(l.st)
               /\ \A m \in Node : v \notin r.visited /\ <<v, m>> \in primary.edges =>
                                     m \in Range(l.st)
               /\ \A m \in Range(l.st) : m \in Range(st) \/ <<v, m>> \in primary.edges
               /\ r.found \subseteq l.found
               /\ v \notin r.visited /\ r.op = "all_clusters" /\ primary.type[v] = "CLUSTER" =>
                     v \in l.found
<1> DEFINE l == Loaded(r, v, st)
           E == forward_edges(primary, v)
           F == IF r.op = "all_clusters" /\ primary.type[v] = "CLUSTER"
                THEN r.found \cup {v} ELSE r.found
<1>1. E \in Seq(Node) /\ Range(E) = {m \in Node : <<v, m>> \in primary.edges}
  BY Successors
<1> HIDE DEF E
<1>2. st \o E \in Seq(Node) /\ Range(st \o E) = Range(st) \cup Range(E)
  BY <1>1, RangeOfBoth
<1>3. CASE v \in r.visited
  <2>1. l = [r EXCEPT !.st = st, !.pc = "walk"]
    BY <1>3 DEF Loaded
  <2>2. /\ l \in Reader /\ l.pc = "walk" /\ l.op = r.op
        /\ l.start = r.start /\ l.root = r.root /\ l.todo = r.todo
        /\ l.then = r.then /\ l.visited = r.visited /\ l.st = st /\ l.found = r.found
    <3> HIDE DEF l
    <3> QED
      BY <2>1 DEF Reader
  <2> HIDE DEF l
  <2>3. l.visited = r.visited \cup {v}
    BY <1>3, <2>2
  <2> QED
    BY <1>3, <2>2, <2>3 DEF l
<1>4. CASE v \notin r.visited
  <2>1. l = [r EXCEPT !.pc = "walk", !.then = {}, !.visited = r.visited \cup {v},
                      !.st = st \o E, !.found = F]
    BY <1>4 DEF Loaded, E
  <2>2. F \subseteq Node /\ r.found \subseteq F
        /\ (r.op = "all_clusters" /\ primary.type[v] = "CLUSTER" => v \in F)
    BY ReaderFields
  <2> HIDE DEF F
  <2>3. /\ l \in Reader /\ l.pc = "walk" /\ l.op = r.op
        /\ l.start = r.start /\ l.root = r.root /\ l.todo = r.todo
        /\ l.then = {} /\ l.visited = r.visited \cup {v} /\ l.st = st \o E /\ l.found = F
    <3> HIDE DEF l
    <3> QED
      BY <1>2, <2>1, <2>2 DEF Reader
  <2> HIDE DEF l
  <2> QED
    BY <1>1, <1>2, <1>4, <2>2, <2>3 DEF l
<1> QED
  BY <1>3, <1>4

\* Reading the record of the root or of the top of the stack keeps the invariant.
LEMMA LoadKeeps ==
    ASSUME SearchInv, Reads, NEW v \in Node, NEW st \in Seq(Node),
           reader' = Loaded(reader, v, st), reader.pc \in {"root", "walk"},
           Range(reader.st) \subseteq Range(st) \cup {v},
           Range(st) \subseteq Range(reader.st),
           primary.type[v] # "UNKNOWN",
           reader.pc = "root" => v = reader.root
    PROVE  SearchInv'
<1>1. /\ primary \in Graph /\ reader \in Reader /\ UNCHANGED <<vars, keptEdges, keptLive>>
      /\ UNCHANGED primary
  BY DEF SearchInv, Inv, TypeOK, Reads, vars
<1> DEFINE l == Loaded(reader, v, st)
<1>2. /\ l \in Reader /\ l.pc = "walk" /\ l.op = reader.op
      /\ l.start = reader.start /\ l.root = reader.root /\ l.todo = reader.todo
      /\ l.then \subseteq reader.then
      /\ l.visited = reader.visited \cup {v}
      /\ Range(st) \subseteq Range(l.st)
      /\ \A m \in Node : v \notin reader.visited /\ <<v, m>> \in primary.edges =>
                            m \in Range(l.st)
      /\ \A m \in Range(l.st) : m \in Range(st) \/ <<v, m>> \in primary.edges
      /\ reader.found \subseteq l.found
      /\ v \notin reader.visited /\ reader.op = "all_clusters" /\ primary.type[v] = "CLUSTER" =>
            v \in l.found
  BY <1>1, LoadedFields
<1> HIDE DEF l
<1>3. reader' = l
  BY DEF l
<1>4. Inv' /\ TypesFit'
  BY <1>1 DEF SearchInv, Inv, TypesFit, vars, TypeOK, WellFormed, OneEnvironment, DependencyCovers
<1>5. StillThere'
  BY <1>1, <1>2, <1>3 DEF SearchInv, StillThere
<1>6. Places'
  BY <1>1, <1>2, <1>3 DEF SearchInv, Places
<1>7. Known'
  <2>1. \A m \in Node : <<v, m>> \in primary.edges => primary.type[m] # "UNKNOWN"
    BY DEF SearchInv, Inv, WellFormed, TypesFit
  <2>2. Range(l.st) \subseteq Node
    BY <1>2, ReaderFields DEF Range
  <2>3. ASSUME NEW n \in l.then \cup l.visited \cup Range(l.st) PROVE primary.type[n] # "UNKNOWN"
    BY <1>2, <2>1, <2>2, <2>3 DEF SearchInv, Known
  <2> QED
    BY <1>1, <1>3, <2>3 DEF Known
<1>8. Followed'
  <2>1. ASSUME NEW n \in Node, NEW m \in Node, n \in l.visited, <<n, m>> \in keptEdges
        PROVE  m \in l.visited \cup Range(l.st)
    <3>1. CASE n \in reader.visited
      <4>1. m \in reader.visited \cup Range(reader.st)
        BY <2>1, <3>1 DEF SearchInv, Followed
      <4> QED
        BY <1>2, <4>1
    <3>2. CASE n = v /\ v \notin reader.visited
      <4>1. <<v, m>> \in primary.edges
        BY <2>1, <3>2 DEF SearchInv, StillThere
      <4> QED
        BY <1>2, <3>2, <4>1
    <3> QED
      BY <1>2, <2>1, <3>1, <3>2
  <2> QED
    BY <1>1, <1>3, <2>1 DEF Followed
<1>9. ClustersCounted'
  BY <1>1, <1>2, <1>3 DEF SearchInv, ClustersCounted
<1>10. EnvironmentsCounted'
  BY <1>1, <1>2, <1>3 DEF SearchInv, EnvironmentsCounted
<1> QED
  BY <1>2, <1>3, <1>4, <1>5, <1>6, <1>7, <1>8, <1>9, <1>10 DEF SearchInv

\* A step that reads nothing of a node changes where the reader is.
LEMMA GraphsStay ==
    ASSUME SearchInv, UNCHANGED vars
    PROVE  Inv' /\ TypesFit' /\ primary' = primary
BY DEF SearchInv, Inv, TypesFit, vars, TypeOK, WellFormed, OneEnvironment, DependencyCovers

\* A call begins: nothing was removed since.
LEMMA BeginKeeps ==
    ASSUME SearchInv, (\E e \in Env : AllClusters(e)) \/ FindOrphanedNodes
    PROVE  SearchInv'
<1>1. primary \in Graph /\ <<>> \in Seq(Node)
  BY DEF SearchInv, Inv, TypeOK
<1>2. UNCHANGED vars /\ keptEdges' = primary.edges /\ keptLive' = primary.live
  BY DEF AllClusters, FindOrphanedNodes
<1>3. \/ /\ reader'.pc = "root" /\ reader'.op = "all_clusters" /\ reader'.root \in Node
      \/ reader'.pc = "envs" /\ reader'.op = "find_orphaned_nodes"
  <2>1. ASSUME NEW e \in Env, AllClusters(e)
        PROVE  reader'.pc = "root" /\ reader'.op = "all_clusters" /\ reader'.root \in Node
    BY <2>1, NodeNames DEF AllClusters, Idle
  <2>2. ASSUME FindOrphanedNodes
        PROVE  reader'.pc = "envs" /\ reader'.op = "find_orphaned_nodes"
    BY <2>2 DEF FindOrphanedNodes, Idle
  <2> QED
    BY <2>1, <2>2
<1>4. /\ reader'.start = primary.live /\ reader'.then = primary.live
      /\ reader'.todo = {} /\ reader'.st = <<>> /\ reader'.visited = {} /\ reader'.found = {}
      /\ reader' \in Reader
  <2>1. primary.live \subseteq Node
    BY <1>1 DEF Graph
  <2>2. ASSUME NEW e \in Env, AllClusters(e)
        PROVE  /\ reader'.start = primary.live /\ reader'.then = primary.live
               /\ reader'.todo = {} /\ reader'.st = <<>> /\ reader'.visited = {}
               /\ reader'.found = {} /\ reader' \in Reader
    BY <1>1, <2>1, <2>2, NodeNames DEF AllClusters, Idle, Reader
  <2>3. ASSUME FindOrphanedNodes
        PROVE  /\ reader'.start = primary.live /\ reader'.then = primary.live
               /\ reader'.todo = {} /\ reader'.st = <<>> /\ reader'.visited = {}
               /\ reader'.found = {} /\ reader' \in Reader
    BY <1>1, <2>1, <2>3 DEF FindOrphanedNodes, Idle, Reader
  <2> QED
    BY <2>2, <2>3
<1>5. Inv' /\ TypesFit' /\ primary' = primary
  BY <1>2, GraphsStay
<1>6. Range(reader'.st) = {}
  BY <1>4 DEF Range
<1>7. StillThere' /\ Places'
  BY <1>2, <1>3, <1>4, <1>5 DEF StillThere, Places
<1>8. Known'
  <2>1. \A n \in primary.live : primary.type[n] # "UNKNOWN"
    BY <1>1 DEF SearchInv, TypesFit, Graph
  <2> QED
    BY <1>4, <1>5, <1>6, <2>1 DEF Known
<1>9. Followed' /\ ClustersCounted' /\ EnvironmentsCounted'
  BY <1>3, <1>4, <1>6 DEF Followed, ClustersCounted, EnvironmentsCounted
<1> QED
  BY <1>4, <1>5, <1>7, <1>8, <1>9 DEF SearchInv

\* A call ends and keeps nothing.
LEMMA EndedKeeps ==
    ASSUME SearchInv, Ended
    PROVE  SearchInv'
<1>1. Inv' /\ TypesFit' /\ primary' = primary
  BY GraphsStay DEF Ended
<1>2. /\ reader' \in Reader /\ reader'.pc = "idle" /\ reader'.op = "none"
      /\ reader'.then = {} /\ reader'.todo = {} /\ reader'.start = {}
      /\ reader'.st = <<>> /\ reader'.visited = {}
      /\ keptEdges' = {} /\ keptLive' = {}
  BY DEF Ended, Idle, Reader
<1>3. Range(reader'.st) = {}
  BY <1>2 DEF Range
<1> QED
  BY <1>1, <1>2, <1>3 DEF SearchInv, StillThere, Places, Known, Followed, ClustersCounted,
                          EnvironmentsCounted

\* One step of the reader, whichever it is.
LEMMA StepKeeps == SearchInv /\ Step => SearchInv'
<1> SUFFICES ASSUME SearchInv, Step PROVE SearchInv'
  OBVIOUS
<1>a. primary \in Graph /\ reader \in Reader
  BY DEF SearchInv, Inv, TypeOK
<1>b. /\ reader.start \subseteq Node /\ reader.then \subseteq Node /\ reader.todo \subseteq Node
      /\ reader.st \in Seq(Node) /\ reader.visited \subseteq Node /\ reader.found \subseteq Node
      /\ primary.live \subseteq Node
  BY <1>a, ReaderFields DEF Graph
<1>c. ASSUME Reads
      PROVE  /\ Inv' /\ TypesFit' /\ primary' = primary
             /\ keptEdges' = keptEdges /\ keptLive' = keptLive
  BY <1>c, GraphsStay DEF Reads
<1>d. \A n \in primary.live : primary.type[n] # "UNKNOWN"
  BY <1>b DEF SearchInv, TypesFit
<1>1. ASSUME ReadEnvironments PROVE SearchInv'
  <2> DEFINE T == {n \in reader.then : primary.type[n] = "ENVIRONMENT"}
  <2>1. reader.pc = "envs" /\ Reads
        /\ reader' = [reader EXCEPT !.pc = "version", !.then = {}, !.todo = T]
    BY <1>1 DEF ReadEnvironments
  <2>2. T \subseteq reader.then /\ \A n \in reader.then : primary.type[n] = "ENVIRONMENT" => n \in T
    OBVIOUS
  <2> HIDE DEF T
  <2>3. /\ reader' \in Reader /\ reader'.pc = "version" /\ reader'.op = reader.op
        /\ reader'.start = reader.start /\ reader'.then = {} /\ reader'.todo = T
        /\ reader'.st = reader.st /\ reader'.visited = reader.visited
    BY <1>a, <1>b, <2>1, <2>2 DEF Reader
  <2>4. StillThere' /\ Places'
    BY <1>c, <2>1, <2>2, <2>3 DEF SearchInv, StillThere, Places
  <2>5. Known' /\ Followed'
    BY <1>c, <2>1, <2>3 DEF SearchInv, Known, Followed
  <2>6. ClustersCounted'
    BY <1>c, <2>1, <2>3 DEF SearchInv, ClustersCounted, Places
  <2>7. EnvironmentsCounted'
    BY <1>c, <2>1, <2>2, <2>3 DEF SearchInv, EnvironmentsCounted, StillThere
  <2> QED
    BY <1>c, <2>1, <2>3, <2>4, <2>5, <2>6, <2>7 DEF SearchInv
<1>2. ASSUME NextEnvironment PROVE SearchInv'
  <2>1. PICK e \in reader.todo :
          reader' = [reader EXCEPT !.pc = "root", !.root = e, !.todo = reader.todo \ {e},
                                   !.then = primary.live]
    BY <1>2 DEF NextEnvironment
  <2>2. reader.pc = "version" /\ Reads
    BY <1>2 DEF NextEnvironment
  <2>3. /\ reader' \in Reader /\ reader'.pc = "root" /\ reader'.op = reader.op
        /\ reader'.start = reader.start /\ reader'.then = primary.live
        /\ reader'.todo = reader.todo \ {e} /\ reader'.root = e
        /\ reader'.st = reader.st /\ reader'.visited = reader.visited
    BY <1>a, <1>b, <2>1 DEF Reader
  <2>4. StillThere' /\ Places'
    BY <1>b, <1>c, <2>2, <2>3 DEF SearchInv, StillThere, Places
  <2>5. Known' /\ Followed'
    BY <1>c, <1>d, <2>2, <2>3 DEF SearchInv, Known, Followed
  <2>6. ClustersCounted'
    BY <1>c, <2>2, <2>3 DEF SearchInv, ClustersCounted, Places
  <2>7. EnvironmentsCounted'
    BY <1>c, <2>2, <2>3 DEF SearchInv, EnvironmentsCounted
  <2> QED
    BY <1>c, <2>2, <2>3, <2>4, <2>5, <2>6, <2>7 DEF SearchInv
<1>3. ASSUME ListOrphans PROVE SearchInv'
  <2>1. /\ reader.pc = "version" /\ reader.todo = {} /\ Reads
        /\ reader' = [reader EXCEPT !.pc = "answer", !.found = primary.live \ reader.visited]
    BY <1>3 DEF ListOrphans
  <2>2. /\ reader' \in Reader /\ reader'.pc = "answer" /\ reader'.op = reader.op
        /\ reader'.start = reader.start /\ reader'.then = reader.then
        /\ reader'.todo = reader.todo /\ reader'.root = reader.root
        /\ reader'.st = reader.st /\ reader'.visited = reader.visited
        /\ reader'.found = primary.live \ reader.visited
    BY <1>a, <1>b, <2>1 DEF Reader
  <2>3. StillThere' /\ Places' /\ reader.op = "find_orphaned_nodes"
    BY <1>c, <2>1, <2>2 DEF SearchInv, StillThere, Places
  <2>4. Known' /\ Followed' /\ ClustersCounted'
    BY <1>c, <2>1, <2>2, <2>3 DEF SearchInv, Known, Followed, ClustersCounted
  <2>5. EnvironmentsCounted'
    BY <1>c, <2>1, <2>2, <2>3 DEF SearchInv, EnvironmentsCounted
  <2> QED
    BY <1>c, <2>1, <2>2, <2>3, <2>4, <2>5 DEF SearchInv
<1>4. ASSUME ReadRoot PROVE SearchInv'
  <2>1. /\ reader.pc = "root" /\ reader.root \in reader.then /\ Reads
        /\ reader' = Loaded(reader, reader.root, <<>>)
    BY <1>4 DEF ReadRoot
  <2>2. /\ reader.st = <<>> /\ <<>> \in Seq(Node) /\ reader.root \in Node
        /\ primary.type[reader.root] # "UNKNOWN"
    BY <1>b, <2>1 DEF SearchInv, Places, Known
  <2>3. Range(<<>>) = {}
    BY DEF Range
  <2> QED
    BY <2>1, <2>2, <2>3, LoadKeeps
<1>5. ASSUME ThrowNotFound \/ Answer PROVE SearchInv'
  BY <1>5, EndedKeeps DEF ThrowNotFound, Answer
<1>6. ASSUME ReadNull PROVE SearchInv'
  <2>1. /\ reader.pc = "root" /\ reader.op = "find_orphaned_nodes" /\ Reads
        /\ reader.root \notin reader.then
        /\ reader' = [reader EXCEPT !.pc = "crashed"]
    BY <1>6 DEF ReadNull
  <2>2. /\ reader' \in Reader /\ reader'.pc = "crashed" /\ reader'.op = reader.op
        /\ reader'.start = reader.start /\ reader'.then = reader.then
        /\ reader'.todo = reader.todo /\ reader'.root = reader.root
        /\ reader'.st = reader.st /\ reader'.visited = reader.visited
    BY <1>a, <2>1 DEF Reader
  <2>3. StillThere' /\ Places'
    BY <1>c, <2>1, <2>2 DEF SearchInv, StillThere, Places
  <2>4. Known' /\ Followed' /\ ClustersCounted'
    BY <1>c, <2>1, <2>2 DEF SearchInv, Known, Followed, ClustersCounted
  <2>5. EnvironmentsCounted'
    BY <1>c, <2>1, <2>2 DEF SearchInv, EnvironmentsCounted
  <2> QED
    BY <1>c, <2>1, <2>2, <2>3, <2>4, <2>5 DEF SearchInv
<1>7. ASSUME ReadNext PROVE SearchInv'
  <2>1. /\ reader.pc = "walk" /\ reader.st # <<>> /\ Reads
        /\ reader' = Loaded(reader, Last(reader.st), Front(reader.st))
    BY <1>7 DEF ReadNext
  <2>2. /\ Front(reader.st) \in Seq(Node) /\ Last(reader.st) \in Node
        /\ Range(reader.st) = Range(Front(reader.st)) \cup {Last(reader.st)}
    BY <1>b, <2>1, RangeOfTop
  <2>3. primary.type[Last(reader.st)] # "UNKNOWN"
    BY <2>2 DEF SearchInv, Known
  <2> QED
    BY <2>1, <2>2, <2>3, LoadKeeps
<1>8. ASSUME EndWalk PROVE SearchInv'
  <2>1. PICK pc \in {"answer", "version"} :
          /\ pc = "answer" <=> reader.op = "all_clusters"
          /\ reader' = [reader EXCEPT !.pc = pc]
    BY <1>8 DEF EndWalk
  <2>2. reader.pc = "walk" /\ reader.st = <<>> /\ Reads
    BY <1>8 DEF EndWalk
  <2>3. /\ reader' \in Reader /\ reader'.pc = pc /\ reader'.op = reader.op
        /\ reader'.start = reader.start /\ reader'.then = reader.then
        /\ reader'.todo = reader.todo /\ reader'.root = reader.root
        /\ reader'.st = reader.st /\ reader'.visited = reader.visited
        /\ reader'.found = reader.found
    BY <1>a, <2>1 DEF Reader
  <2>a. reader.op # "none"
    BY <2>2 DEF SearchInv, Places
  <2>4. StillThere' /\ Places'
    BY <1>c, <2>1, <2>2, <2>3, <2>a, <1>a DEF SearchInv, StillThere, Places, Reader
  <2>5. Known' /\ Followed' /\ ClustersCounted'
    BY <1>c, <2>1, <2>2, <2>3 DEF SearchInv, Known, Followed, ClustersCounted
  <2>6. EnvironmentsCounted'
    BY <1>c, <2>1, <2>2, <2>3 DEF SearchInv, EnvironmentsCounted
  <2> QED
    BY <1>c, <2>2, <2>3, <2>4, <2>5, <2>6 DEF SearchInv
<1> QED
  BY <1>1, <1>2, <1>3, <1>4, <1>5, <1>6, <1>7, <1>8 DEF Step

\* A call of the write API takes from what stayed what it removes, and gives no
\* node that the reader holds a type that it would have had to count.
LEMMA WriteKeeps == SearchInv /\ Write => SearchInv'
<1> SUFFICES ASSUME SearchInv, Write PROVE SearchInv'
  OBVIOUS
<1>1. /\ Next /\ reader' = reader
      /\ keptEdges' = keptEdges \cap primary'.edges
      /\ keptLive' = keptLive \cap primary'.live
  BY DEF Write
<1>2. Inv /\ TypesFit /\ primary \in Graph /\ reader \in Reader
  BY DEF SearchInv, Inv, TypeOK
<1>3. Inv'
  BY <1>1, <1>2, NextKeepsInv
<1>4. /\ TypesFit'
      /\ \A n \in Node : primary.type[n] # "UNKNOWN" => primary'.type[n] # "UNKNOWN"
      /\ \A n \in Node : n \in primary.live => primary'.type[n] = primary.type[n]
  BY <1>1, <1>2, TypesKept
<1>5. /\ reader.then \subseteq Node /\ reader.st \in Seq(Node) /\ reader.visited \subseteq Node
      /\ primary.live \subseteq Node
  BY <1>2, ReaderFields DEF Graph
<1>6. Range(reader.st) \subseteq Node
  BY <1>5 DEF Range
<1>7. StillThere'
  BY <1>1 DEF SearchInv, StillThere
<1>8. Places'
  BY <1>1 DEF SearchInv, Places
<1>9. Known'
  BY <1>1, <1>4, <1>5, <1>6 DEF SearchInv, Known
<1>10. Followed'
  BY <1>1 DEF SearchInv, Followed
<1>11. ClustersCounted'
  <2>1. ASSUME NEW n \in reader.visited, primary'.type[n] = "CLUSTER"
        PROVE  primary.type[n] = "CLUSTER"
    <3>1. n \in Node /\ n \in Cluster
      BY <1>4, <1>5, <2>1 DEF TypesFit
    <3>2. primary.type[n] # "UNKNOWN"
      BY <2>1 DEF SearchInv, Known
    <3>3. primary.type[n] \in Type
      BY <1>2, <3>1 DEF Graph
    <3> QED
      BY <1>2, <3>1, <3>2, <3>3, NodeNames DEF TypesFit, Type
  <2> QED
    BY <1>1, <2>1 DEF SearchInv, ClustersCounted
<1>12. EnvironmentsCounted'
  <2>1. \A e \in keptLive' : e \in keptLive /\ primary'.type[e] = primary.type[e]
    BY <1>1, <1>4, <1>5 DEF SearchInv, StillThere
  <2> QED
    BY <1>1, <2>1 DEF SearchInv, EnvironmentsCounted
<1> QED
  BY <1>1, <1>2, <1>3, <1>4, <1>7, <1>8, <1>9, <1>10, <1>11, <1>12 DEF SearchInv

\* No call is running at first.
LEMMA SearchInitInv == SearchInit => SearchInv
<1> SUFFICES ASSUME SearchInit PROVE SearchInv
  OBVIOUS
<1>1. Inv /\ TypesFit
  BY InitInv, InitTypesFit DEF SearchInit
<1>2. /\ reader \in Reader /\ reader.pc = "idle" /\ reader.op = "none"
      /\ reader.then = {} /\ reader.todo = {} /\ reader.start = {}
      /\ reader.st = <<>> /\ reader.visited = {}
      /\ keptEdges = {} /\ keptLive = {}
  BY DEF SearchInit, Idle, Reader
<1>3. Range(reader.st) = {}
  BY <1>2 DEF Range
<1> QED
  BY <1>1, <1>2, <1>3 DEF SearchInv, StillThere, Places, Known, Followed, ClustersCounted,
                          EnvironmentsCounted

\* A step of the reader or of a writer keeps the invariant.
LEMMA SearchNextKeeps == SearchInv /\ [SearchNext]_allVars => SearchInv'
<1> SUFFICES ASSUME SearchInv, [SearchNext]_allVars PROVE SearchInv'
  OBVIOUS
<1>1. ASSUME UNCHANGED allVars PROVE SearchInv'
  <2>1. UNCHANGED vars /\ reader' = reader /\ keptEdges' = keptEdges /\ keptLive' = keptLive
    BY <1>1 DEF allVars, searchVars
  <2>2. Inv' /\ TypesFit' /\ primary' = primary
    BY <2>1, GraphsStay
  <2>3. StillThere' /\ Places' /\ Known' /\ Followed'
    BY <2>1, <2>2 DEF SearchInv, StillThere, Places, Known, Followed
  <2>4. ClustersCounted' /\ EnvironmentsCounted'
    BY <2>1, <2>2 DEF SearchInv, ClustersCounted, EnvironmentsCounted
  <2> QED
    BY <2>1, <2>2, <2>3, <2>4 DEF SearchInv
<1> QED
  BY <1>1, BeginKeeps, StepKeeps, WriteKeeps DEF SearchNext

\* With an empty stack nothing that stayed leads out of what was visited.
LEMMA InvSees == SearchInv => KeptIsSeen
<1> SUFFICES ASSUME SearchInv PROVE KeptIsSeen
  OBVIOUS
<1>1. primary \in Graph /\ keptEdges \subseteq Node \X Node
  BY DEF SearchInv, Inv, TypeOK, StillThere, Graph
<1>2. ASSUME reader.pc = "answer", NEW S, S \subseteq reader.visited
      PROVE  Reached(keptEdges, S) \subseteq reader.visited
  <2>1. Range(reader.st) = {}
    BY <1>2 DEF SearchInv, Places, Range
  <2>2. \A e \in keptEdges : e[1] \in reader.visited => e[2] \in reader.visited
    <3>1. \A e \in keptEdges : e = <<e[1], e[2]>> /\ e[1] \in Node /\ e[2] \in Node
      BY <1>1
    <3> QED
      BY <2>1, <3>1 DEF SearchInv, Followed
  <2> DEFINE C == reader.visited
  <2> HIDE DEF C
  <2>3. S \subseteq C /\ \A e \in keptEdges : e[1] \in C => e[2] \in C
    BY <1>2, <2>2 DEF C
  <2>4. Reached(keptEdges, S) \subseteq C
    BY <2>3, ReachedWithin
  <2> QED
    BY <2>4 DEF C
<1>3. ASSUME reader.pc = "answer", reader.op = "all_clusters"
      PROVE  \A n \in Reached(keptEdges, {reader.root} \cap keptLive) :
                 primary.type[n] = "CLUSTER" => n \in reader.found
  <2> DEFINE S == {reader.root} \cap keptLive
  <2>1. S \subseteq reader.visited
    BY <1>3 DEF SearchInv, ClustersCounted
  <2> HIDE DEF S
  <2>2. Reached(keptEdges, S) \subseteq reader.visited
    BY <1>2, <1>3, <2>1
  <2>3. \A n \in reader.visited : primary.type[n] = "CLUSTER" => n \in reader.found
    BY <1>3 DEF SearchInv, ClustersCounted
  <2> QED
    BY <2>2, <2>3 DEF S
<1>4. ASSUME reader.pc = "answer", reader.op = "find_orphaned_nodes"
      PROVE  reader.found
              \cap Reached(keptEdges, {e \in keptLive : primary.type[e] = "ENVIRONMENT"}) = {}
  <2> DEFINE S == {e \in keptLive : primary.type[e] = "ENVIRONMENT"}
  <2>1. S \subseteq reader.visited
    BY <1>4 DEF SearchInv, EnvironmentsCounted
  <2> HIDE DEF S
  <2>2. Reached(keptEdges, S) \subseteq reader.visited
    BY <1>2, <1>4, <2>1
  <2>3. reader.found \cap reader.visited = {}
    BY <1>4 DEF SearchInv, EnvironmentsCounted
  <2> QED
    BY <2>2, <2>3 DEF S
<1>5. reader.pc = "crashed" => reader.root \in reader.start \ keptLive
  BY DEF SearchInv, Places
<1> QED
  BY <1>3, <1>4, <1>5 DEF KeptIsSeen

(***************************************************************************)
(* The reader has seen, or has on its stack, all that stayed next to what  *)
(* it visited, whatever calls committed between two of its reads.          *)
(***************************************************************************)
THEOREM SearchInvariance == SearchSpec => []SearchInv
BY SearchInitInv, SearchNextKeeps, PTL DEF SearchSpec

(***************************************************************************)
(* all_clusters and find_orphaned_nodes miss nothing that stayed as long   *)
(* as they ran, although they hold no lock (read_api.cpp:213-247,          *)
(* 966-1005).                                                              *)
(***************************************************************************)
THEOREM WhatStayedIsSeen == SearchSpec => []KeptIsSeen
BY SearchInvariance, InvSees, PTL

-----------------------------------------------------------------------------
(* The search down from an environment *)

\* f is the function that Visit defines, up to k.
VisitAt(f, g, types, e, k) ==
    f = [i \in 0..k |-> IF i = 0 THEN [st |-> <<e>>, visited |-> {}, found |-> <<>>]
                        ELSE VisitStep(g, types, f[i - 1])]

\* There is such a function.
LEMMA SomeVisit ==
    ASSUME NEW g, NEW types, NEW e, NEW N \in Nat
    PROVE  \E f : VisitAt(f, g, types, e, N)
<1> DEFINE Start == [st |-> <<e>>, visited |-> {}, found |-> <<>>]
           Good == {k \in 0..N : \E f : VisitAt(f, g, types, e, k)}
<1>1. 0 \in Good
  <2> DEFINE f == [i \in 0..0 |-> Start]
  <2>1. VisitAt(f, g, types, e, 0)
    BY DEF VisitAt
  <2> QED
    BY <2>1
<1>2. ASSUME NEW k \in 0..(N - 1), k \in Good PROVE k + 1 \in Good
  <2>1. PICK f : VisitAt(f, g, types, e, k)
    BY <1>2
  <2> DEFINE h == [j \in 0..(k + 1) |-> IF j = 0 THEN Start
                                        ELSE VisitStep(g, types, f[j - 1])]
  <2>2. \A j \in 0..k : f[j] = IF j = 0 THEN Start ELSE VisitStep(g, types, f[j - 1])
    BY <2>1, Zenon DEF VisitAt
  <2>3. \A j \in 0..k : h[j] = f[j]
    <3>1. 0..k \subseteq 0..(k + 1)
      OBVIOUS
    <3>2. \A j \in 0..k : h[j] = IF j = 0 THEN Start ELSE VisitStep(g, types, f[j - 1])
      BY <3>1, Zenon
    <3> QED
      BY <2>2, <3>2, Zenon
  <2>4. \A j \in 0..(k + 1) : j # 0 => j - 1 \in 0..k
    OBVIOUS
  <2>5. h = [j \in 0..(k + 1) |-> IF j = 0 THEN Start ELSE VisitStep(g, types, h[j - 1])]
    <3>1. \A j \in 0..(k + 1) : (IF j = 0 THEN Start ELSE VisitStep(g, types, f[j - 1]))
                                 = (IF j = 0 THEN Start ELSE VisitStep(g, types, h[j - 1]))
      BY <2>3, <2>4, Zenon
    <3> QED
      BY <3>1, Zenon
  <2>6. VisitAt(h, g, types, e, k + 1)
    BY <2>5, Zenon DEF VisitAt
  <2>7. k + 1 \in 0..N
    OBVIOUS
  <2> QED
    BY <2>6, <2>7
<1> HIDE DEF Good
<1>3. \A k \in 0..N : k \in Good
  BY <1>1, <1>2, UpTo
<1>4. N \in Good
  BY <1>3
<1> QED
  BY <1>4 DEF Good

\* The number of rounds.
LEMMA RoundsNat ==
    /\ Cardinality(Node) \in Nat /\ Rounds \in Nat
    /\ Rounds >= Cardinality(Node) * (Cardinality(Node) + 1) + 1
<1> DEFINE c == Cardinality(Node)
<1>1. c \in Nat
  BY LookupAssumption, FS_CardinalityType
<1> HIDE DEF c
<1>2. (c + 1) * (c + 1) \in Nat /\ (c + 1) * (c + 1) = c * (c + 1) + (c + 1)
  BY <1>1
<1>3. c * (c + 1) \in Nat
  BY <1>1
<1>4. (c + 1) * (c + 1) >= c * (c + 1) + 1
  BY <1>1, <1>2, <1>3
<1> QED
  BY <1>1, <1>2, <1>4 DEF c, Rounds

\* Visit gives the last value of f, round by round.
LEMMA VisitIs ==
    ASSUME NEW g, NEW types, NEW e
    PROVE  \E f : /\ f[0] = [st |-> <<e>>, visited |-> {}, found |-> <<>>]
                  /\ \A i \in 1..Rounds : f[i] = VisitStep(g, types, f[i - 1])
                  /\ Visit(g, types, e) = f[Rounds]
<1> DEFINE Start == [st |-> <<e>>, visited |-> {}, found |-> <<>>]
           f == CHOOSE f : VisitAt(f, g, types, e, Rounds)
<1>0. Rounds \in Nat
  BY RoundsNat
<1>1. VisitAt(f, g, types, e, Rounds)
  BY <1>0, SomeVisit
<1>2. Visit(g, types, e) = f[Rounds]
  BY Zenon DEF Visit, VisitAt
<1> HIDE DEF f
<1>3. \A i \in 0..Rounds : f[i] = IF i = 0 THEN Start ELSE VisitStep(g, types, f[i - 1])
  BY <1>1, Zenon DEF VisitAt
<1>4. 0 \in 0..Rounds /\ \A i \in 1..Rounds : i \in 0..Rounds /\ i # 0
  BY <1>0
<1>5. f[0] = Start /\ \A i \in 1..Rounds : f[i] = VisitStep(g, types, f[i - 1])
  BY <1>3, <1>4, Zenon
<1> QED
  BY <1>2, <1>5

\* What a round of the search leaves true: it holds only what is reached, has
\* the first node, and every edge from a visited node leads to one it holds.
VisitOK(g, types, e, s) ==
    /\ s \in [st : Seq(Node), visited : SUBSET Node, found : Seq(Node)]
    /\ s.visited \cup Range(s.st) \subseteq Reached(g.edges, {e})
    /\ e \in s.visited \cup Range(s.st)
    /\ \A d \in g.edges : d[1] \in s.visited => d[2] \in s.visited \cup Range(s.st)
    /\ Range(s.found) = {v \in s.visited : g.type[v] \in types}

\* What is left to do: every node that is not visited may push all others.
VisitLeft(s) == Cardinality(Node \ s.visited) * (Cardinality(Node) + 1) + Len(s.st)

\* Products, as far as they are needed.
LEMMA Factor ==
    ASSUME NEW a \in Nat, NEW b \in Nat, a > 0
    PROVE  (a - 1) * b = a * b - b /\ (a - 1) * b \in Nat /\ a * b \in Nat
<1>1. PICK c \in Nat : a = c + 1
  <2>1. a - 1 \in Nat /\ a = (a - 1) + 1
    OBVIOUS
  <2> QED
    BY <2>1
<1>2. (c + 1) * b = c * b + b /\ c * b \in Nat
  OBVIOUS
<1> QED
  BY <1>1, <1>2

\* All of a stack but its top.
LEMMA FrontIs ==
    ASSUME NEW S, NEW s \in Seq(S), s # <<>>
    PROVE  /\ Front(s) \in Seq(S) /\ Len(s) \in Nat /\ Len(s) > 0
           /\ Len(Front(s)) = Len(s) - 1 /\ Len(Front(s)) \in Nat
           /\ \A i \in 1..(Len(s) - 1) : Front(s)[i] = s[i]
<1>1. Len(s) \in Nat /\ Len(s) > 0 /\ DOMAIN s = 1..Len(s)
  OBVIOUS
<1>2. /\ Front(s) \in Seq(S) /\ Len(Front(s)) = Len(s) - 1
      /\ \A i \in 1..(Len(s) - 1) : Front(s)[i] = s[i]
  BY <1>1 DEF Front
<1> QED
  BY <1>1, <1>2

\* A round of the search.
LEMMA VisitStepOK ==
    ASSUME NEW g, g.edges \subseteq Node \X Node, NEW types, NEW e \in Node, NEW s,
           VisitOK(g, types, e, s)
    PROVE  /\ VisitOK(g, types, e, VisitStep(g, types, s))
           /\ VisitLeft(s) \in Nat
           /\ s.st # <<>> => VisitLeft(VisitStep(g, types, s)) < VisitLeft(s)
<1> DEFINE R == Reached(g.edges, {e})
           t == VisitStep(g, types, s)
           c == Cardinality(Node)
           u(x) == Cardinality(Node \ x)
<1>1. /\ s.st \in Seq(Node) /\ s.visited \subseteq Node /\ s.found \in Seq(Node)
      /\ s = [st |-> s.st, visited |-> s.visited, found |-> s.found]
  BY DEF VisitOK
<1>2. /\ s.visited \cup Range(s.st) \subseteq R
      /\ e \in s.visited \cup Range(s.st)
      /\ \A d \in g.edges : d[1] \in s.visited => d[2] \in s.visited \cup Range(s.st)
      /\ Range(s.found) = {v \in s.visited : g.type[v] \in types}
  BY DEF VisitOK
<1>3. R \subseteq Node /\ Shut(g.edges, R)
  BY ReachedIsShut
<1>4. c \in Nat /\ \A x : IsFiniteSet(Node \ x) /\ u(x) \in Nat
  BY LookupAssumption, FS_CardinalityType, FS_Subset
<1>5. \A a \in Nat : a * (c + 1) \in Nat
  BY <1>4
<1>6. VisitLeft(s) \in Nat
  <2>1. u(s.visited) * (c + 1) \in Nat
    BY <1>4, <1>5
  <2>2. Len(s.st) \in Nat
    BY <1>1
  <2> DEFINE p == u(s.visited) * (c + 1)
  <2>3. VisitLeft(s) = p + Len(s.st) /\ p \in Nat
    BY <2>1 DEF VisitLeft
  <2> HIDE DEF p
  <2> QED
    BY <2>2, <2>3
<1> HIDE DEF R, t
<1>7. CASE s.st = <<>>
  <2>1. t = s
    BY <1>7 DEF VisitStep, t
  <2> QED
    BY <1>6, <1>7, <2>1 DEF t
<1>8. CASE s.st # <<>>
  <2> DEFINE v == Last(s.st)
             E == forward_edges(g, v)
             F == Front(s.st)
  <2>1. /\ F \in Seq(Node) /\ v \in Node
        /\ Range(s.st) = Range(F) \cup {v}
    BY <1>1, <1>8, RangeOfTop
  <2>2. Len(F) = Len(s.st) - 1 /\ Len(s.st) \in Nat /\ Len(F) \in Nat
    BY <1>1, <1>8, FrontIs
  <2>3. /\ E \in Seq(Node) /\ Len(E) <= c
        /\ Range(E) = {m \in Node : <<v, m>> \in g.edges}
    BY <2>1, Successors
  <2> HIDE DEF v, E, F
  <2>4. CASE v \in s.visited
    <3>1. t = [s EXCEPT !.st = F]
      BY <1>8, <2>4 DEF VisitStep, t, v, F
    <3>2. t.st = F /\ t.visited = s.visited /\ t.found = s.found
          /\ t \in [st : Seq(Node), visited : SUBSET Node, found : Seq(Node)]
      BY <1>1, <2>1, <3>1
    <3>3. t.visited \cup Range(t.st) = s.visited \cup Range(s.st)
      BY <2>1, <2>4, <3>2
    <3>4. VisitOK(g, types, e, t)
      BY <1>2, <3>2, <3>3 DEF VisitOK, R
    <3>5. VisitLeft(t) < VisitLeft(s)
      <4>1. u(s.visited) * (c + 1) \in Nat
        BY <1>4, <1>5
      <4> QED
        BY <2>2, <3>2, <4>1 DEF VisitLeft
    <3> QED
      BY <1>6, <3>4, <3>5 DEF t
  <2>5. CASE v \notin s.visited
    <3> DEFINE W == IF g.type[v] \in types THEN Append(s.found, v) ELSE s.found
    <3>1. t = [st |-> F \o E, visited |-> s.visited \cup {v}, found |-> W]
      BY <1>8, <2>5 DEF VisitStep, t, v, F, E
    <3>2. F \o E \in Seq(Node) /\ Range(F \o E) = Range(F) \cup Range(E)
      BY <2>1, <2>3, RangeOfBoth
    <3>3. Len(F \o E) = Len(F) + Len(E)
      BY <2>1, <2>3
    <3>4. W \in Seq(Node) /\ Range(W) = {n \in s.visited \cup {v} : g.type[n] \in types}
      <4>1. <<v>> \in Seq(Node) /\ Range(<<v>>) = {v} /\ Append(s.found, v) = s.found \o <<v>>
        BY <1>1, <2>1 DEF Range
      <4>2. s.found \o <<v>> \in Seq(Node) /\ Range(s.found \o <<v>>) = Range(s.found) \cup {v}
        <5> DEFINE one == <<v>>
                   w == s.found
        <5>1. one \in Seq(Node) /\ w \in Seq(Node) /\ Range(one) = {v}
          BY <1>1, <4>1
        <5> HIDE DEF one, w
        <5>2. w \o one \in Seq(Node) /\ Range(w \o one) = Range(w) \cup Range(one)
          BY <5>1, RangeOfBoth
        <5> QED
          BY <5>1, <5>2 DEF one, w
      <4> QED
        BY <1>1, <1>2, <4>1, <4>2
    <3> HIDE DEF W
    <3>5. /\ t.st = F \o E /\ t.visited = s.visited \cup {v} /\ t.found = W
          /\ t \in [st : Seq(Node), visited : SUBSET Node, found : Seq(Node)]
      BY <1>1, <2>1, <3>1, <3>2, <3>4
    <3>6. Range(t.st) = Range(F) \cup Range(E)
      BY <3>2, <3>5
    <3>7. Range(E) \subseteq R
      <4>1. v \in R
        BY <1>2, <2>1
      <4>2. \A m : <<v, m>> \in g.edges => m \in R
        <5> TAKE m
        <5> HAVE <<v, m>> \in g.edges
        <5>1. <<v, m>>[1] = v /\ <<v, m>>[2] = m
          OBVIOUS
        <5> QED
          BY <1>3, <4>1, <5>1 DEF Shut
      <4> QED
        BY <2>3, <4>2
    <3>8. t.visited \cup Range(t.st) \subseteq R /\ e \in t.visited \cup Range(t.st)
      BY <1>2, <2>1, <3>5, <3>6, <3>7
    <3>9. ASSUME NEW d \in g.edges, d[1] \in t.visited PROVE d[2] \in t.visited \cup Range(t.st)
      <4>1. CASE d[1] \in s.visited
        BY <1>2, <2>1, <3>5, <3>6, <4>1
      <4>2. CASE d[1] = v
        <5>1. d = <<v, d[2]>> /\ d[2] \in Node
          BY <4>2
        <5> QED
          BY <2>3, <3>6, <5>1
      <4> QED
        BY <3>5, <3>9, <4>1, <4>2
    <3>10. VisitOK(g, types, e, t)
      BY <3>4, <3>5, <3>8, <3>9 DEF VisitOK, R
    <3>11. VisitLeft(t) < VisitLeft(s)
      <4>1. u(t.visited) = u(s.visited) - 1 /\ u(s.visited) > 0
        <5>1. Node \ t.visited = (Node \ s.visited) \ {v} /\ v \in Node \ s.visited
          BY <2>1, <2>5, <3>5
        <5>2. Cardinality((Node \ s.visited) \ {v}) = Cardinality(Node \ s.visited) - 1
          BY <1>4, <5>1, FS_RemoveElement
        <5>3. u(t.visited) \in Nat /\ u(s.visited) \in Nat
          BY <1>4
        <5>4. u(t.visited) = u(s.visited) - 1
          BY <5>1, <5>2
        <5> HIDE DEF u
        <5> QED
          BY <5>3, <5>4
      <4> DEFINE a == u(s.visited)
                 b == c + 1
      <4>2. a \in Nat /\ b \in Nat /\ a > 0
        <5>1. a \in Nat /\ c \in Nat /\ a > 0
          BY <1>4, <4>1
        <5> HIDE DEF a, c
        <5> QED
          BY <5>1
      <4>3. VisitLeft(s) = a * b + Len(s.st)
        BY DEF VisitLeft
      <4>4. VisitLeft(t) = (a - 1) * b + Len(t.st)
        BY <4>1 DEF VisitLeft
      <4>5. Len(t.st) = Len(F) + Len(E) /\ Len(E) \in Nat
        BY <2>3, <3>3, <3>5
      <4>6. b > Len(E)
        BY <1>4, <2>3, <4>5
      <4> HIDE DEF a, b
      <4>7. (a - 1) * b = a * b - b /\ a * b \in Nat
        BY <4>2, Factor
      <4> DEFINE p == a * b
      <4>8. VisitLeft(s) = p + Len(s.st) /\ VisitLeft(t) = (p - b) + Len(t.st) /\ p \in Nat
        BY <4>3, <4>4, <4>7
      <4> HIDE DEF p
      <4> QED
        BY <2>2, <4>2, <4>5, <4>6, <4>8
    <3> QED
      BY <1>6, <3>10, <3>11 DEF t
  <2> QED
    BY <2>4, <2>5
<1> QED
  BY <1>7, <1>8

\* The search visits all that is reached from its first node, and lists those of
\* the types it looks for.
LEMMA VisitReaches ==
    ASSUME NEW g, g.edges \subseteq Node \X Node, NEW types, NEW e \in Node
    PROVE  /\ Visit(g, types, e).visited = Reached(g.edges, {e})
           /\ Visit(g, types, e).found \in Seq(Node)
           /\ \A v : v \in Range(Visit(g, types, e).found) <=>
                       v \in Reached(g.edges, {e}) /\ g.type[v] \in types
<1> DEFINE c == Cardinality(Node)
           R == Reached(g.edges, {e})
<1>1. PICK f : /\ f[0] = [st |-> <<e>>, visited |-> {}, found |-> <<>>]
               /\ \A i \in 1..Rounds : f[i] = VisitStep(g, types, f[i - 1])
               /\ Visit(g, types, e) = f[Rounds]
  BY VisitIs
<1>2. c \in Nat /\ Rounds \in Nat /\ Rounds >= c * (c + 1) + 1 /\ c * (c + 1) \in Nat
  <2>1. \A a \in Nat : a * (a + 1) \in Nat
    OBVIOUS
  <2> QED
    BY <2>1, RoundsNat
<1> DEFINE Good == {i \in 0..Rounds : /\ VisitOK(g, types, e, f[i])
                                      /\ f[i].st = <<>> \/ VisitLeft(f[i]) <= Rounds - i}
<1>3. 0 \in Good
  <2>1. e \in R
    BY ReachedIsShut
  <2>2. f[0].st = <<e>> /\ f[0].visited = {} /\ f[0].found = <<>>
    BY <1>1
  <2>3. Range(<<e>>) = {e} /\ Range(<<>>) = {} /\ Len(<<e>>) = 1
    BY DEF Range
  <2>4. VisitOK(g, types, e, f[0])
    BY <1>1, <2>1, <2>2, <2>3 DEF VisitOK
  <2>5. VisitLeft(f[0]) = c * (c + 1) + 1
    <3>1. Node \ {} = Node
      OBVIOUS
    <3> QED
      BY <2>2, <2>3, <3>1 DEF VisitLeft
  <2> HIDE DEF c
  <2>6. VisitLeft(f[0]) <= Rounds - 0 /\ 0 \in 0..Rounds
    BY <1>2, <2>5
  <2> QED
    BY <2>4, <2>6
<1>4. ASSUME NEW i \in 0..(Rounds - 1), i \in Good PROVE i + 1 \in Good
  <2>1. i + 1 \in 1..Rounds /\ i + 1 \in 0..Rounds /\ (i + 1) - 1 = i
    BY <1>2
  <2>2. f[i + 1] = VisitStep(g, types, f[i])
    BY <1>1, <2>1
  <2>3. VisitOK(g, types, e, f[i]) /\ (f[i].st = <<>> \/ VisitLeft(f[i]) <= Rounds - i)
    BY <1>4
  <2> DEFINE s == f[i]
             t == f[i + 1]
  <2>4. VisitOK(g, types, e, s) /\ t = VisitStep(g, types, s)
    BY <2>2, <2>3
  <2> HIDE DEF s, t
  <2>5. /\ VisitOK(g, types, e, t) /\ VisitLeft(s) \in Nat
        /\ s.st # <<>> => VisitLeft(t) < VisitLeft(s)
    BY <2>4, VisitStepOK
  <2>6. VisitOK(g, types, e, t) => VisitLeft(t) \in Nat
    BY VisitStepOK
  <2>7. s.st = <<>> => t.st = <<>>
    BY <2>4 DEF VisitStep
  <2>8. t.st = <<>> \/ VisitLeft(t) <= Rounds - (i + 1)
    BY <1>2, <2>3, <2>5, <2>6, <2>7 DEF s
  <2> QED
    BY <2>1, <2>5, <2>8 DEF t
<1> HIDE DEF Good
<1>5. \A i \in 0..Rounds : i \in Good
  BY <1>2, <1>3, <1>4, UpTo
<1>6. Rounds \in Good
  BY <1>2, <1>5
<1> DEFINE s == f[Rounds]
<1>7. VisitOK(g, types, e, s) /\ (s.st = <<>> \/ VisitLeft(s) <= 0)
  BY <1>2, <1>6 DEF Good
<1> HIDE DEF s
<1>8. s.st = <<>>
  <2>1. ASSUME s.st # <<>> PROVE FALSE
    <3>1. VisitLeft(VisitStep(g, types, s)) < VisitLeft(s) /\ VisitLeft(s) \in Nat
      BY <1>7, <2>1, VisitStepOK
    <3>2. VisitLeft(VisitStep(g, types, s)) \in Nat
      <4>1. VisitOK(g, types, e, VisitStep(g, types, s))
        BY <1>7, VisitStepOK
      <4> DEFINE t == VisitStep(g, types, s)
      <4>2. VisitOK(g, types, e, t)
        BY <4>1
      <4> HIDE DEF t
      <4>3. VisitLeft(t) \in Nat
        BY <4>2, VisitStepOK
      <4> QED
        BY <4>3 DEF t
    <3> QED
      BY <1>7, <2>1, <3>1, <3>2
  <2> QED
    BY <2>1
<1>9. Range(s.st) = {}
  BY <1>8 DEF Range
<1>10. /\ s.visited \subseteq R /\ e \in s.visited
       /\ \A d \in g.edges : d[1] \in s.visited => d[2] \in s.visited
       /\ Range(s.found) = {v \in s.visited : g.type[v] \in types}
       /\ s.found \in Seq(Node)
  BY <1>7, <1>9 DEF VisitOK
<1>11. R \subseteq s.visited
  <2> DEFINE C == s.visited
             S == {e}
             E == g.edges
  <2>1. S \subseteq C /\ \A d \in E : d[1] \in C => d[2] \in C
    BY <1>10
  <2> HIDE DEF C, S, E
  <2>2. Reached(E, S) \subseteq C
    BY <2>1, ReachedWithin
  <2> QED
    BY <2>2 DEF C, S, E
<1>12. s.visited = R
  BY <1>10, <1>11
<1>13. \A v : v \in Range(s.found) <=> v \in R /\ g.type[v] \in types
  BY <1>10, <1>12
<1> HIDE DEF R
<1> QED
  BY <1>1, <1>10, <1>12, <1>13 DEF s, R

-----------------------------------------------------------------------------
(* The sort of dependencies: the stack *)

\* The dependencies that count.
Dep == {d \in dependency.edges : dependency.type[d[1]] # "HOST"}

Needs(v) == {m \in Node : <<v, m>> \in Dep}

\* Only clusters and hosts that are there have dependencies.
DependencyTyped ==
    \A d \in dependency.edges :
        d[1] \in dependency.live /\ dependency.type[d[1]] \in {"CLUSTER", "HOST"}

Frames == [v : Node, out : Seq(Node)]

\* A new frame has all that its node needs.
LEMMA FrameIs ==
    ASSUME dependency \in Graph, DependencyTyped, NEW v \in Node
    PROVE  /\ Frame(dependency, v) \in Frames /\ Frame(dependency, v).v = v
           /\ Range(Frame(dependency, v).out) = Needs(v)
           /\ Len(Frame(dependency, v).out) <= Cardinality(Node)
<1> DEFINE E == forward_edges(dependency, v)
           f == Frame(dependency, v)
<1>1. /\ E \in Seq(Node) /\ Len(E) <= Cardinality(Node)
      /\ Range(E) = {m \in Node : <<v, m>> \in dependency.edges}
  BY Successors
<1>2. Cardinality(Node) \in Nat
  BY RoundsNat
<1>3. f = [v |-> v, out |-> IF dependency.type[v] \in {"CLUSTER", "ENVIRONMENT"} THEN E
                            ELSE <<>>]
  BY DEF Frame
<1> HIDE DEF E, f
<1>4. ASSUME NEW m \in Node, <<v, m>> \in dependency.edges
      PROVE  dependency.type[v] \in {"CLUSTER", "HOST"}
  <2>1. <<v, m>>[1] = v
    OBVIOUS
  <2> QED
    BY <1>4, <2>1 DEF DependencyTyped
<1>5. \A m \in Node : <<v, m>> \in Dep <=>
            <<v, m>> \in dependency.edges /\ dependency.type[v] # "HOST"
  <2>1. \A m : <<v, m>>[1] = v
    OBVIOUS
  <2> QED
    BY <2>1 DEF Dep
<1>6. CASE dependency.type[v] \in {"CLUSTER", "ENVIRONMENT"}
  <2>1. f.out = E /\ f.v = v /\ f \in Frames
    BY <1>1, <1>3, <1>6 DEF Frames
  <2>2. Needs(v) = Range(E)
    BY <1>1, <1>5, <1>6 DEF Needs
  <2> QED
    BY <1>1, <2>1, <2>2 DEF f
<1>7. CASE dependency.type[v] \notin {"CLUSTER", "ENVIRONMENT"}
  <2>1. f.out = <<>> /\ f.v = v /\ f \in Frames
    BY <1>3, <1>7 DEF Frames
  <2>2. Needs(v) = {}
    BY <1>4, <1>5, <1>7 DEF Needs
  <2>3. Range(<<>>) = {} /\ Len(<<>>) = 0
    BY DEF Range
  <2> QED
    BY <1>2, <2>1, <2>2, <2>3 DEF f
<1> QED
  BY <1>6, <1>7

\* The names on the stack.
On(st) == {st[i].v : i \in 1..Len(st)}

\* They are what is looked through for a cycle.
LEMMA OnIsNames ==
    ASSUME NEW st \in Seq(Frames)
    PROVE  Range(Names(st)) = On(st)
<1>1. DOMAIN st = 1..Len(st)
  OBVIOUS
<1> QED
  BY <1>1 DEF Names, Range, On

\* The next edge is taken from the last frame.
LEMMA PoppedIs ==
    ASSUME NEW st \in Seq(Frames), st # <<>>, Last(st).out # <<>>
    PROVE  LET n == Len(st)
               p == Popped(st)
               e == Last(Last(st).out)
           IN  /\ n \in Nat /\ n > 0 /\ p \in Seq(Frames) /\ Len(p) = n
               /\ Last(st) = st[n] /\ e \in Node
               /\ \A i \in 1..n : st[i] \in Frames /\ p[i] \in Frames /\ p[i].v = st[i].v
               /\ \A i \in 1..(n - 1) : p[i] = st[i]
               /\ Range(st[n].out) = Range(p[n].out) \cup {e}
               /\ Len(p[n].out) = Len(st[n].out) - 1 /\ Len(st[n].out) \in Nat
               /\ Len(st[n].out) > 0
<1> DEFINE n == Len(st)
           p == Popped(st)
           f == st[n]
           h == [v |-> f.v, out |-> Front(f.out)]
<1>1. n \in Nat /\ n > 0 /\ DOMAIN st = 1..n /\ \A i \in 1..n : st[i] \in Frames
  OBVIOUS
<1>2. n \in 1..n
  BY <1>1
<1>3. f \in Frames /\ Last(st) = f
  BY <1>1, <1>2 DEF Last
<1>4. f.out \in Seq(Node) /\ f.v \in Node /\ f.out # <<>> /\ f = [v |-> f.v, out |-> f.out]
  BY <1>3 DEF Frames
<1>5. p = [st EXCEPT ![n] = [f EXCEPT !.out = Front(f.out)]]
  BY <1>1, <1>2 DEF Popped
<1> HIDE DEF f, p
<1>6. [f EXCEPT !.out = Front(f.out)] = h
  BY <1>4
<1>7. /\ Front(f.out) \in Seq(Node) /\ Last(f.out) \in Node
      /\ Range(f.out) = Range(Front(f.out)) \cup {Last(f.out)}
  BY <1>4, RangeOfTop
<1>8. /\ Len(f.out) \in Nat /\ Len(f.out) > 0 /\ Len(Front(f.out)) = Len(f.out) - 1
  BY <1>4, FrontIs
<1>9. h \in Frames /\ h.v = f.v /\ h.out = Front(f.out)
  BY <1>4, <1>7 DEF Frames
<1> HIDE DEF h
<1>10. p = [st EXCEPT ![n] = h]
  BY <1>5, <1>6
<1>11. p \in Seq(Frames) /\ Len(p) = n /\ p[n] = h /\ \A i \in 1..(n - 1) : p[i] = st[i]
  <2>1. p = [i \in 1..n |-> IF i = n THEN h ELSE st[i]]
    BY <1>1, <1>10
  <2>2. \A i \in 1..n : (IF i = n THEN h ELSE st[i]) \in Frames
    BY <1>1, <1>9
  <2> HIDE DEF n
  <2>3. p \in Seq(Frames) /\ Len(p) = n
    BY <1>1, <2>1, <2>2
  <2>4. \A i \in 1..n : p[i] = IF i = n THEN h ELSE st[i]
    BY <2>1
  <2> QED
    BY <1>1, <1>2, <2>3, <2>4
<1>12. \A i \in 1..n : p[i] \in Frames /\ p[i].v = st[i].v
  <2> TAKE i \in 1..n
  <2>1. CASE i = n
    BY <1>9, <1>11, <2>1 DEF f
  <2>2. CASE i # n
    <3>1. i \in 1..(n - 1)
      <4>1. n \in Nat
        BY <1>1
      <4> HIDE DEF n
      <4> QED
        BY <2>2, <4>1
    <3> QED
      BY <1>1, <1>11, <3>1
  <2> QED
    BY <2>1, <2>2
<1> QED
  BY <1>1, <1>3, <1>7, <1>8, <1>9, <1>11, <1>12 DEF f, p

\* What is on the stack: a path of dependencies from the root that meets no node
\* twice and none that was visited, unless the root was.  What a node of it needs
\* is visited, next on the stack, or left to look at.
StackOK(R, root, st, visited) ==
    /\ st \in Seq(Frames)
    /\ \A i \in 1..Len(st) :
          /\ st[i].v \in R
          /\ Range(st[i].out) \subseteq Needs(st[i].v)
          /\ Len(st[i].out) <= Cardinality(Node)
          /\ \A m \in Needs(st[i].v) :
                \/ m \in Range(st[i].out) \cup visited
                \/ i < Len(st) /\ m = st[i + 1].v
    /\ \A i \in 1..(Len(st) - 1) : st[i + 1].v \in Needs(st[i].v)
    /\ \A i, j \in 1..Len(st) : st[i].v = st[j].v => i = j
    /\ IF st = <<>> THEN root \in visited ELSE st[1].v = root
    /\ IF root \in visited THEN Len(st) <= 1
       ELSE \A i \in 1..Len(st) : st[i].v \notin visited

\* What is sorted so far is what was visited, each node once and after all that it
\* needs.
SortedOK(sorted, visited) ==
    /\ sorted \in Seq(Node)
    /\ Range(sorted) = visited
    /\ \A i, j \in 1..Len(sorted) : sorted[i] = sorted[j] => i = j
    /\ \A i \in 1..Len(sorted) : \A m \in Needs(sorted[i]) :
          \E j \in 1..(i - 1) : sorted[j] = m

\* Some node of R is reached from what it needs.
Cyclic(R) == \E n \in R : n \in Reached(Dep, Needs(n))

\* One that is finished comes off the stack.
LEMMA StackShrinks ==
    ASSUME NEW R, NEW root, NEW st, NEW visited, StackOK(R, root, st, visited),
           st # <<>>, root \notin visited, Last(st).out = <<>>
    PROVE  /\ StackOK(R, root, Front(st), visited \cup {Last(st).v})
           /\ Last(st).v \in R /\ Last(st).v \in Node /\ Last(st).v \notin visited
           /\ Needs(Last(st).v) \subseteq visited
           /\ On(st) = On(Front(st)) \cup {Last(st).v}
<1> DEFINE n == Len(st)
           t == Front(st)
           v == Last(st).v
           W == visited \cup {v}
<1>1. /\ t \in Seq(Frames) /\ n \in Nat /\ n > 0 /\ Len(t) = n - 1 /\ Len(t) \in Nat
      /\ \A i \in 1..(n - 1) : t[i] = st[i]
  BY FrontIs DEF StackOK
<1>2. Last(st) = st[n] /\ n \in 1..n
  BY <1>1 DEF Last
<1>3. st[n] \in Frames
  BY <1>2 DEF StackOK
<1>4. /\ \A i \in 1..n : /\ st[i].v \in R
                         /\ Range(st[i].out) \subseteq Needs(st[i].v)
                         /\ Len(st[i].out) <= Cardinality(Node)
                         /\ \A m \in Needs(st[i].v) :
                               \/ m \in Range(st[i].out) \cup visited
                               \/ i < n /\ m = st[i + 1].v
      /\ \A i \in 1..(n - 1) : st[i + 1].v \in Needs(st[i].v)
      /\ \A i, j \in 1..n : st[i].v = st[j].v => i = j
      /\ st[1].v = root
      /\ \A i \in 1..n : st[i].v \notin visited
  BY DEF StackOK
<1> HIDE DEF n, t
<1>5. v = st[n].v /\ v \in Node /\ v \in R /\ v \notin visited
  BY <1>2, <1>3, <1>4 DEF Frames
<1>6. Needs(v) \subseteq visited
  <2>1. st[n].out = <<>>
    BY <1>2
  <2>2. Range(st[n].out) = {}
    BY <2>1 DEF Range
  <2> QED
    BY <1>1, <1>2, <1>4, <1>5, <2>2
<1>7. \A i \in 1..(n - 1) : i \in 1..n /\ i # n
  BY <1>1
<1>8. ASSUME NEW i \in 1..(n - 1)
      PROVE  /\ t[i].v \in R
             /\ Range(t[i].out) \subseteq Needs(t[i].v)
             /\ Len(t[i].out) <= Cardinality(Node)
             /\ \A m \in Needs(t[i].v) :
                   \/ m \in Range(t[i].out) \cup W
                   \/ i < n - 1 /\ m = t[i + 1].v
  <2>1. t[i] = st[i] /\ i \in 1..n
    BY <1>1, <1>7
  <2>2. ASSUME NEW m \in Needs(st[i].v)
        PROVE  m \in Range(st[i].out) \cup W \/ (i < n - 1 /\ m = t[i + 1].v)
    <3>1. CASE m \in Range(st[i].out) \cup visited
      BY <3>1
    <3>2. CASE i < n /\ m = st[i + 1].v
      <4>1. CASE i + 1 = n
        BY <1>5, <3>2, <4>1
      <4>2. CASE i + 1 # n
        <5>1. i + 1 \in 1..(n - 1) /\ i < n - 1
          BY <1>1, <3>2, <4>2
        <5> QED
          BY <1>1, <3>2, <5>1
      <4> QED
        BY <4>1, <4>2
    <3> QED
      BY <1>4, <2>1, <3>1, <3>2
  <2> QED
    BY <1>4, <2>1, <2>2
<1>9. \A i \in 1..((n - 1) - 1) : t[i + 1].v \in Needs(t[i].v)
  <2> TAKE i \in 1..((n - 1) - 1)
  <2>1. i \in 1..(n - 1) /\ i + 1 \in 1..(n - 1)
    BY <1>1
  <2> QED
    BY <1>1, <1>4, <2>1
<1>10. \A i, j \in 1..(n - 1) : t[i].v = t[j].v => i = j
  BY <1>1, <1>4, <1>7
<1>11. CASE n = 1
  <2>1. t = <<>> /\ root \in W
    BY <1>1, <1>4, <1>5, <1>11
  <2>2. On(st) = On(t) \cup {v}
    <3>1. On(t) = {} /\ On(st) = {st[1].v}
      BY <1>1, <1>11 DEF On, n
    <3> QED
      BY <1>5, <1>11, <3>1
  <2> QED
    BY <1>1, <1>5, <1>6, <1>8, <1>9, <1>10, <1>11, <2>1, <2>2 DEF StackOK, t
<1>12. CASE n # 1
  <2>1. 1 \in 1..(n - 1) /\ t # <<>>
    BY <1>1, <1>12
  <2>2. t[1].v = root
    BY <1>1, <1>4, <2>1
  <2>3. root \notin W
    BY <1>2, <1>4, <1>5, <1>7, <2>1
  <2>4. \A i \in 1..(n - 1) : t[i].v \notin W
    BY <1>1, <1>2, <1>4, <1>5, <1>7
  <2>5. On(st) = On(t) \cup {v}
    <3>1. \A i \in 1..n : i = n \/ i \in 1..(n - 1)
      BY <1>1
    <3> QED
      BY <1>1, <1>2, <1>5, <1>7, <3>1 DEF On, n
  <2> DEFINE k == n - 1
  <2>6. StackOK(R, root, t, W)
    <3>1. Len(t) = k /\ t \in Seq(Frames) /\ t # <<>>
      BY <1>1, <2>1
    <3>2. /\ \A i \in 1..k : /\ t[i].v \in R
                            /\ Range(t[i].out) \subseteq Needs(t[i].v)
                            /\ Len(t[i].out) <= Cardinality(Node)
                            /\ \A m \in Needs(t[i].v) :
                                  m \in Range(t[i].out) \cup W \/ (i < k /\ m = t[i + 1].v)
          /\ \A i \in 1..(k - 1) : t[i + 1].v \in Needs(t[i].v)
          /\ \A i, j \in 1..k : t[i].v = t[j].v => i = j
      BY <1>8, <1>9, <1>10
    <3>3. \A i \in 1..k : t[i].v \notin W
      BY <2>4
    <3> HIDE DEF k, W
    <3> QED
      BY <2>2, <2>3, <3>1, <3>2, <3>3 DEF StackOK
  <2> QED
    BY <1>5, <1>6, <2>5, <2>6 DEF t
<1> QED
  BY <1>11, <1>12

\* An edge to what was visited is dropped.
LEMMA StackDrops ==
    ASSUME NEW R, NEW root, NEW st, NEW visited, StackOK(R, root, st, visited),
           st # <<>>, Last(st).out # <<>>, Last(Last(st).out) \in visited
    PROVE  StackOK(R, root, Popped(st), visited) /\ On(Popped(st)) = On(st)
<1> DEFINE n == Len(st)
           t == Popped(st)
           e == Last(Last(st).out)
<1>0. st \in Seq(Frames)
  BY DEF StackOK
<1>1. /\ n \in Nat /\ n > 0 /\ t \in Seq(Frames) /\ Len(t) = n
      /\ \A i \in 1..n : t[i].v = st[i].v
      /\ \A i \in 1..(n - 1) : t[i] = st[i]
      /\ Range(st[n].out) = Range(t[n].out) \cup {e}
      /\ Len(t[n].out) = Len(st[n].out) - 1 /\ Len(st[n].out) \in Nat
  BY <1>0, PoppedIs
<1>2. Cardinality(Node) \in Nat
  BY RoundsNat
<1>3. e \in visited
  OBVIOUS
<1> HIDE DEF t, e
<1>4. /\ \A i \in 1..n : /\ st[i].v \in R
                         /\ Range(st[i].out) \subseteq Needs(st[i].v)
                         /\ Len(st[i].out) <= Cardinality(Node)
                         /\ \A m \in Needs(st[i].v) :
                               \/ m \in Range(st[i].out) \cup visited
                               \/ i < n /\ m = st[i + 1].v
      /\ \A i \in 1..(n - 1) : st[i + 1].v \in Needs(st[i].v)
      /\ \A i, j \in 1..n : st[i].v = st[j].v => i = j
      /\ IF st = <<>> THEN root \in visited ELSE st[1].v = root
      /\ IF root \in visited THEN n <= 1 ELSE \A i \in 1..n : st[i].v \notin visited
  BY DEF StackOK
<1> HIDE DEF n
<1>5. \A i \in 1..n : i = n \/ i \in 1..(n - 1)
  BY <1>1
<1>6. n \in 1..n /\ 1 \in 1..n /\ \A i \in 1..(n - 1) : i \in 1..n /\ i + 1 \in 1..n
  BY <1>1
<1>7. \A i \in 1..n : /\ Range(t[i].out) \subseteq Range(st[i].out)
                      /\ Range(st[i].out) \subseteq Range(t[i].out) \cup visited
                      /\ Len(t[i].out) <= Cardinality(Node)
  <2> TAKE i \in 1..n
  <2>1. CASE i = n
    BY <1>1, <1>2, <1>3, <1>4, <1>6, <2>1
  <2>2. CASE i \in 1..(n - 1)
    BY <1>1, <1>4, <2>2
  <2> QED
    BY <1>5, <2>1, <2>2
<1>8. \A i \in 1..n : /\ t[i].v \in R
                      /\ Range(t[i].out) \subseteq Needs(t[i].v)
                      /\ Len(t[i].out) <= Cardinality(Node)
                      /\ \A m \in Needs(t[i].v) :
                            \/ m \in Range(t[i].out) \cup visited
                            \/ i < n /\ m = t[i + 1].v
  <2> TAKE i \in 1..n
  <2>1. t[i].v = st[i].v /\ (i < n => t[i + 1].v = st[i + 1].v)
    BY <1>1
  <2>2. ASSUME NEW m \in Needs(st[i].v)
        PROVE  m \in Range(t[i].out) \cup visited \/ (i < n /\ m = t[i + 1].v)
    BY <1>4, <1>7, <2>1, <2>2
  <2> QED
    BY <1>4, <1>7, <2>1, <2>2
<1>9. t # <<>> /\ st # <<>>
  BY <1>1
<1>10. On(t) = On(st)
  BY <1>1 DEF On, n
<1>11. \A i \in 1..(n - 1) : t[i + 1].v \in Needs(t[i].v)
  BY <1>1, <1>4, <1>6
<1>12. \A i, j \in 1..n : t[i].v = t[j].v => i = j
  BY <1>1, <1>4
<1>13. t[1].v = root
  BY <1>1, <1>4, <1>6, <1>9
<1>14. IF root \in visited THEN n <= 1 ELSE \A i \in 1..n : t[i].v \notin visited
  BY <1>1, <1>4
<1> QED
  BY <1>1, <1>8, <1>9, <1>10, <1>11, <1>12, <1>13, <1>14 DEF StackOK, t

\* An edge to a new node puts that on the stack.
LEMMA StackGrows ==
    ASSUME dependency \in Graph, DependencyTyped, NEW R, R \subseteq Node, Shut(Dep, R),
           NEW root, NEW st, NEW visited, StackOK(R, root, st, visited),
           st # <<>>, Last(st).out # <<>>, root \notin visited,
           Last(Last(st).out) \notin visited, Last(Last(st).out) \notin On(st)
    PROVE  LET e == Last(Last(st).out)
               t == Append(Popped(st), Frame(dependency, e))
           IN  /\ StackOK(R, root, t, visited)
               /\ On(t) = On(st) \cup {e} /\ Last(st).v \in On(st)
<1> DEFINE n == Len(st)
           p == Popped(st)
           e == Last(Last(st).out)
           f == Frame(dependency, e)
           t == Append(p, f)
<1>0. st \in Seq(Frames)
  BY DEF StackOK
<1>1. /\ n \in Nat /\ n > 0 /\ p \in Seq(Frames) /\ Len(p) = n
      /\ Last(st) = st[n] /\ e \in Node
      /\ \A i \in 1..n : p[i].v = st[i].v
      /\ \A i \in 1..(n - 1) : p[i] = st[i]
      /\ Range(st[n].out) = Range(p[n].out) \cup {e}
      /\ Len(p[n].out) = Len(st[n].out) - 1 /\ Len(st[n].out) \in Nat
  BY <1>0, PoppedIs
<1>2. Cardinality(Node) \in Nat
  BY RoundsNat
<1>3. e \notin visited /\ e \notin On(st)
  OBVIOUS
<1>4. f \in Frames /\ f.v = e /\ Range(f.out) = Needs(e) /\ Len(f.out) <= Cardinality(Node)
  BY <1>1, FrameIs
<1> HIDE DEF p, e, f
<1>5. /\ \A i \in 1..n : /\ st[i].v \in R
                         /\ Range(st[i].out) \subseteq Needs(st[i].v)
                         /\ Len(st[i].out) <= Cardinality(Node)
                         /\ \A m \in Needs(st[i].v) :
                               \/ m \in Range(st[i].out) \cup visited
                               \/ i < n /\ m = st[i + 1].v
      /\ \A i \in 1..(n - 1) : st[i + 1].v \in Needs(st[i].v)
      /\ \A i, j \in 1..n : st[i].v = st[j].v => i = j
      /\ st[1].v = root
      /\ \A i \in 1..n : st[i].v \notin visited
  BY DEF StackOK
<1>6. /\ t \in Seq(Frames) /\ Len(t) = n + 1 /\ t[n + 1] = f
      /\ \A i \in 1..n : t[i] = p[i]
  BY <1>1, <1>4
<1>7. \A i \in 1..n : st[i].v # e
  BY <1>3 DEF On, n
<1>8. On(st) = {st[i].v : i \in 1..n} /\ On(t) = {t[i].v : i \in 1..(n + 1)}
  BY <1>6 DEF On, n
<1> HIDE DEF n, t
<1>9. n \in 1..n /\ 1 \in 1..n /\ \A i \in 1..(n + 1) : i \in 1..n \/ i = n + 1
  BY <1>1
<1>10. \A i \in 1..n : t[i].v = st[i].v
  BY <1>1, <1>6
<1>11. t[n + 1].v = e
  BY <1>4, <1>6
<1>12. e \in Needs(st[n].v) /\ e \in R
  <2>1. e \in Needs(st[n].v) /\ st[n].v \in R
    BY <1>1, <1>5, <1>9
  <2>2. <<st[n].v, e>> \in Dep
    BY <2>1 DEF Needs
  <2>3. <<st[n].v, e>>[1] = st[n].v /\ <<st[n].v, e>>[2] = e
    OBVIOUS
  <2> QED
    BY <2>1, <2>2, <2>3 DEF Shut
<1>13. ASSUME NEW i \in 1..n
       PROVE  /\ t[i].v \in R
              /\ Range(t[i].out) \subseteq Needs(t[i].v)
              /\ Len(t[i].out) <= Cardinality(Node)
              /\ \A m \in Needs(t[i].v) :
                    m \in Range(t[i].out) \cup visited \/ m = t[i + 1].v
  <2>1. CASE i = n
    <3>1. /\ t[i].v = st[i].v /\ t[i].out = p[n].out
          /\ Range(t[i].out) \subseteq Range(st[i].out)
          /\ Range(st[i].out) \subseteq Range(t[i].out) \cup {e}
          /\ t[i + 1].v = e
      BY <1>1, <1>6, <1>9, <1>10, <1>11, <2>1
    <3>2. Len(t[i].out) <= Cardinality(Node)
      BY <1>1, <1>2, <1>5, <1>9, <2>1, <3>1
    <3>3. ~ (i < n)
      BY <1>1, <2>1
    <3> QED
      BY <1>5, <3>1, <3>2, <3>3
  <2>2. CASE i # n
    <3>1. i \in 1..(n - 1) /\ i + 1 \in 1..n
      BY <1>1, <2>2
    <3>2. t[i] = st[i] /\ t[i + 1].v = st[i + 1].v
      BY <1>1, <1>6, <1>10, <3>1
    <3> QED
      BY <1>5, <3>2
  <2> QED
    BY <2>1, <2>2
<1>14. /\ t[n + 1].v \in R
       /\ Range(t[n + 1].out) \subseteq Needs(t[n + 1].v)
       /\ Len(t[n + 1].out) <= Cardinality(Node)
       /\ \A m \in Needs(t[n + 1].v) : m \in Range(t[n + 1].out) \cup visited
  BY <1>4, <1>6, <1>11, <1>12
<1>15. \A i \in 1..n : t[i + 1].v \in Needs(t[i].v)
  <2> TAKE i \in 1..n
  <2>1. CASE i = n
    BY <1>9, <1>10, <1>11, <1>12, <2>1
  <2>2. CASE i # n
    <3>1. i \in 1..(n - 1) /\ i + 1 \in 1..n
      BY <1>1, <2>2
    <3> QED
      BY <1>5, <1>10, <3>1
  <2> QED
    BY <2>1, <2>2
<1>16. \A i, j \in 1..(n + 1) : t[i].v = t[j].v => i = j
  BY <1>5, <1>7, <1>9, <1>10, <1>11
<1>17. t # <<>> /\ t[1].v = root
  BY <1>1, <1>5, <1>6, <1>9, <1>10
<1>18. \A i \in 1..(n + 1) : t[i].v \notin visited
  BY <1>3, <1>5, <1>9, <1>10, <1>11
<1>19. StackOK(R, root, t, visited)
  <2> DEFINE k == n + 1
  <2>1. Len(t) = k /\ t \in Seq(Frames) /\ k \in Nat /\ k - 1 = n
    BY <1>1, <1>6
  <2>2. \A i \in 1..k : /\ t[i].v \in R
                        /\ Range(t[i].out) \subseteq Needs(t[i].v)
                        /\ Len(t[i].out) <= Cardinality(Node)
                        /\ \A m \in Needs(t[i].v) :
                              m \in Range(t[i].out) \cup visited \/ (i < k /\ m = t[i + 1].v)
    <3> TAKE i \in 1..k
    <3>1. CASE i \in 1..n
      <4>1. i < k
        BY <1>1, <3>1
      <4> QED
        BY <1>13, <3>1, <4>1
    <3>2. CASE i = n + 1
      BY <1>14, <3>2
    <3> QED
      BY <1>9, <3>1, <3>2
  <2>3. \A i \in 1..(k - 1) : t[i + 1].v \in Needs(t[i].v)
    BY <1>15, <2>1
  <2>4. \A i, j \in 1..k : t[i].v = t[j].v => i = j
    BY <1>16
  <2>5. \A i \in 1..k : t[i].v \notin visited
    BY <1>18
  <2> HIDE DEF k
  <2> QED
    BY <1>17, <2>1, <2>2, <2>3, <2>4, <2>5 DEF StackOK
<1>20. On(t) = On(st) \cup {e} /\ st[n].v \in On(st)
  <2>1. \A i \in 1..n : i \in 1..(n + 1)
    BY <1>1
  <2>2. n + 1 \in 1..(n + 1)
    BY <1>1
  <2> QED
    BY <1>8, <1>9, <1>10, <1>11, <2>1, <2>2
<1> QED
  BY <1>1, <1>19, <1>20 DEF t, p, e, f

\* An edge to a node of the stack closes a cycle.
LEMMA StackCloses ==
    ASSUME dependency \in Graph, NEW R, NEW root, NEW st, NEW visited,
           StackOK(R, root, st, visited), st # <<>>, Last(st).out # <<>>,
           Last(Last(st).out) \in On(st)
    PROVE  Cyclic(R)
<1> DEFINE n == Len(st)
           e == Last(Last(st).out)
<1>0. st \in Seq(Frames)
  BY DEF StackOK
<1>1. n \in Nat /\ n > 0 /\ Range(st[n].out) = Range(Popped(st)[n].out) \cup {e} /\ e \in Node
  BY <1>0, PoppedIs
<1>2. PICK j \in 1..n : e = st[j].v
  BY DEF On
<1> HIDE DEF e
<1>3. /\ \A i \in 1..n : st[i].v \in R /\ Range(st[i].out) \subseteq Needs(st[i].v)
      /\ \A i \in 1..(n - 1) : st[i + 1].v \in Needs(st[i].v)
  BY DEF StackOK
<1> HIDE DEF n
<1>4. e \in Needs(st[n].v)
  <2>1. n \in 1..n
    BY <1>1
  <2> QED
    BY <1>1, <1>3, <2>1
<1> DEFINE Q == Reached(Dep, Needs(e))
<1>5. Needs(e) \subseteq Q /\ Shut(Dep, Q)
  <2>1. Dep \subseteq Node \X Node /\ Needs(e) \subseteq Node
    BY DEF Dep, Needs, Graph
  <2> QED
    BY <2>1, ReachedIsShut
<1> HIDE DEF Q
<1>6. \A a \in Q : Needs(a) \subseteq Q
  <2> SUFFICES ASSUME NEW a \in Q, NEW m \in Needs(a) PROVE m \in Q
    OBVIOUS
  <2>1. <<a, m>> \in Dep /\ <<a, m>>[1] = a /\ <<a, m>>[2] = m
    BY DEF Needs
  <2> QED
    BY <1>5, <2>1 DEF Shut
<1> DEFINE k == n - j
           Good == {i \in 0..k : i = 0 \/ st[j + i].v \in Q}
<1>7. k \in Nat /\ 0 \in Good
  BY <1>1
<1>8. ASSUME NEW i \in 0..(k - 1), i \in Good PROVE i + 1 \in Good
  <2>1. j + i \in 1..(n - 1) /\ (j + i) + 1 = j + (i + 1) /\ i + 1 \in 0..k
    BY <1>1
  <2>2. st[j + (i + 1)].v \in Needs(st[j + i].v)
    BY <1>3, <2>1
  <2>3. CASE i = 0
    <3>1. j + i = j
      BY <2>3
    <3> QED
      BY <1>2, <1>5, <2>1, <2>2, <3>1
  <2>4. CASE st[j + i].v \in Q
    BY <1>6, <2>1, <2>2, <2>4
  <2> QED
    BY <1>8, <2>3, <2>4
<1>9. k \in 0..k /\ j + k = n
  BY <1>1
<1> HIDE DEF Good, k
<1>10. \A i \in 0..k : i \in Good
  BY <1>7, <1>8, UpTo
<1>11. k = 0 \/ st[n].v \in Q
  BY <1>9, <1>10 DEF Good
<1>12. e \in Q
  <2>1. CASE k = 0
    <3>1. n = j
      BY <1>1, <1>9, <2>1
    <3> QED
      BY <1>2, <1>4, <1>5, <3>1
  <2>2. CASE st[n].v \in Q
    BY <1>4, <1>6, <2>2
  <2> QED
    BY <1>11, <2>1, <2>2
<1> QED
  BY <1>2, <1>3, <1>12 DEF Cyclic, Q

\* A node is sorted once all it needs is.
LEMMA SortedGrows ==
    ASSUME NEW sorted, NEW visited, SortedOK(sorted, visited), NEW v \in Node,
           v \notin visited, Needs(v) \subseteq visited
    PROVE  SortedOK(Append(sorted, v), visited \cup {v})
<1> DEFINE t == Append(sorted, v)
           n == Len(sorted)
<1>1. /\ sorted \in Seq(Node) /\ Range(sorted) = visited
      /\ \A i, j \in 1..n : sorted[i] = sorted[j] => i = j
      /\ \A i \in 1..n : \A m \in Needs(sorted[i]) : \E j \in 1..(i - 1) : sorted[j] = m
  BY DEF SortedOK
<1>2. n \in Nat /\ DOMAIN sorted = 1..n
  BY <1>1
<1>3. t \in Seq(Node) /\ Len(t) = n + 1 /\ t[n + 1] = v /\ \A i \in 1..n : t[i] = sorted[i]
  BY <1>1
<1>4. DOMAIN t = 1..(n + 1)
  BY <1>3
<1> HIDE DEF t, n
<1>5. visited = {sorted[i] : i \in 1..n}
  BY <1>1, <1>2 DEF Range
<1>6. \A i \in 1..(n + 1) : i \in 1..n \/ i = n + 1
  BY <1>2
<1>7. 1..n \subseteq 1..(n + 1) /\ n + 1 \in 1..(n + 1)
  BY <1>2
<1>8. Range(t) = visited \cup {v}
  BY <1>3, <1>4, <1>5, <1>6, <1>7 DEF Range
<1>9. \A i, j \in 1..(n + 1) : t[i] = t[j] => i = j
  BY <1>1, <1>3, <1>5, <1>6
<1>10. ASSUME NEW i \in 1..(n + 1), NEW m \in Needs(t[i])
       PROVE  \E j \in 1..(i - 1) : t[j] = m
  <2>1. CASE i \in 1..n
    <3>1. PICK j \in 1..(i - 1) : sorted[j] = m
      BY <1>1, <1>3, <1>10, <2>1
    <3>2. j \in 1..n
      BY <1>2, <2>1
    <3> QED
      BY <1>3, <3>1, <3>2
  <2>2. CASE i = n + 1
    <3>1. m \in visited
      BY <1>3, <1>10, <2>2
    <3>2. PICK j \in 1..n : sorted[j] = m
      BY <1>5, <3>1
    <3>3. (n + 1) - 1 = n
      BY <1>2
    <3> QED
      BY <1>3, <2>2, <3>2, <3>3
  <2> QED
    BY <1>6, <2>1, <2>2
<1> QED
  BY <1>3, <1>8, <1>9, <1>10 DEF SortedOK, t

-----------------------------------------------------------------------------
(* The sort of dependencies: how long it takes *)

\* What is left to do: the nodes that are not visited, with the edges of those
\* that are not on the stack and those that are left in a frame.
Work(st, visited) ==
    {p \in Node \X (0..Cardinality(Node)) :
        \/ p[2] = 0 /\ p[1] \notin visited
        \/ p[2] > 0 /\ p[1] \notin visited /\ p[1] \notin On(st)
        \/ p[2] > 0 /\ \E i \in 1..Len(st) : p[1] = st[i].v /\ p[2] <= Len(st[i].out)}

\* That is finite, and no more than the rounds allow.
LEMMA WorkIsFinite ==
    ASSUME NEW st, NEW visited
    PROVE  /\ IsFiniteSet(Work(st, visited)) /\ Cardinality(Work(st, visited)) \in Nat
           /\ Cardinality(Work(st, visited)) + 1 <= Rounds
<1> DEFINE c == Cardinality(Node)
           A == Node \X (0..c)
<1>1. c \in Nat /\ Rounds \in Nat /\ Rounds >= c * (c + 1) + 1
  BY RoundsNat
<1>2. IsFiniteSet(0..c) /\ Cardinality(0..c) = c + 1
  <2> HIDE DEF c
  <2>1. 0 \in Int /\ c \in Int /\ ~ (0 > c) /\ c - 0 + 1 = c + 1
    BY <1>1
  <2>2. IsFiniteSet(0..c) /\ Cardinality(0..c) = IF 0 > c THEN 0 ELSE c - 0 + 1
    BY <2>1, FS_Interval
  <2> QED
    BY <2>1, <2>2
<1>3. IsFiniteSet(A) /\ Cardinality(A) = c * (c + 1)
  <2> DEFINE I == 0..c
  <2>1. IsFiniteSet(I) /\ Cardinality(I) = c + 1 /\ IsFiniteSet(Node)
    BY <1>2, LookupAssumption
  <2> HIDE DEF I
  <2>2. IsFiniteSet(Node \X I) /\ Cardinality(Node \X I) = Cardinality(Node) * Cardinality(I)
    BY <2>1, FS_Product
  <2> QED
    BY <2>1, <2>2 DEF I
<1> DEFINE W == Work(st, visited)
<1>4. W \in SUBSET A
  BY DEF Work
<1> HIDE DEF W, A
<1>5. IsFiniteSet(W) /\ Cardinality(W) <= Cardinality(A)
  BY <1>3, <1>4, FS_Subset
<1>6. Cardinality(W) \in Nat
  BY <1>5, FS_CardinalityType
<1> DEFINE p == c * (c + 1)
           w == Cardinality(W)
<1>7. w \in Nat /\ p \in Nat /\ w <= p /\ Rounds >= p + 1
  <2>1. \A a \in Nat : a * (a + 1) \in Nat
    OBVIOUS
  <2> QED
    BY <1>1, <1>3, <1>5, <1>6, <2>1
<1> HIDE DEF p, w
<1>8. w + 1 <= Rounds
  BY <1>1, <1>7
<1> QED
  BY <1>5, <1>6, <1>8 DEF W, w

\* Less is left when something is gone and nothing new came.
LEMMA LessWork ==
    ASSUME NEW st, NEW visited, NEW t, NEW seen,
           Work(t, seen) \subseteq Work(st, visited),
           NEW x \in Work(st, visited), x \notin Work(t, seen)
    PROVE  Cardinality(Work(t, seen)) < Cardinality(Work(st, visited))
<1> DEFINE A == Work(st, visited)
           B == Work(t, seen)
<1>1. IsFiniteSet(A) /\ Cardinality(A) \in Nat /\ Cardinality(B) \in Nat
  BY WorkIsFinite
<1>2. B \in SUBSET A /\ A # B
  OBVIOUS
<1> HIDE DEF A, B
<1>3. Cardinality(B) <= Cardinality(A) /\ (Cardinality(A) = Cardinality(B) => A = B)
  BY <1>1, <1>2, FS_Subset
<1>4. Cardinality(B) < Cardinality(A)
  BY <1>1, <1>2, <1>3
<1> QED
  BY <1>4 DEF A, B

\* A finished node is one less.
LEMMA FinishedLess ==
    ASSUME NEW R, NEW root, NEW st, NEW visited, StackOK(R, root, st, visited),
           st # <<>>, root \notin visited, Last(st).out = <<>>
    PROVE  Cardinality(Work(Front(st), visited \cup {Last(st).v}))
             < Cardinality(Work(st, visited))
<1> DEFINE n == Len(st)
           t == Front(st)
           v == Last(st).v
           x == <<v, 0>>
<1>1. /\ n \in Nat /\ Len(t) = n - 1 /\ \A i \in 1..(n - 1) : t[i] = st[i]
  BY FrontIs DEF StackOK
<1>2. v \in Node /\ v \notin visited /\ On(st) = On(t) \cup {v}
  BY StackShrinks
<1>3. Cardinality(Node) \in Nat
  BY RoundsNat
<1> HIDE DEF t, v
<1>4. x \in Node \X (0..Cardinality(Node)) /\ x[1] = v /\ x[2] = 0
  BY <1>2, <1>3
<1> HIDE DEF x
<1>5. x \in Work(st, visited)
  BY <1>2, <1>4 DEF Work
<1>6. x \notin Work(t, visited \cup {v})
  BY <1>4 DEF Work
<1>7. ASSUME NEW p \in Work(t, visited \cup {v}) PROVE p \in Work(st, visited)
  <2>1. p \in Node \X (0..Cardinality(Node))
    BY DEF Work
  <2>2. CASE p[2] = 0 /\ p[1] \notin visited \cup {v}
    BY <2>1, <2>2 DEF Work
  <2>3. CASE p[2] > 0 /\ p[1] \notin visited \cup {v} /\ p[1] \notin On(t)
    BY <1>2, <2>1, <2>3 DEF Work
  <2>4. ASSUME p[2] > 0, NEW i \in 1..Len(t), p[1] = t[i].v, p[2] <= Len(t[i].out)
        PROVE  p \in Work(st, visited)
    <3>1. i \in 1..n /\ t[i] = st[i]
      BY <1>1, <2>4
    <3> QED
      BY <2>1, <2>4, <3>1 DEF Work
  <2> QED
    BY <1>7, <2>2, <2>3, <2>4 DEF Work
<1> DEFINE W == visited \cup {v}
<1>8. Work(t, W) \subseteq Work(st, visited) /\ x \notin Work(t, W)
  BY <1>6, <1>7
<1> HIDE DEF W
<1>9. Cardinality(Work(t, W)) < Cardinality(Work(st, visited))
  BY <1>5, <1>8, LessWork
<1> QED
  BY <1>9 DEF t, v, W

\* An edge that was looked at is one less, dropped or followed.
LEMMA EdgeLess ==
    ASSUME NEW R, NEW root, NEW st, NEW visited, StackOK(R, root, st, visited),
           st # <<>>, Last(st).out # <<>>
    PROVE  /\ Cardinality(Work(Popped(st), visited)) < Cardinality(Work(st, visited))
           /\ \A f \in Frames :
                 /\ f.v \notin visited /\ f.v \notin On(st)
                 /\ Len(f.out) <= Cardinality(Node)
                 => Cardinality(Work(Append(Popped(st), f), visited))
                       < Cardinality(Work(st, visited))
<1> DEFINE n == Len(st)
           t == Popped(st)
           v == st[n].v
           k == Len(st[n].out)
           x == <<v, k>>
           c == Cardinality(Node)
<1>0. st \in Seq(Frames)
  BY DEF StackOK
<1>1. /\ n \in Nat /\ n > 0 /\ t \in Seq(Frames) /\ Len(t) = n
      /\ \A i \in 1..n : st[i] \in Frames /\ t[i].v = st[i].v
      /\ \A i \in 1..(n - 1) : t[i] = st[i]
      /\ Len(t[n].out) = k - 1 /\ k \in Nat /\ k > 0
  BY <1>0, PoppedIs
<1>2. c \in Nat
  BY RoundsNat
<1>3. n \in 1..n /\ v \in Node /\ k <= c /\ \A i \in 1..n : st[i].v = v => i = n
  <2>1. n \in 1..n
    BY <1>1
  <2> HIDE DEF n
  <2>2. st[n] \in Frames
    BY <1>1, <2>1
  <2> QED
    BY <2>1, <2>2 DEF StackOK, Frames, n
<1>4. On(t) = On(st) /\ v \in On(st)
  BY <1>1, <1>3 DEF On
<1> HIDE DEF t, n, v, k, c
<1>5. x \in Node \X (0..c) /\ x[1] = v /\ x[2] = k
  BY <1>1, <1>2, <1>3
<1> HIDE DEF x
<1>6. x \in Work(st, visited)
  <2>1. x[2] > 0 /\ n \in 1..Len(st) /\ x[1] = st[n].v /\ x[2] <= Len(st[n].out)
    BY <1>1, <1>3, <1>5 DEF n, v, k
  <2> QED
    BY <1>5, <2>1 DEF Work, c
<1>7. x \notin Work(t, visited)
  <2>1. ASSUME NEW i \in 1..n, x[1] = t[i].v, x[2] <= Len(t[i].out) PROVE FALSE
    <3>1. i = n
      BY <1>1, <1>3, <1>5, <2>1
    <3> QED
      BY <1>1, <1>5, <2>1, <3>1
  <2> QED
    BY <1>1, <1>4, <1>5, <2>1 DEF Work
<1>8. ASSUME NEW i \in 1..n, NEW j \in Nat, j <= Len(t[i].out) PROVE j <= Len(st[i].out)
  <2>1. CASE i = n
    BY <1>1, <1>8, <2>1 DEF k
  <2>2. CASE i # n
    <3>1. i \in 1..(n - 1)
      BY <1>1, <2>2
    <3> QED
      BY <1>1, <1>8, <3>1
  <2> QED
    BY <2>1, <2>2
<1>9. Work(t, visited) \subseteq Work(st, visited)
  <2> SUFFICES ASSUME NEW p \in Work(t, visited) PROVE p \in Work(st, visited)
    OBVIOUS
  <2>1. p \in Node \X (0..c) /\ p[2] \in Nat
    BY <1>2 DEF Work, c
  <2>2. ASSUME p[2] > 0, NEW i \in 1..n, p[1] = t[i].v, p[2] <= Len(t[i].out)
        PROVE  p \in Work(st, visited)
    <3>1. p[1] = st[i].v /\ p[2] <= Len(st[i].out) /\ i \in 1..Len(st)
      BY <1>1, <1>8, <2>1, <2>2 DEF n
    <3> QED
      BY <2>1, <2>2, <3>1 DEF Work, c
  <2>3. CASE p[2] = 0 /\ p[1] \notin visited
    BY <2>1, <2>3 DEF Work, c
  <2>4. CASE p[2] > 0 /\ p[1] \notin visited /\ p[1] \notin On(t)
    BY <1>4, <2>1, <2>4 DEF Work, c
  <2> QED
    BY <1>1, <2>2, <2>3, <2>4 DEF Work
<1>10. Cardinality(Work(t, visited)) < Cardinality(Work(st, visited))
  BY <1>6, <1>7, <1>9, LessWork
<1>11. ASSUME NEW f \in Frames, f.v \notin visited, f.v \notin On(st), Len(f.out) <= c
       PROVE  Cardinality(Work(Append(t, f), visited)) < Cardinality(Work(st, visited))
  <2> DEFINE a == Append(t, f)
  <2>1. /\ a \in Seq(Frames) /\ Len(a) = n + 1 /\ a[n + 1] = f
        /\ \A i \in 1..n : a[i] = t[i]
    BY <1>1
  <2>2. \A i \in 1..(n + 1) : i \in 1..n \/ i = n + 1
    BY <1>1
  <2>3. 1..n \subseteq 1..(n + 1)
    BY <1>1
  <2> HIDE DEF a
  <2>4. On(st) \subseteq On(a)
    BY <1>1, <1>4, <2>1, <2>3 DEF On
  <2>5. x \notin Work(a, visited)
    <3>1. ASSUME NEW i \in 1..(n + 1), x[1] = a[i].v, x[2] <= Len(a[i].out) PROVE FALSE
      <4>1. CASE i = n + 1
        BY <1>4, <1>5, <1>11, <2>1, <3>1, <4>1
      <4>2. CASE i \in 1..n
        <5>1. i = n
          BY <1>1, <1>3, <1>5, <2>1, <3>1, <4>2
        <5> QED
          BY <1>1, <1>5, <2>1, <3>1, <4>2, <5>1
      <4> QED
        BY <2>2, <4>1, <4>2
    <3> QED
      BY <1>1, <1>4, <1>5, <2>1, <2>4, <3>1 DEF Work
  <2>6. Work(a, visited) \subseteq Work(st, visited)
    <3> SUFFICES ASSUME NEW p \in Work(a, visited) PROVE p \in Work(st, visited)
      OBVIOUS
    <3>1. p \in Node \X (0..c) /\ p[2] \in Nat
      BY <1>2 DEF Work, c
    <3>2. ASSUME p[2] > 0, NEW i \in 1..(n + 1), p[1] = a[i].v, p[2] <= Len(a[i].out)
          PROVE  p \in Work(st, visited)
      <4>1. CASE i = n + 1
        <5>1. p[1] \notin visited /\ p[1] \notin On(st)
          BY <1>11, <2>1, <3>2, <4>1
        <5> QED
          BY <3>1, <3>2, <5>1 DEF Work, c
      <4>2. CASE i \in 1..n
        <5>1. p[1] = st[i].v /\ p[2] <= Len(st[i].out) /\ i \in 1..Len(st)
          BY <1>1, <1>8, <2>1, <3>1, <3>2, <4>2 DEF n
        <5> QED
          BY <3>1, <3>2, <5>1 DEF Work, c
      <4> QED
        BY <2>2, <4>1, <4>2
    <3>3. CASE p[2] = 0 /\ p[1] \notin visited
      BY <3>1, <3>3 DEF Work, c
    <3>4. CASE p[2] > 0 /\ p[1] \notin visited /\ p[1] \notin On(a)
      BY <2>4, <3>1, <3>4 DEF Work, c
    <3> QED
      BY <2>1, <3>2, <3>3, <3>4 DEF Work
  <2>7. Cardinality(Work(a, visited)) < Cardinality(Work(st, visited))
    BY <1>6, <2>5, <2>6, LessWork
  <2> QED
    BY <2>7 DEF a
<1> QED
  BY <1>10, <1>11 DEF t, c

-----------------------------------------------------------------------------
(* The sort of dependencies: one node after the other *)

SortStates == [st : Seq(Frames), visited : SUBSET Node, visiting : SUBSET Node,
               sorted : Seq(Node), cycle : BOOLEAN]

\* What a round of the sort leaves true.
SortOK(R, root, s) ==
    /\ s \in SortStates
    /\ s.visited \subseteq R
    /\ StackOK(R, root, s.st, s.visited)
    /\ SortedOK(s.sorted, s.visited)
    /\ s.visiting \subseteq s.visited \cup On(s.st)
    /\ s.cycle => Cyclic(R)

Done(s) == s.st = <<>> \/ s.cycle

SortLeft(s) == Cardinality(Work(s.st, s.visited)) + (IF s.st = <<>> THEN 0 ELSE 1)

\* A round of the sort.
LEMMA SortStepOK ==
    ASSUME dependency \in Graph, DependencyTyped, NEW R, R \subseteq Node, Shut(Dep, R),
           NEW root, NEW s, SortOK(R, root, s)
    PROVE  LET t == SortStep(root, s)
           IN  /\ SortOK(R, root, t) /\ s.visited \subseteq t.visited
               /\ Done(s) => t = s
               /\ ~ Done(s) => Done(t) \/ SortLeft(t) < SortLeft(s)
<1> DEFINE t == SortStep(root, s)
<1>1. /\ s \in SortStates /\ s.visited \subseteq R
      /\ StackOK(R, root, s.st, s.visited) /\ SortedOK(s.sorted, s.visited)
      /\ s.visiting \subseteq s.visited \cup On(s.st)
      /\ s.cycle => Cyclic(R)
  BY DEF SortOK
<1>2. /\ s.st \in Seq(Frames) /\ s.visited \subseteq Node /\ s.visiting \subseteq Node
      /\ s.sorted \in Seq(Node) /\ s.cycle \in BOOLEAN
  BY <1>1 DEF SortStates
<1>3. \A x, y : Cardinality(Work(x, y)) \in Nat
  BY WorkIsFinite
<1>4. CASE Done(s)
  <2>1. t = s
    BY <1>4 DEF SortStep, Done
  <2> QED
    BY <1>4, <2>1
<1>5. CASE ~ Done(s) /\ root \in s.visited
  <2>1. t = [s EXCEPT !.st = Front(s.st)]
    BY <1>5 DEF SortStep, Done
  <2>2. s.st # <<>> /\ ~ s.cycle
    BY <1>5 DEF Done
  <2>3. Len(s.st) = 1 /\ s.st[1].v = root
    <3>1. Len(s.st) \in Nat /\ Len(s.st) > 0
      BY <1>2, <2>2, FrontIs
    <3>2. Len(s.st) <= 1 /\ s.st[1].v = root
      BY <1>1, <1>5, <2>2 DEF StackOK
    <3> DEFINE l == Len(s.st)
    <3>3. l \in Nat /\ l > 0 /\ l <= 1
      BY <3>1, <3>2
    <3> HIDE DEF l
    <3>4. l = 1
      BY <3>3
    <3> QED
      BY <3>2, <3>4 DEF l
  <2>4. Front(s.st) = <<>>
    BY <1>2, <2>2, <2>3, FrontIs
  <2> HIDE DEF t
  <2>5. /\ t.st = <<>> /\ t.visited = s.visited /\ t.visiting = s.visiting
        /\ t.sorted = s.sorted /\ t.cycle = s.cycle /\ t \in SortStates
    <3>1. <<>> \in Seq(Frames)
      OBVIOUS
    <3>2. t = [s EXCEPT !.st = <<>>]
      BY <2>1, <2>4
    <3> QED
      BY <1>1, <3>1, <3>2 DEF SortStates
  <2>6. On(s.st) = {root} /\ On(<<>>) = {}
    <3>1. On(s.st) = {root}
      BY <2>3 DEF On
    <3>2. On(<<>>) = {}
      BY DEF On
    <3> QED
      BY <3>1, <3>2
  <2>7. StackOK(R, root, <<>>, s.visited)
    <3>1. Len(<<>>) = 0 /\ <<>> \in Seq(Frames)
      OBVIOUS
    <3> QED
      BY <1>5, <3>1 DEF StackOK
  <2>8. SortOK(R, root, t)
    BY <1>1, <1>5, <2>5, <2>6, <2>7 DEF SortOK
  <2> QED
    BY <1>5, <2>5, <2>8 DEF Done, t
<1>6. CASE ~ Done(s) /\ root \notin s.visited /\ Last(s.st).out = <<>>
  <2> DEFINE v == Last(s.st).v
             V == s.visited \cup {v}
  <2>1. s.st # <<>> /\ ~ s.cycle
    BY <1>6 DEF Done
  <2>2. t = Finished(s)
    BY <1>6, <2>1 DEF SortStep
  <2>3. /\ StackOK(R, root, Front(s.st), V) /\ v \in R /\ v \in Node /\ v \notin s.visited
        /\ Needs(v) \subseteq s.visited
        /\ On(s.st) = On(Front(s.st)) \cup {v}
    BY <1>1, <1>6, <2>1, StackShrinks
  <2>4. Cardinality(Work(Front(s.st), V)) < Cardinality(Work(s.st, s.visited))
    BY <1>1, <1>6, <2>1, FinishedLess
  <2>5. Front(s.st) \in Seq(Frames)
    BY <1>2, <2>1, FrontIs
  <2> HIDE DEF t
  <2>6. /\ t.st = Front(s.st) /\ t.visited = V /\ t.visiting = s.visiting \ {v}
        /\ t.sorted = Append(s.sorted, v) /\ t.cycle = s.cycle /\ t \in SortStates
    <3>1. t = [s EXCEPT !.st = Front(s.st), !.visited = s.visited \cup {v},
                        !.visiting = s.visiting \ {v}, !.sorted = Append(s.sorted, v)]
      BY <2>2 DEF Finished
    <3>2. V \subseteq Node /\ s.visiting \ {v} \subseteq Node /\ Append(s.sorted, v) \in Seq(Node)
      BY <1>2, <2>3
    <3> HIDE DEF v
    <3> QED
      BY <1>1, <2>5, <3>1, <3>2 DEF SortStates
  <2> HIDE DEF v
  <2>7. SortedOK(Append(s.sorted, v), V)
    BY <1>1, <2>3, SortedGrows
  <2>8. SortOK(R, root, t)
    BY <1>1, <2>3, <2>6, <2>7 DEF SortOK
  <2>9. SortLeft(t) < SortLeft(s)
    <3> DEFINE a == Cardinality(Work(Front(s.st), V))
               b == Cardinality(Work(s.st, s.visited))
    <3>1. a \in Nat /\ b \in Nat /\ a < b
      BY <1>3, <2>4
    <3>2. SortLeft(s) = b + 1
      BY <2>1 DEF SortLeft
    <3>3. SortLeft(t) = a + (IF t.st = <<>> THEN 0 ELSE 1)
      BY <2>6 DEF SortLeft
    <3> HIDE DEF a, b
    <3> QED
      BY <3>1, <3>2, <3>3
  <2> QED
    BY <1>6, <2>6, <2>8, <2>9 DEF t
<1>7. CASE ~ Done(s) /\ root \notin s.visited /\ Last(s.st).out # <<>>
  <2> DEFINE e == Last(Last(s.st).out)
  <2>1. s.st # <<>> /\ ~ s.cycle
    BY <1>7 DEF Done
  <2>2. Range(Names(s.st)) = On(s.st)
    BY <1>2, OnIsNames
  <2>3. t = IF e \in On(s.st) THEN [s EXCEPT !.cycle = TRUE]
            ELSE IF e \in s.visited \cup s.visiting THEN [s EXCEPT !.st = Popped(s.st)]
            ELSE Deeper(s, e)
    BY <1>7, <2>1, <2>2 DEF SortStep
  <2>4. /\ e \in Node /\ Popped(s.st) \in Seq(Frames) /\ Popped(s.st) # <<>>
        /\ Last(s.st).v \in Node
    <3>1. /\ e \in Node /\ Popped(s.st) \in Seq(Frames) /\ Len(Popped(s.st)) = Len(s.st)
          /\ Len(s.st) > 0 /\ Len(s.st) \in Nat
          /\ Last(s.st) = s.st[Len(s.st)]
          /\ \A i \in 1..Len(s.st) : s.st[i] \in Frames
      BY <1>2, <1>7, <2>1, PoppedIs
    <3>2. Popped(s.st) # <<>>
      BY <3>1
    <3>3. Last(s.st) \in Frames
      <4>1. Len(s.st) \in 1..Len(s.st)
        BY <3>1
      <4> QED
        BY <3>1, <4>1
    <3> QED
      BY <3>1, <3>2, <3>3 DEF Frames
  <2> HIDE DEF t
  <2>5. CASE e \in On(s.st)
    <3>1. /\ t.st = s.st /\ t.visited = s.visited /\ t.visiting = s.visiting
          /\ t.sorted = s.sorted /\ t.cycle = TRUE /\ t \in SortStates
      BY <1>1, <2>3, <2>5 DEF SortStates
    <3>2. Cyclic(R)
      BY <1>1, <1>7, <2>1, <2>5, StackCloses
    <3>3. SortOK(R, root, t)
      BY <1>1, <3>1, <3>2 DEF SortOK
    <3> QED
      BY <1>7, <3>1, <3>3 DEF Done, t
  <2>6. CASE e \notin On(s.st) /\ e \in s.visited \cup s.visiting
    <3>1. e \in s.visited
      BY <1>1, <2>6
    <3>2. t = [s EXCEPT !.st = Popped(s.st)]
      BY <2>3, <2>6
    <3> DEFINE p == Popped(s.st)
    <3>3. StackOK(R, root, p, s.visited) /\ On(p) = On(s.st)
      BY <1>1, <1>7, <2>1, <3>1, StackDrops
    <3>4. Cardinality(Work(p, s.visited)) < Cardinality(Work(s.st, s.visited))
      BY <1>1, <1>7, <2>1, EdgeLess
    <3>5. p \in Seq(Frames) /\ p # <<>>
      BY <2>4
    <3> HIDE DEF p
    <3>6. /\ t.st = p /\ t.visited = s.visited /\ t.visiting = s.visiting
          /\ t.sorted = s.sorted /\ t.cycle = s.cycle /\ t \in SortStates
      BY <1>1, <3>2, <3>5 DEF SortStates, p
    <3>7. SortOK(R, root, t)
      BY <1>1, <3>3, <3>6 DEF SortOK
    <3>8. SortLeft(t) < SortLeft(s)
      BY <1>3, <2>1, <3>4, <3>5, <3>6 DEF SortLeft
    <3> QED
      BY <1>7, <3>6, <3>7, <3>8 DEF t
  <2>7. CASE e \notin On(s.st) /\ e \notin s.visited \cup s.visiting
    <3> DEFINE f == Frame(dependency, e)
               p == Popped(s.st)
               q == Append(p, f)
               v == Last(s.st).v
    <3>1. t = [s EXCEPT !.st = q, !.visiting = s.visiting \cup {v}]
      BY <2>3, <2>7 DEF Deeper
    <3>2. f \in Frames /\ f.v = e /\ Len(f.out) <= Cardinality(Node)
      BY <2>4, FrameIs
    <3>3. /\ StackOK(R, root, q, s.visited)
          /\ On(q) = On(s.st) \cup {e} /\ v \in On(s.st)
      BY <1>1, <1>7, <2>1, <2>7, StackGrows
    <3>4. Cardinality(Work(q, s.visited)) < Cardinality(Work(s.st, s.visited))
      <4> HIDE DEF f
      <4> QED
        BY <1>1, <1>7, <2>1, <2>7, <3>2, EdgeLess
    <3>5. q \in Seq(Frames) /\ q # <<>>
      <4> HIDE DEF f, p
      <4>1. p \in Seq(Frames)
        BY <2>4 DEF p
      <4> QED
        BY <3>2, <4>1
    <3>6. v \in Node
      BY <2>4
    <3> HIDE DEF f, p, q, v
    <3>7. /\ t.st = q /\ t.visited = s.visited /\ t.visiting = s.visiting \cup {v}
          /\ t.sorted = s.sorted /\ t.cycle = s.cycle /\ t \in SortStates
      BY <1>1, <3>1, <3>5, <3>6 DEF SortStates
    <3>8. SortOK(R, root, t)
      BY <1>1, <3>3, <3>7 DEF SortOK
    <3>9. SortLeft(t) < SortLeft(s)
      BY <1>3, <2>1, <3>4, <3>5, <3>7 DEF SortLeft
    <3> QED
      BY <1>7, <3>7, <3>8, <3>9 DEF t
  <2> QED
    BY <2>5, <2>6, <2>7
<1> QED
  BY <1>4, <1>5, <1>6, <1>7

\* Before the first round.
Begun(n, s) == [s EXCEPT !.st = <<Frame(dependency, n)>>, !.visiting = @ \cup {n}]

\* f is the function that SortFrom defines, up to k.
SortAt(f, n, s, k) ==
    f = [i \in 0..k |-> IF i = 0 THEN [s EXCEPT !.st = <<Frame(dependency, n)>>,
                                                !.visiting = @ \cup {n}]
                        ELSE SortStep(n, f[i - 1])]

\* There is such a function.
LEMMA SomeSort ==
    ASSUME NEW n, NEW s, NEW N \in Nat
    PROVE  \E f : SortAt(f, n, s, N)
<1> DEFINE Start == [s EXCEPT !.st = <<Frame(dependency, n)>>, !.visiting = @ \cup {n}]
           Good == {k \in 0..N : \E f : SortAt(f, n, s, k)}
<1>1. 0 \in Good
  <2> DEFINE f == [i \in 0..0 |-> Start]
  <2>1. SortAt(f, n, s, 0)
    BY DEF SortAt
  <2> QED
    BY <2>1
<1>2. ASSUME NEW k \in 0..(N - 1), k \in Good PROVE k + 1 \in Good
  <2>1. PICK f : SortAt(f, n, s, k)
    BY <1>2
  <2> DEFINE h == [j \in 0..(k + 1) |-> IF j = 0 THEN Start ELSE SortStep(n, f[j - 1])]
  <2>2. \A j \in 0..k : f[j] = IF j = 0 THEN Start ELSE SortStep(n, f[j - 1])
    BY <2>1, Zenon DEF SortAt
  <2>3. \A j \in 0..k : h[j] = f[j]
    <3>1. 0..k \subseteq 0..(k + 1)
      OBVIOUS
    <3>2. \A j \in 0..k : h[j] = IF j = 0 THEN Start ELSE SortStep(n, f[j - 1])
      BY <3>1, Zenon
    <3> QED
      BY <2>2, <3>2, Zenon
  <2>4. \A j \in 0..(k + 1) : j # 0 => j - 1 \in 0..k
    OBVIOUS
  <2>5. h = [j \in 0..(k + 1) |-> IF j = 0 THEN Start ELSE SortStep(n, h[j - 1])]
    <3>1. \A j \in 0..(k + 1) : (IF j = 0 THEN Start ELSE SortStep(n, f[j - 1]))
                                 = (IF j = 0 THEN Start ELSE SortStep(n, h[j - 1]))
      BY <2>3, <2>4, Zenon
    <3> QED
      BY <3>1, Zenon
  <2>6. SortAt(h, n, s, k + 1)
    BY <2>5, Zenon DEF SortAt
  <2>7. k + 1 \in 0..N
    OBVIOUS
  <2> QED
    BY <2>6, <2>7
<1> HIDE DEF Good
<1>3. \A k \in 0..N : k \in Good
  BY <1>1, <1>2, UpTo
<1>4. N \in Good
  BY <1>3
<1> QED
  BY <1>4 DEF Good

\* SortFrom gives the last value of f, round by round.
LEMMA SortFromIs ==
    ASSUME NEW n, NEW s
    PROVE  \E f : /\ f[0] = Begun(n, s)
                  /\ \A i \in 1..Rounds : f[i] = SortStep(n, f[i - 1])
                  /\ SortFrom(n, s) = f[Rounds]
<1> DEFINE Start == [s EXCEPT !.st = <<Frame(dependency, n)>>, !.visiting = @ \cup {n}]
           f == CHOOSE f : SortAt(f, n, s, Rounds)
<1>0. Rounds \in Nat
  BY RoundsNat
<1>1. SortAt(f, n, s, Rounds)
  BY <1>0, SomeSort
<1>2. SortFrom(n, s) = f[Rounds]
  BY Zenon DEF SortFrom, SortAt
<1> HIDE DEF f
<1>3. \A i \in 0..Rounds : f[i] = IF i = 0 THEN Start ELSE SortStep(n, f[i - 1])
  BY <1>1, Zenon DEF SortAt
<1>4. 0 \in 0..Rounds /\ \A i \in 1..Rounds : i \in 0..Rounds /\ i # 0
  BY <1>0
<1>5. f[0] = Start /\ \A i \in 1..Rounds : f[i] = SortStep(n, f[i - 1])
  BY <1>3, <1>4, Zenon
<1> QED
  BY <1>2, <1>5, Zenon DEF Begun

\* Between two nodes of the loop: nothing is on the stack.
BetweenOK(R, s) ==
    /\ s \in SortStates
    /\ s.visited \subseteq R
    /\ SortedOK(s.sorted, s.visited)
    /\ s.visiting \subseteq s.visited
    /\ s.cycle => Cyclic(R)

\* A node, with all it needs, is visited, or there is a cycle.
LEMMA SortFromOK ==
    ASSUME dependency \in Graph, DependencyTyped, NEW R, R \subseteq Node, Shut(Dep, R),
           NEW n \in R, NEW s, BetweenOK(R, s)
    PROVE  LET t == SortFrom(n, s)
           IN  \/ t.cycle /\ Cyclic(R)
               \/ ~ t.cycle /\ BetweenOK(R, t) /\ s.visited \cup {n} \subseteq t.visited
<1>1. PICK f : /\ f[0] = Begun(n, s)
               /\ \A i \in 1..Rounds : f[i] = SortStep(n, f[i - 1])
               /\ SortFrom(n, s) = f[Rounds]
  BY SortFromIs
<1>2. Rounds \in Nat
  BY RoundsNat
<1> DEFINE Good == {i \in 0..Rounds : /\ SortOK(R, n, f[i])
                                      /\ s.visited \subseteq f[i].visited
                                      /\ Done(f[i]) \/ SortLeft(f[i]) <= Rounds - i}
<1>3. 0 \in Good
  <2> DEFINE h == Frame(dependency, n)
             st == <<h>>
             t == f[0]
  <2>1. /\ s \in SortStates /\ s.visited \subseteq R /\ SortedOK(s.sorted, s.visited)
        /\ s.visiting \subseteq s.visited /\ (s.cycle => Cyclic(R))
    BY DEF BetweenOK
  <2>2. h \in Frames /\ h.v = n /\ Range(h.out) = Needs(n) /\ Len(h.out) <= Cardinality(Node)
    BY FrameIs
  <2> HIDE DEF h
  <2>3. st \in Seq(Frames) /\ Len(st) = 1 /\ st[1] = h /\ st # <<>>
    BY <2>2
  <2>4. n \in Node
    OBVIOUS
  <2>5. t = [s EXCEPT !.st = st, !.visiting = s.visiting \cup {n}]
    BY <1>1 DEF h, Begun
  <2> HIDE DEF st, t
  <2>6. /\ t.st = st /\ t.visited = s.visited /\ t.visiting = s.visiting \cup {n}
        /\ t.sorted = s.sorted /\ t.cycle = s.cycle /\ t \in SortStates
    BY <2>1, <2>3, <2>4, <2>5 DEF SortStates
  <2>7. On(st) = {n}
    BY <2>2, <2>3 DEF On
  <2>8. StackOK(R, n, st, s.visited)
    <3>1. \A i \in 1..Len(st) : i = 1 /\ st[i] = h
      BY <2>3
    <3>2. \A i \in 1..(Len(st) - 1) : FALSE
      BY <2>3
    <3> QED
      BY <2>2, <2>3, <3>1, <3>2 DEF StackOK
  <2>9. SortOK(R, n, t)
    BY <2>1, <2>6, <2>7, <2>8 DEF SortOK
  <2>10. SortLeft(t) <= Rounds
    <3> DEFINE w == Cardinality(Work(t.st, t.visited))
    <3>1. w \in Nat /\ w + 1 <= Rounds
      BY WorkIsFinite
    <3>2. SortLeft(t) = w + 1
      BY <2>3, <2>6 DEF SortLeft
    <3> QED
      BY <3>1, <3>2
  <2>11. 0 \in 0..Rounds /\ Rounds - 0 = Rounds
    BY <1>2
  <2> QED
    BY <2>6, <2>9, <2>10, <2>11 DEF t
<1>4. ASSUME NEW i \in 0..(Rounds - 1), i \in Good PROVE i + 1 \in Good
  <2> DEFINE a == f[i]
             b == f[i + 1]
  <2>1. i + 1 \in 1..Rounds /\ i + 1 \in 0..Rounds /\ (i + 1) - 1 = i
    BY <1>2
  <2>2. b = SortStep(n, a)
    BY <1>1, <2>1
  <2>3. SortOK(R, n, a) /\ s.visited \subseteq a.visited /\ (Done(a) \/ SortLeft(a) <= Rounds - i)
    BY <1>4
  <2> HIDE DEF a, b
  <2>4. /\ SortOK(R, n, b) /\ a.visited \subseteq b.visited
        /\ Done(a) => b = a
        /\ ~ Done(a) => Done(b) \/ SortLeft(b) < SortLeft(a)
    BY <2>2, <2>3, SortStepOK
  <2>5. SortLeft(a) \in Nat /\ SortLeft(b) \in Nat
    <3>1. \A x, y : Cardinality(Work(x, y)) \in Nat
      BY WorkIsFinite
    <3> QED
      BY <3>1 DEF SortLeft
  <2>6. Done(b) \/ SortLeft(b) <= Rounds - (i + 1)
    BY <1>2, <2>3, <2>4, <2>5
  <2> QED
    BY <2>1, <2>3, <2>4, <2>6 DEF b
<1> HIDE DEF Good
<1>5. \A i \in 0..Rounds : i \in Good
  BY <1>2, <1>3, <1>4, UpTo
<1> DEFINE t == f[Rounds]
<1>6. SortOK(R, n, t) /\ s.visited \subseteq t.visited /\ (Done(t) \/ SortLeft(t) <= 0)
  BY <1>2, <1>5 DEF Good
<1> HIDE DEF t
<1>7. Done(t)
  <2>1. ASSUME ~ Done(t) PROVE FALSE
    <3> DEFINE w == Cardinality(Work(t.st, t.visited))
    <3>1. w \in Nat
      BY WorkIsFinite
    <3>2. SortLeft(t) = w + 1
      BY <2>1 DEF SortLeft, Done
    <3> HIDE DEF w
    <3> QED
      BY <1>6, <2>1, <3>1, <3>2
  <2> QED
    BY <2>1
<1>8. ASSUME ~ t.cycle PROVE BetweenOK(R, t) /\ n \in t.visited
  <2>1. t.st = <<>>
    BY <1>7, <1>8 DEF Done
  <2>2. On(t.st) = {}
    BY <2>1 DEF On
  <2> QED
    BY <1>6, <1>8, <2>1, <2>2 DEF SortOK, BetweenOK, StackOK
<1>9. t.cycle => Cyclic(R)
  BY <1>6 DEF SortOK
<1> QED
  BY <1>1, <1>6, <1>8, <1>9 DEF t

\* f is the function that SortAll defines, up to k.
SortAllAt(f, nodes, k) ==
    f = [i \in 0..k |-> IF i = 0 THEN Unsorted ELSE SortNext(f[i - 1], nodes[i])]

\* There is such a function.
LEMMA SomeSortAll ==
    ASSUME NEW nodes, NEW N \in Nat
    PROVE  \E f : SortAllAt(f, nodes, N)
<1> DEFINE Good == {k \in 0..N : \E f : SortAllAt(f, nodes, k)}
<1>1. 0 \in Good
  <2> DEFINE f == [i \in 0..0 |-> Unsorted]
  <2>1. SortAllAt(f, nodes, 0)
    BY DEF SortAllAt
  <2> QED
    BY <2>1
<1>2. ASSUME NEW k \in 0..(N - 1), k \in Good PROVE k + 1 \in Good
  <2>1. PICK f : SortAllAt(f, nodes, k)
    BY <1>2
  <2> DEFINE h == [j \in 0..(k + 1) |-> IF j = 0 THEN Unsorted
                                        ELSE SortNext(f[j - 1], nodes[j])]
  <2>2. \A j \in 0..k : f[j] = IF j = 0 THEN Unsorted ELSE SortNext(f[j - 1], nodes[j])
    BY <2>1, Zenon DEF SortAllAt
  <2>3. \A j \in 0..k : h[j] = f[j]
    <3>1. 0..k \subseteq 0..(k + 1)
      OBVIOUS
    <3>2. \A j \in 0..k : h[j] = IF j = 0 THEN Unsorted ELSE SortNext(f[j - 1], nodes[j])
      BY <3>1, Zenon
    <3> QED
      BY <2>2, <3>2, Zenon
  <2>4. \A j \in 0..(k + 1) : j # 0 => j - 1 \in 0..k
    OBVIOUS
  <2>5. h = [j \in 0..(k + 1) |-> IF j = 0 THEN Unsorted ELSE SortNext(h[j - 1], nodes[j])]
    <3>1. \A j \in 0..(k + 1) : (IF j = 0 THEN Unsorted ELSE SortNext(f[j - 1], nodes[j]))
                                 = (IF j = 0 THEN Unsorted ELSE SortNext(h[j - 1], nodes[j]))
      BY <2>3, <2>4, Zenon
    <3> QED
      BY <3>1, Zenon
  <2>6. SortAllAt(h, nodes, k + 1)
    BY <2>5, Zenon DEF SortAllAt
  <2>7. k + 1 \in 0..N
    OBVIOUS
  <2> QED
    BY <2>6, <2>7
<1> HIDE DEF Good
<1>3. \A k \in 0..N : k \in Good
  BY <1>1, <1>2, UpTo
<1>4. N \in Good
  BY <1>3
<1> QED
  BY <1>4 DEF Good

\* All nodes are visited, or there is a cycle.
LEMMA SortAllOK ==
    ASSUME dependency \in Graph, DependencyTyped, NEW R, R \subseteq Node, Shut(Dep, R),
           NEW nodes \in Seq(Node), Range(nodes) \subseteq R
    PROVE  LET t == SortAll(nodes)
           IN  \/ t.cycle /\ Cyclic(R)
               \/ ~ t.cycle /\ BetweenOK(R, t) /\ Range(nodes) \subseteq t.visited
<1> DEFINE N == Len(nodes)
           f == CHOOSE f : SortAllAt(f, nodes, N)
<1>1. N \in Nat /\ DOMAIN nodes = 1..N
  OBVIOUS
<1>2. SortAllAt(f, nodes, N)
  BY <1>1, SomeSortAll
<1>3. SortAll(nodes) = f[N]
  BY Zenon DEF SortAll, SortAllAt
<1> HIDE DEF f, N
<1>4. \A i \in 0..N : f[i] = IF i = 0 THEN Unsorted ELSE SortNext(f[i - 1], nodes[i])
  BY <1>2, Zenon DEF SortAllAt
<1>5. 0 \in 0..N /\ N \in 0..N
  BY <1>1
<1> DEFINE Fine(i) == \/ f[i].cycle /\ Cyclic(R)
                      \/ /\ ~ f[i].cycle /\ BetweenOK(R, f[i])
                         /\ \A j \in 1..i : nodes[j] \in f[i].visited
           Good == {i \in 0..N : Fine(i)}
<1>6. 0 \in Good
  <2>1. f[0] = Unsorted
    BY <1>4, <1>5, Zenon
  <2>2. /\ Unsorted.st = <<>> /\ Unsorted.visited = {} /\ Unsorted.visiting = {}
        /\ Unsorted.sorted = <<>> /\ Unsorted.cycle = FALSE
    BY DEF Unsorted
  <2>3. Unsorted \in SortStates
    BY DEF Unsorted, SortStates
  <2>4. SortedOK(<<>>, {})
    BY DEF SortedOK, Range
  <2>5. BetweenOK(R, Unsorted)
    BY <2>2, <2>3, <2>4 DEF BetweenOK
  <2> QED
    BY <1>5, <2>1, <2>2, <2>5
<1>7. ASSUME NEW i \in 0..(N - 1), i \in Good PROVE i + 1 \in Good
  <2> DEFINE a == f[i]
             b == f[i + 1]
             m == nodes[i + 1]
  <2>1. i + 1 \in 0..N /\ i + 1 # 0 /\ (i + 1) - 1 = i /\ i + 1 \in 1..N
    BY <1>1
  <2>2. b = SortNext(a, m)
    BY <1>4, <2>1
  <2>3. m \in R
    BY <1>1, <2>1 DEF Range
  <2>4. \/ a.cycle /\ Cyclic(R)
        \/ ~ a.cycle /\ BetweenOK(R, a) /\ \A j \in 1..i : nodes[j] \in a.visited
    BY <1>7
  <2> HIDE DEF a, b, m
  <2>5. CASE a.cycle /\ Cyclic(R)
    <3>1. b = a
      BY <2>2, <2>5 DEF SortNext
    <3> QED
      BY <2>1, <2>5, <3>1 DEF b
  <2>6. CASE ~ a.cycle /\ BetweenOK(R, a) /\ \A j \in 1..i : nodes[j] \in a.visited
    <3>1. b = SortFrom(m, a)
      BY <2>2, <2>6 DEF SortNext
    <3>2. \/ b.cycle /\ Cyclic(R)
          \/ ~ b.cycle /\ BetweenOK(R, b) /\ a.visited \cup {m} \subseteq b.visited
      BY <2>3, <2>6, <3>1, SortFromOK
    <3>3. \A j \in 1..(i + 1) : j \in 1..i \/ j = i + 1
      OBVIOUS
    <3>4. a.visited \cup {m} \subseteq b.visited => \A j \in 1..(i + 1) : nodes[j] \in b.visited
      BY <2>6, <3>3 DEF m
    <3> QED
      BY <2>1, <3>2, <3>4 DEF b
  <2> QED
    BY <2>4, <2>5, <2>6
<1> HIDE DEF Good
<1>8. \A i \in 0..N : i \in Good
  BY <1>1, <1>6, <1>7, UpTo
<1>9. Fine(N)
  BY <1>5, <1>8 DEF Good
<1>10. (\A j \in 1..N : nodes[j] \in f[N].visited) => Range(nodes) \subseteq f[N].visited
  BY <1>1 DEF Range
<1> QED
  BY <1>3, <1>9, <1>10

-----------------------------------------------------------------------------
(* The sort of dependencies: in the states of the two graphs *)

\* Only clusters and hosts are given dependencies, and what has some is there: a
\* removal takes them along, and a type changes only while the node is not there.
LEMMA DependencyTypedKept ==
    ASSUME Inv, DependencyTyped, Next
    PROVE  DependencyTyped'
<1> USE NodeNames
<1>a. primary \in Graph /\ dependency \in Graph
  BY DEF Inv, TypeOK
<1>b. {"ENVIRONMENT", "CLUSTER", "HOST"} \subseteq Type
  BY DEF Type
<1>c. ASSUME NEW p, Commit(p, dependency) PROVE DependencyTyped'
  BY <1>a, <1>c, CommittedFields DEF Commit, DependencyTyped
<1>d. ASSUME NEW p, NEW n \in Node, Commit(p, Removed(dependency, n)) PROVE DependencyTyped'
  <2> DEFINE c == Removed(dependency, n)
  <2>0. /\ c \in Graph /\ c.live = dependency.live \ {n} /\ c.type = dependency.type
        /\ c.edges = {e \in dependency.edges : n \notin {e[1], e[2]}}
    BY <1>a, RemovedFields DEF Removed
  <2>1. /\ dependency'.live = dependency.live \ {n} /\ dependency'.type = dependency.type
        /\ dependency'.edges = {e \in dependency.edges : n \notin {e[1], e[2]}}
    <3> HIDE DEF c
    <3>1. dependency' = Committed(dependency, c)
      BY <1>d DEF Commit, c
    <3> QED
      BY <1>a, <2>0, <3>1, CommittedFields
  <2> QED
    BY <2>1 DEF DependencyTyped
<1>e. ASSUME NEW p, NEW n \in Node, NEW t \in Type, Commit(p, Created(dependency, n, t))
      PROVE  DependencyTyped'
  <2>1. /\ Created(dependency, n, t) \in Graph
        /\ Created(dependency, n, t).live = dependency.live \cup {n}
        /\ Created(dependency, n, t).edges = dependency.edges
        /\ \A m \in Node : m # n \/ n \in dependency.live =>
                                Created(dependency, n, t).type[m] = dependency.type[m]
    BY <1>a, CreatedFields
  <2>2. /\ dependency'.live = Created(dependency, n, t).live
        /\ dependency'.edges = Created(dependency, n, t).edges
        /\ dependency'.type = Created(dependency, n, t).type
    BY <1>a, <1>e, <2>1, CommittedFields DEF Commit
  <2>3. \A d \in dependency.edges : d[1] \in Node
    BY <1>a DEF Graph
  <2> QED
    BY <2>1, <2>2, <2>3 DEF DependencyTyped
<1>f. ASSUME NEW p, NEW n \in Node, NEW m \in Node, Commit(p, Unlinked(dependency, n, m))
      PROVE  DependencyTyped'
  <2>1. /\ dependency'.live = dependency.live /\ dependency'.type = dependency.type
        /\ dependency'.edges \subseteq dependency.edges
    BY <1>a, <1>f, UnlinkedFields, CommittedFields DEF Commit
  <2> QED
    BY <2>1 DEF DependencyTyped
<1>g. ASSUME NEW p, NEW n \in Node, NEW m \in Node, Commit(p, Linked(dependency, n, m)),
             n \in dependency.live, dependency.type[n] \notin {"ENVIRONMENT", "UNKNOWN"}
      PROVE  DependencyTyped'
  <2>1. /\ dependency'.live = dependency.live /\ dependency'.type = dependency.type
        /\ dependency'.edges = dependency.edges \cup {<<n, m>>}
    <3> DEFINE c == Linked(dependency, n, m)
    <3>1. /\ c \in Graph /\ c.live = dependency.live /\ c.type = dependency.type
          /\ c.edges = dependency.edges \cup {<<n, m>>}
      BY <1>a, LinkedFields
    <3>2. dependency' = Committed(dependency, c)
      BY <1>g DEF Commit
    <3> HIDE DEF c
    <3> QED
      BY <1>a, <3>1, <3>2, CommittedFields
  <2>2. dependency.type[n] \in {"CLUSTER", "HOST"}
    BY <1>a, <1>g DEF Graph, Type
  <2>3. <<n, m>>[1] = n
    OBVIOUS
  <2> QED
    BY <1>g, <2>1, <2>2, <2>3 DEF DependencyTyped
<1>1. ASSUME NEW e \in Env, CreateEnv(e) \/ RemoveEnv(e) PROVE DependencyTyped'
  BY <1>1, <1>b, <1>c, <1>d, <1>e DEF CreateEnv, RemoveEnv
<1>2. ASSUME NEW h \in Host, AddHost(h) PROVE DependencyTyped'
  BY <1>2, <1>b, <1>e DEF AddHost
<1>3. ASSUME NEW n \in Cluster, RemoveCluster(n) PROVE DependencyTyped'
  BY <1>3, <1>c DEF RemoveCluster
<1>4. ASSUME NEW e \in Env, NEW n \in Cluster,
             AddClusterToEnv(e, n) \/ RemoveClusterFromEnv(e, n)
      PROVE  DependencyTyped'
  BY <1>4, <1>b, <1>c, <1>e DEF AddClusterToEnv, RemoveClusterFromEnv
<1>5. ASSUME NEW e \in Env, NEW n \in Node, RemoveHost(e, n) PROVE DependencyTyped'
  BY <1>5, <1>c DEF RemoveHost
<1>6. ASSUME NEW p \in Cluster, NEW n \in Cluster,
             AddClusterToCluster(p, n) \/ RemoveClusterFromCluster(p, n)
      PROVE  DependencyTyped'
  BY <1>6, <1>b, <1>c, <1>e DEF AddClusterToCluster, RemoveClusterFromCluster
<1>7. ASSUME NEW p \in Cluster, NEW h \in Host,
             AddHostToCluster(p, h) \/ RemoveHostFromCluster(p, h)
      PROVE  DependencyTyped'
  BY <1>7, <1>b, <1>c, <1>e DEF AddHostToCluster, RemoveHostFromCluster
<1>8. ASSUME NEW n \in Node, NEW d \in Node, AddDependency(n, d) \/ RemoveDependency(n, d)
      PROVE  DependencyTyped'
  BY <1>8, <1>f, <1>g DEF AddDependency, RemoveDependency
<1> QED
  BY <1>1, <1>2, <1>3, <1>4, <1>5, <1>6, <1>7, <1>8 DEF Next

\* A sort of all nodes of R after what they need shows that R has no cycle.
LEMMA SortedIsAcyclic ==
    ASSUME NEW R, NEW sorted, SortedOK(sorted, R), Dep \subseteq Node \X Node
    PROVE  ~ Cyclic(R)
<1> SUFFICES ASSUME NEW n \in R, n \in Reached(Dep, Needs(n)) PROVE FALSE
  BY DEF Cyclic
<1>1. /\ sorted \in Seq(Node) /\ Range(sorted) = R
      /\ \A i, j \in 1..Len(sorted) : sorted[i] = sorted[j] => i = j
      /\ \A i \in 1..Len(sorted) : \A m \in Needs(sorted[i]) :
            \E j \in 1..(i - 1) : sorted[j] = m
  BY DEF SortedOK
<1>2. Len(sorted) \in Nat /\ DOMAIN sorted = 1..Len(sorted)
  BY <1>1
<1>3. PICK i \in 1..Len(sorted) : sorted[i] = n
  BY <1>1, <1>2 DEF Range
<1> DEFINE C == {sorted[j] : j \in 1..(i - 1)}
           S == Needs(n)
<1>4. S \subseteq C
  BY <1>1, <1>3
<1>5. ASSUME NEW d \in Dep, d[1] \in C PROVE d[2] \in C
  <2>1. PICK j \in 1..(i - 1) : sorted[j] = d[1]
    BY <1>5
  <2>2. d = <<d[1], d[2]>> /\ d[2] \in Node
    OBVIOUS
  <2>3. d[2] \in Needs(sorted[j])
    BY <2>1, <2>2 DEF Needs
  <2>4. j \in 1..Len(sorted)
    BY <1>2
  <2>5. PICK l \in 1..(j - 1) : sorted[l] = d[2]
    BY <1>1, <2>3, <2>4
  <2>6. l \in 1..(i - 1)
    BY <1>2
  <2> QED
    BY <2>5, <2>6
<1>6. n \notin C
  <2>1. \A j \in 1..(i - 1) : j \in 1..Len(sorted) /\ j # i
    BY <1>2
  <2> QED
    BY <1>1, <1>3, <2>1
<1> HIDE DEF C, S
<1>7. Reached(Dep, S) \subseteq C
  BY <1>4, <1>5, ReachedWithin
<1> QED
  BY <1>6, <1>7 DEF S

\* A list read backwards.
LEMMA Backwards ==
    ASSUME NEW S, NEW s \in Seq(S)
    PROVE  /\ Reverse(s) \in Seq(S) /\ Len(Reverse(s)) = Len(s)
           /\ Len(s) \in Nat /\ DOMAIN Reverse(s) = 1..Len(s)
           /\ \A i \in 1..Len(s) : /\ (Len(s) - i) + 1 \in 1..Len(s)
                                   /\ Reverse(s)[i] = s[(Len(s) - i) + 1]
           /\ Range(Reverse(s)) = Range(s)
<1> DEFINE r == Reverse(s)
           n == Len(s)
<1>1. n \in Nat /\ DOMAIN s = 1..n /\ \A i \in 1..n : s[i] \in S
  OBVIOUS
<1>2. r = [i \in 1..n |-> s[(n - i) + 1]]
  BY DEF Reverse
<1>3. \A i \in 1..n : (n - i) + 1 \in 1..n
  BY <1>1
<1>4. \A i \in 1..n : (n - ((n - i) + 1)) + 1 = i
  BY <1>1
<1> HIDE DEF r, n
<1>5. DOMAIN r = 1..n /\ \A i \in 1..n : r[i] = s[(n - i) + 1]
  BY <1>2
<1>6. r \in Seq(S) /\ Len(r) = n
  BY <1>1, <1>2, <1>3
<1>7. Range(r) = Range(s)
  <2>1. ASSUME NEW i \in 1..n PROVE \E j \in 1..n : r[j] = s[i]
    BY <1>3, <1>4, <1>5
  <2>2. \A i \in 1..n : \E j \in 1..n : s[j] = r[i]
    BY <1>3, <1>5
  <2>3. Range(r) = {r[i] : i \in 1..n} /\ Range(s) = {s[i] : i \in 1..n}
    BY <1>1, <1>5, Zenon DEF Range
  <2> QED
    BY <2>1, <2>2, <2>3
<1> QED
  BY <1>1, <1>3, <1>5, <1>6, <1>7 DEF r, n

\* What is sorted is closed, and read backwards it has every node before what it
\* needs.
LEMMA SortedIsOrdered ==
    ASSUME NEW V, NEW sorted, SortedOK(sorted, V), Dep \subseteq Node \X Node
    PROVE  /\ Shut(Dep, V)
           /\ Range(Reverse(sorted)) = V
           /\ \A i, j \in DOMAIN Reverse(sorted) :
                 /\ Reverse(sorted)[i] = Reverse(sorted)[j] => i = j
                 /\ <<Reverse(sorted)[i], Reverse(sorted)[j]>> \in Dep => i < j
<1> DEFINE r == Reverse(sorted)
           n == Len(sorted)
<1>1. /\ sorted \in Seq(Node) /\ Range(sorted) = V
      /\ \A i, j \in 1..n : sorted[i] = sorted[j] => i = j
      /\ \A i \in 1..n : \A m \in Needs(sorted[i]) :
            \E j \in 1..(i - 1) : sorted[j] = m
  BY DEF SortedOK
<1>2. n \in Nat /\ DOMAIN sorted = 1..n /\ \A i \in 1..n : sorted[i] \in Node
  BY <1>1
<1>3. /\ DOMAIN r = 1..n /\ Range(r) = Range(sorted)
      /\ \A i \in 1..n : (n - i) + 1 \in 1..n /\ r[i] = sorted[(n - i) + 1]
  BY <1>1, Backwards
<1> HIDE DEF r, n
<1>4. Range(sorted) = {sorted[i] : i \in 1..n}
  BY <1>2, Zenon DEF Range
<1>5. Shut(Dep, V)
  <2> SUFFICES ASSUME NEW d \in Dep, d[1] \in V PROVE d[2] \in V
    BY DEF Shut
  <2>1. PICK i \in 1..n : sorted[i] = d[1]
    BY <1>1, <1>4
  <2>2. d = <<d[1], d[2]>> /\ d[2] \in Node
    OBVIOUS
  <2>3. d[2] \in Needs(sorted[i])
    BY <2>1, <2>2 DEF Needs
  <2>4. PICK j \in 1..(i - 1) : sorted[j] = d[2]
    BY <1>1, <2>3
  <2>5. j \in 1..n
    BY <1>2
  <2> QED
    BY <1>1, <1>4, <2>4, <2>5
<1>6. ASSUME NEW i \in 1..n, NEW j \in 1..n
      PROVE  /\ r[i] = r[j] => i = j
             /\ <<r[i], r[j]>> \in Dep => i < j
  <2> DEFINE a == (n - i) + 1
             b == (n - j) + 1
  <2>1. a \in 1..n /\ b \in 1..n /\ r[i] = sorted[a] /\ r[j] = sorted[b]
    BY <1>3
  <2>2. (a = b => i = j) /\ (b < a => i < j)
    BY <1>2
  <2> HIDE DEF a, b
  <2>3. r[i] = r[j] => i = j
    BY <1>1, <2>1, <2>2
  <2>4. ASSUME <<r[i], r[j]>> \in Dep PROVE i < j
    <3>1. sorted[b] \in Node /\ sorted[b] \in Needs(sorted[a])
      BY <1>2, <2>1, <2>4 DEF Needs
    <3>2. PICK c \in 1..(a - 1) : sorted[c] = sorted[b]
      BY <1>1, <2>1, <3>1
    <3>3. c \in 1..n /\ c < a
      BY <1>2, <2>1
    <3>4. c = b
      BY <1>1, <2>1, <3>2, <3>3
    <3> QED
      BY <2>2, <3>3, <3>4
  <2> QED
    BY <2>3, <2>4
<1> QED
  BY <1>1, <1>3, <1>5, <1>6 DEF r

\* What an environment reaches is there, and Visit lists all of it but the
\* environments.
LEMMA MembersListed ==
    ASSUME Inv, TypesFit, NEW e \in all_environments(primary)
    PROVE  LET found == Visit(primary, Type \ {"ENVIRONMENT"}, e).found
               X == Reached(primary.edges, {e}) \ all_environments(primary)
           IN  found \in Seq(Node) /\ Range(found) = X /\ X \subseteq Node
<1> DEFINE R == Reached(primary.edges, {e})
           types == Type \ {"ENVIRONMENT"}
<1>1. Is(primary, e, "ENVIRONMENT") /\ primary \in Graph /\ e \in Node
  BY DEF Is, all_environments, Inv, TypeOK, Graph
<1>2. primary.edges \subseteq Node \X Node /\ primary.live \subseteq Node
  BY <1>1 DEF Graph
<1>3. R \subseteq primary.live
  BY <1>1, HeldIsWithin DEF Within
<1>4. /\ Visit(primary, types, e).found \in Seq(Node)
      /\ \A v : v \in Range(Visit(primary, types, e).found) <=>
                  v \in R /\ primary.type[v] \in types
  <2> HIDE DEF types
  <2> QED
    BY <1>1, <1>2, VisitReaches
<1>5. \A v \in R : primary.type[v] \in Type
  BY <1>1, <1>2, <1>3 DEF Graph
<1>6. \A v : v \in R /\ primary.type[v] \in types <=> v \in R \ all_environments(primary)
  <2> HIDE DEF R
  <2> QED
    BY <1>3, <1>5 DEF all_environments
<1> QED
  BY <1>2, <1>3, <1>4, <1>6

\* The sort, in a state where the types are as they should be.
LEMMA InvSorts == Inv /\ TypesFit /\ DependencyTyped => DependenciesSorted
<1> SUFFICES ASSUME Inv, TypesFit, DependencyTyped, NEW e \in all_environments(primary)
             PROVE  LET nodes == Reached(Dep, Reached(primary.edges, {e})
                                                 \ all_environments(primary))
                        t == environment_topological_sort(e)
                    IN  /\ t.cycle <=> \E n \in nodes :
                              n \in Reached(Dep, {d[2] : d \in {d \in Dep : d[1] = n}})
                        /\ ~ t.cycle =>
                              /\ Range(t.sorted) = nodes
                              /\ \A i, j \in DOMAIN t.sorted :
                                    /\ t.sorted[i] = t.sorted[j] => i = j
                                    /\ <<t.sorted[i], t.sorted[j]>> \in Dep => i < j
  BY DEF DependenciesSorted, Dep
<1> DEFINE found == Visit(primary, Type \ {"ENVIRONMENT"}, e).found
           X == Reached(primary.edges, {e}) \ all_environments(primary)
           R == Reached(Dep, X)
           s == SortAll(found)
           t == environment_topological_sort(e)
<1>1. found \in Seq(Node) /\ Range(found) = X /\ X \subseteq Node
  BY MembersListed
<1>2. dependency \in Graph /\ Dep \subseteq Node \X Node
  BY DEF Inv, TypeOK, Graph, Dep
<1>3. t.cycle = s.cycle /\ t.sorted = Reverse(s.sorted)
  BY DEF environment_topological_sort
<1> HIDE DEF found, X, t
<1>4. R \subseteq Node /\ X \subseteq R /\ Shut(Dep, R)
  BY <1>1, <1>2, ReachedIsShut
<1>5. \/ s.cycle /\ Cyclic(R)
      \/ ~ s.cycle /\ BetweenOK(R, s) /\ X \subseteq s.visited
  <2> HIDE DEF R
  <2> QED
    BY <1>1, <1>2, <1>4, SortAllOK
<1>6. \A n : {d[2] : d \in {d \in Dep : d[1] = n}} = Needs(n)
  BY <1>2 DEF Needs
<1>7. Cyclic(R) <=> \E n \in R : n \in Reached(Dep, {d[2] : d \in {d \in Dep : d[1] = n}})
  BY <1>6 DEF Cyclic
<1> HIDE DEF s
<1>8. ASSUME ~ s.cycle
      PROVE  /\ ~ Cyclic(R)
             /\ Range(t.sorted) = R
             /\ \A i, j \in DOMAIN t.sorted :
                   /\ t.sorted[i] = t.sorted[j] => i = j
                   /\ <<t.sorted[i], t.sorted[j]>> \in Dep => i < j
  <2> DEFINE V == s.visited
  <2>1. V \subseteq R /\ X \subseteq V /\ SortedOK(s.sorted, V)
    BY <1>5, <1>8 DEF BetweenOK
  <2> HIDE DEF V
  <2>2. /\ Shut(Dep, V) /\ Range(t.sorted) = V
        /\ \A i, j \in DOMAIN t.sorted :
              /\ t.sorted[i] = t.sorted[j] => i = j
              /\ <<t.sorted[i], t.sorted[j]>> \in Dep => i < j
    BY <1>2, <1>3, <2>1, SortedIsOrdered
  <2>3. R \subseteq V
    BY <2>1, <2>2, ReachedWithin DEF Shut
  <2>4. V = R
    BY <2>1, <2>3
  <2>5. ~ Cyclic(R)
    BY <1>2, <2>1, <2>4, SortedIsAcyclic
  <2> QED
    BY <2>2, <2>4, <2>5
<1>9. t.cycle <=> Cyclic(R)
  BY <1>3, <1>5, <1>8
<1>10. ~ t.cycle => /\ Range(t.sorted) = R
                    /\ \A i, j \in DOMAIN t.sorted :
                          /\ t.sorted[i] = t.sorted[j] => i = j
                          /\ <<t.sorted[i], t.sorted[j]>> \in Dep => i < j
  BY <1>3, <1>8
<1> HIDE DEF R
<1>11. /\ t.cycle <=> \E n \in R : n \in Reached(Dep, {d[2] : d \in {d \in Dep : d[1] = n}})
       /\ ~ t.cycle => /\ Range(t.sorted) = R
                       /\ \A i, j \in DOMAIN t.sorted :
                             /\ t.sorted[i] = t.sorted[j] => i = j
                             /\ <<t.sorted[i], t.sorted[j]>> \in Dep => i < j
  BY <1>7, <1>9, <1>10
<1> QED
  BY <1>11, Zenon DEF R, t, X

(***************************************************************************)
(* environment_topological_sort puts every node before what it depends on, *)
(* and throws just for a cycle, in every state that the calls can leave.   *)
(***************************************************************************)
THEOREM DependenciesAreSorted == Spec => []DependenciesSorted
<1>1. Init => DependencyTyped
  BY DEF Init, DependencyTyped
<1>2. DependencyTyped /\ UNCHANGED vars => DependencyTyped'
  BY DEF DependencyTyped, vars
<1>3. Inv /\ DependencyTyped /\ [Next]_vars => DependencyTyped'
  BY <1>2, DependencyTypedKept
<1> QED
  BY <1>1, <1>3, InvSorts, Invariance, TypesFitNames, PTL DEF Spec

-----------------------------------------------------------------------------
(* Orphans *)

\* The search up from a node meets those from which the search down meets it.
LEMMA UpAndDown ==
    ASSUME Inv, NEW e \in Node, NEW n \in Node
    PROVE  e \in Ancestors(n) <=> n \in Reached(primary.edges, {e})
<1> DEFINE E == primary.edges
           B == {e}
           R == Reached(E, B)
<1>1. E \subseteq Node \X Node /\ B \subseteq Node
  BY DEF Inv, TypeOK, Graph
<1>2. e \in B /\ \A x : x \in B => x = e
  OBVIOUS
<1> HIDE DEF E, B
<1>3. R \subseteq Node /\ B \subseteq R /\ Shut(E, R)
  BY <1>1, ReachedIsShut
<1>4. ASSUME e \in Ancestors(n), n \notin R PROVE FALSE
  <2> DEFINE S == Node \ R
  <2>1. n \in S /\ S \in SUBSET Node
    BY <1>4
  <2>2. \A d \in E : d[2] \in S => d[1] \in S
    BY <1>1, <1>3 DEF Shut
  <2>3. e \notin S
    BY <1>2, <1>3
  <2> HIDE DEF S, R
  <2> QED
    BY <1>4, <2>1, <2>2, <2>3 DEF Ancestors, E
<1>5. ASSUME n \in R, NEW S \in SUBSET Node, n \in S,
             \A d \in E : d[2] \in S => d[1] \in S
      PROVE  e \in S
  <2>1. SUFFICES ASSUME e \notin S PROVE FALSE
    OBVIOUS
  <2> DEFINE C == Node \ S
  <2>2. B \subseteq C /\ \A d \in E : d[1] \in C => d[2] \in C
    BY <1>1, <1>2, <1>5, <2>1
  <2> HIDE DEF C
  <2>3. R \subseteq C
    BY <2>2, ReachedWithin
  <2> QED
    BY <1>5, <2>3 DEF C
<1> HIDE DEF R
<1>6. n \in R => e \in Ancestors(n)
  BY <1>5 DEF Ancestors, E
<1> QED
  BY <1>4, <1>6 DEF R, E, B

\* What is above a node that is there is there.
LEMMA AncestorsLive ==
    ASSUME Inv, NEW n \in primary.live
    PROVE  Ancestors(n) \subseteq primary.live
<1>1. primary.live \in SUBSET Node /\ primary.edges \subseteq Node \X Node
  BY DEF Inv, TypeOK, Graph
<1>2. \A d \in primary.edges : d[2] \in primary.live => d[1] \in primary.live
  <2> TAKE d \in primary.edges
  <2>1. d = <<d[1], d[2]>> /\ d[1] \in Node /\ d[2] \in Node
    BY <1>1
  <2>2. <<d[1], d[2]>> \in primary.edges
    BY <2>1
  <2> QED
    BY <2>1, <2>2, Zenon DEF Inv, WellFormed
<1> QED
  BY <1>1, <1>2 DEF Ancestors

\* What an environment reaches, by the search that lists what is no orphan and by
\* the one that lists clusters.
LEMMA EnvironmentReaches ==
    ASSUME Inv, NEW e \in all_environments(primary)
    PROVE  /\ Visit(primary, {}, e).visited = Reached(primary.edges, {e})
           /\ \A v : v \in Range(all_clusters(primary, e)) <=>
                       v \in Reached(primary.edges, {e}) /\ primary.type[v] = "CLUSTER"
<1>1. primary.edges \subseteq Node \X Node /\ e \in Node
  BY DEF Inv, TypeOK, Graph, all_environments
<1> DEFINE g == primary
<1>2. g.edges \subseteq Node \X Node
  BY <1>1
<1> HIDE DEF g
<1>3. \A types : /\ Visit(g, types, e).visited = Reached(g.edges, {e})
                 /\ \A v : v \in Range(Visit(g, types, e).found) <=>
                             v \in Reached(g.edges, {e}) /\ g.type[v] \in types
  BY <1>1, <1>2, VisitReaches
<1> DEFINE one == {"CLUSTER"}
           none == {}
<1>4. \A x : x \in one <=> x = "CLUSTER"
  OBVIOUS
<1>5. Range(all_clusters(g, e)) = Range(Visit(g, one, e).found)
  BY DEF all_clusters
<1> HIDE DEF one, none
<1>6. \A v : v \in Range(all_clusters(g, e)) <=>
               v \in Reached(g.edges, {e}) /\ g.type[v] = "CLUSTER"
  BY <1>3, <1>4, <1>5
<1>7. Visit(g, none, e).visited = Reached(g.edges, {e})
  BY <1>3
<1> QED
  BY <1>6, <1>7 DEF g, none

\* Orphans, in a state where the types are as they should be.
LEMMA InvLists == Inv /\ TypesFit => OrphansUnlisted
<1> SUFFICES ASSUME Inv, TypesFit PROVE OrphansUnlisted
  OBVIOUS
<1> DEFINE A == all_environments(primary)
           orphans == find_orphaned_nodes(primary)
<1>0. primary.live \subseteq Node /\ \A n \in Node : primary.type[n] \in Type
  BY DEF Inv, TypeOK, Graph
<1>1. \A e : e \in A <=> e \in primary.live /\ primary.type[e] = "ENVIRONMENT"
  BY DEF all_environments
<1> HIDE DEF A
<1>2. \A n : n \in orphans <=>
               n \in primary.live /\ \A e \in A : n \notin Reached(primary.edges, {e})
  <2>1. \A e \in A : Visit(primary, {}, e).visited = Reached(primary.edges, {e})
    BY EnvironmentReaches DEF A
  <2>2. orphans = primary.live \ UNION {Visit(primary, {}, e).visited : e \in A}
    BY DEF find_orphaned_nodes, A
  <2> HIDE DEF orphans
  <2> QED
    BY <2>1, <2>2
<1> HIDE DEF orphans
<1>3. ASSUME NEW n \in primary.live
      PROVE  n \in orphans <=> \A m \in Ancestors(n) : primary.type[m] # "ENVIRONMENT"
  <2>1. \A m \in Ancestors(n) : m \in primary.live /\ m \in Node
    BY <1>0, AncestorsLive
  <2>2. \A e \in Node : e \in Ancestors(n) <=> n \in Reached(primary.edges, {e})
    BY <1>0, UpAndDown
  <2> QED
    BY <1>0, <1>1, <1>2, <2>1, <2>2
<1>4. orphans = {n \in primary.live :
                    \A m \in Ancestors(n) : primary.type[m] # "ENVIRONMENT"}
  BY <1>2, <1>3
<1>5. ASSUME NEW n \in (primary.live \cap Cluster) \ orphans
      PROVE  n \in Range(all_clusters(primary, n[1]))
  <2>1. PICK e \in A : n \in Reached(primary.edges, {e})
    BY <1>2
  <2>2. n \in primary.live /\ n \in Cluster /\ n \in Node
    BY <1>0
  <2>3. primary.type[n] = "CLUSTER"
    BY <1>0, <2>2, NodeNames DEF TypesFit, Type
  <2>4. Is(primary, e, "ENVIRONMENT") /\ e \in Env
    BY <1>0, <1>1 DEF Is, TypesFit
  <2>5. n \in Within(e)
    BY <2>1, <2>4, HeldIsWithin
  <2>6. n[1] = e
    BY <2>2, <2>3, <2>4, <2>5, NodeNames DEF Within
  <2>7. n \in Range(all_clusters(primary, e))
    BY <2>1, <2>3, EnvironmentReaches DEF A
  <2> QED
    BY <2>6, <2>7
<1> QED
  BY <1>4, <1>5, Zenon DEF OrphansUnlisted, orphans

(***************************************************************************)
(* find_orphaned_nodes finds what belongs to no environment for the write  *)
(* API, and every other cluster is listed by its environment.              *)
(***************************************************************************)
THEOREM OrphansAreFound == Spec => []OrphansUnlisted
BY InvLists, Invariance, TypesFitNames, PTL

-----------------------------------------------------------------------------
(* The search up for a key *)

\* The edges of a graph, upwards, are what a record gives in reverse, each once.
LEMMA Predecessors ==
    ASSUME NEW g, g.edges \subseteq Node \X Node, NEW v \in Node
    PROVE  /\ Upwards(g.edges) \subseteq Node \X Node
           /\ reverse_edges(g, v) \in Seq(Node)
           /\ \A m : m \in Range(reverse_edges(g, v)) <=> <<v, m>> \in Upwards(g.edges)
           /\ Len(reverse_edges(g, v)) <= Cardinality(Node)
<1> DEFINE X == reverse_edges(g, v)
<1>1. /\ X \in Seq(Node) /\ Range(X) = {m \in Node : <<m, v>> \in g.edges}
      /\ Len(X) <= Cardinality(Node)
  BY ReverseEdges
<1>2. Upwards(g.edges) \subseteq Node \X Node
  BY DEF Upwards
<1> HIDE DEF X
<1>3. \A m : m \in Range(X) <=> <<v, m>> \in Upwards(g.edges)
  BY <1>1 DEF Upwards
<1> QED
  BY <1>1, <1>2, <1>3 DEF X

\* One round of either search.
Round(queue, g, T, s) == IF queue THEN BfsStep(g, T, s) ELSE DfsStep(g, T, s)

\* f is the function that the search defines, up to k.
KeyAt(f, queue, g, n, T, k) ==
    f = [i \in 0..k |-> IF i = 0 THEN Unsearched(n) ELSE Round(queue, g, T, f[i - 1])]

\* There is such a function.
LEMMA SomeKey ==
    ASSUME NEW queue, NEW g, NEW n, NEW T, NEW N \in Nat
    PROVE  \E f : KeyAt(f, queue, g, n, T, N)
<1> DEFINE Good == {k \in 0..N : \E f : KeyAt(f, queue, g, n, T, k)}
<1>1. 0 \in Good
  <2> DEFINE f == [i \in 0..0 |-> Unsearched(n)]
  <2>1. KeyAt(f, queue, g, n, T, 0)
    BY DEF KeyAt
  <2> QED
    BY <2>1
<1>2. ASSUME NEW k \in 0..(N - 1), k \in Good PROVE k + 1 \in Good
  <2>1. PICK f : KeyAt(f, queue, g, n, T, k)
    BY <1>2
  <2> DEFINE h == [j \in 0..(k + 1) |-> IF j = 0 THEN Unsearched(n)
                                        ELSE Round(queue, g, T, f[j - 1])]
  <2>2. \A j \in 0..k : f[j] = IF j = 0 THEN Unsearched(n) ELSE Round(queue, g, T, f[j - 1])
    BY <2>1, Zenon DEF KeyAt
  <2>3. \A j \in 0..k : h[j] = f[j]
    <3>1. 0..k \subseteq 0..(k + 1)
      OBVIOUS
    <3>2. \A j \in 0..k : h[j] = IF j = 0 THEN Unsearched(n) ELSE Round(queue, g, T, f[j - 1])
      BY <3>1, Zenon
    <3> QED
      BY <2>2, <3>2, Zenon
  <2>4. \A j \in 0..(k + 1) : j # 0 => j - 1 \in 0..k
    OBVIOUS
  <2>5. h = [j \in 0..(k + 1) |-> IF j = 0 THEN Unsearched(n)
                                  ELSE Round(queue, g, T, h[j - 1])]
    <3>1. \A j \in 0..(k + 1) :
             (IF j = 0 THEN Unsearched(n) ELSE Round(queue, g, T, f[j - 1]))
                = (IF j = 0 THEN Unsearched(n) ELSE Round(queue, g, T, h[j - 1]))
      BY <2>3, <2>4, Zenon
    <3> QED
      BY <3>1, Zenon
  <2>6. KeyAt(h, queue, g, n, T, k + 1)
    BY <2>5, Zenon DEF KeyAt
  <2>7. k + 1 \in 0..N
    OBVIOUS
  <2> QED
    BY <2>6, <2>7
<1> HIDE DEF Good
<1>3. \A k \in 0..N : k \in Good
  BY <1>1, <1>2, UpTo
<1>4. N \in Good
  BY <1>3
<1> QED
  BY <1>4 DEF Good

\* The searches give the last value of one, round by round.
LEMMA KeyIs ==
    ASSUME NEW queue \in BOOLEAN, NEW g, NEW n, NEW T
    PROVE  \E f : /\ f[0] = Unsearched(n)
                  /\ \A i \in 1..Rounds : f[i] = Round(queue, g, T, f[i - 1])
                  /\ queue => bfs_search_parents_for_first_key(g, n, T) = f[Rounds].found
                  /\ ~ queue => dfs_search_parents_for_first_key(g, n, T) = f[Rounds].found
<1> DEFINE f == CHOOSE f : KeyAt(f, queue, g, n, T, Rounds)
<1>0. Rounds \in Nat
  BY RoundsNat
<1>1. KeyAt(f, queue, g, n, T, Rounds)
  BY <1>0, SomeKey
<1>2. queue => bfs_search_parents_for_first_key(g, n, T) = f[Rounds].found
  <2> HAVE queue
  <2>1. \A h : KeyAt(h, queue, g, n, T, Rounds) <=>
               h = [i \in 0..Rounds |-> IF i = 0 THEN Unsearched(n) ELSE BfsStep(g, T, h[i - 1])]
    BY Zenon DEF KeyAt, Round
  <2>2. f = CHOOSE h : h = [i \in 0..Rounds |-> IF i = 0 THEN Unsearched(n)
                                                ELSE BfsStep(g, T, h[i - 1])]
    BY <2>1, Zenon
  <2> QED
    BY <2>2, Zenon DEF bfs_search_parents_for_first_key
<1>3. ~ queue => dfs_search_parents_for_first_key(g, n, T) = f[Rounds].found
  <2> HAVE ~ queue
  <2>1. \A h : KeyAt(h, queue, g, n, T, Rounds) <=>
               h = [i \in 0..Rounds |-> IF i = 0 THEN Unsearched(n) ELSE DfsStep(g, T, h[i - 1])]
    BY Zenon DEF KeyAt, Round
  <2>2. f = CHOOSE h : h = [i \in 0..Rounds |-> IF i = 0 THEN Unsearched(n)
                                                ELSE DfsStep(g, T, h[i - 1])]
    BY <2>1, Zenon
  <2> QED
    BY <2>2, Zenon DEF dfs_search_parents_for_first_key
<1> HIDE DEF f
<1>4. \A i \in 0..Rounds : f[i] = IF i = 0 THEN Unsearched(n) ELSE Round(queue, g, T, f[i - 1])
  BY <1>1, Zenon DEF KeyAt
<1>5. 0 \in 0..Rounds /\ \A i \in 1..Rounds : i \in 0..Rounds /\ i # 0
  BY <1>0
<1>6. f[0] = Unsearched(n) /\ \A i \in 1..Rounds : f[i] = Round(queue, g, T, f[i - 1])
  BY <1>4, <1>5, Zenon
<1> QED
  BY <1>2, <1>3, <1>6

Searches == [todo : Seq(Node), visited : SUBSET Node, found : Node \cup {NotFound}]

\* What a round leaves true, while nothing was found: none that was visited has the
\* key, and every edge up from one of them leads to one it holds.
KeyOK(E, T, n, s) ==
    /\ s \in Searches
    /\ s.visited \cup Range(s.todo) \subseteq Reached(E, {n})
    /\ n \in s.visited \cup Range(s.todo)
    /\ IF s.found = NotFound
       THEN /\ s.visited \cap T = {}
            /\ \A d \in E : d[1] \in s.visited => d[2] \in s.visited \cup Range(s.todo)
       ELSE s.found \in T \cap Reached(E, {n})

KeyDone(s) == s.todo = <<>> \/ s.found # NotFound

KeyLeft(s) == Cardinality(Node \ s.visited) * (Cardinality(Node) + 1) + Len(s.todo)

\* What is left is a number.
LEMMA KeyLeftNat ==
    ASSUME NEW s \in Searches
    PROVE  KeyLeft(s) \in Nat /\ Cardinality(Node \ s.visited) \in Nat
<1> DEFINE a == Cardinality(Node \ s.visited)
           c == Cardinality(Node)
<1>1. a \in Nat /\ c \in Nat
  BY LookupAssumption, FS_Subset, FS_CardinalityType
<1>2. Len(s.todo) \in Nat
  BY DEF Searches
<1>3. KeyLeft(s) = a * (c + 1) + Len(s.todo)
  BY DEF KeyLeft
<1> HIDE DEF a, c
<1>4. a * (c + 1) \in Nat
  BY <1>1
<1> QED
  BY <1>1, <1>2, <1>3, <1>4 DEF a

\* A round, whichever end the next node is taken from.
LEMMA KeyStepOK ==
    ASSUME NEW g, g.edges \subseteq Node \X Node, NEW T, NEW n \in Node, NEW s,
           KeyOK(Upwards(g.edges), T, n, s), s.found = NotFound,
           NEW v \in Node, NEW rest \in Seq(Node),
           Range(s.todo) = Range(rest) \cup {v}, Len(s.todo) = Len(rest) + 1
    PROVE  LET t == KeyStep(g, T, s, v, rest)
           IN  /\ KeyOK(Upwards(g.edges), T, n, t)
               /\ KeyDone(t) \/ KeyLeft(t) < KeyLeft(s)
<1> DEFINE E == Upwards(g.edges)
           R == Reached(E, {n})
           t == KeyStep(g, T, s, v, rest)
           X == reverse_edges(g, v)
           c == Cardinality(Node)
           a == Cardinality(Node \ s.visited)
<1>1. /\ s \in Searches /\ s.visited \cup Range(s.todo) \subseteq R
      /\ n \in s.visited \cup Range(s.todo) /\ s.visited \cap T = {}
      /\ \A d \in E : d[1] \in s.visited => d[2] \in s.visited \cup Range(s.todo)
  BY DEF KeyOK
<1>2. /\ E \subseteq Node \X Node /\ X \in Seq(Node) /\ Len(X) <= c
      /\ \A m : m \in Range(X) <=> <<v, m>> \in E
  BY Predecessors
<1>3. R \subseteq Node /\ Shut(E, R)
  <2> HIDE DEF E
  <2> DEFINE B == {n}
  <2>1. B \subseteq Node
    OBVIOUS
  <2> HIDE DEF B
  <2>2. Reached(E, B) \subseteq Node /\ Shut(E, Reached(E, B))
    BY <1>2, <2>1, ReachedIsShut
  <2> QED
    BY <2>2 DEF B
<1>4. c \in Nat /\ a \in Nat /\ KeyLeft(s) \in Nat
  BY <1>1, KeyLeftNat, RoundsNat
<1>5. v \in R
  BY <1>1
<1> HIDE DEF E, X, t, R
<1>6. CASE v \in s.visited
  <2>1. t = [s EXCEPT !.todo = rest]
    BY <1>6 DEF t, KeyStep
  <2>2. t \in Searches /\ t.todo = rest /\ t.visited = s.visited /\ t.found = NotFound
    BY <1>1, <2>1 DEF Searches
  <2>3. t.visited \cup Range(t.todo) = s.visited \cup Range(s.todo)
    BY <1>6, <2>2
  <2>4. KeyOK(E, T, n, t)
    BY <1>1, <2>2, <2>3 DEF KeyOK, R
  <2>5. KeyLeft(t) < KeyLeft(s)
    <3> DEFINE p == a * (c + 1)
    <3>1. p \in Nat
      <4> HIDE DEF a, c
      <4> QED
        BY <1>4
    <3>2. KeyLeft(s) = p + Len(s.todo) /\ KeyLeft(t) = p + Len(rest)
      BY <2>2 DEF KeyLeft
    <3>3. Len(rest) \in Nat
      OBVIOUS
    <3> HIDE DEF p
    <3> QED
      BY <3>1, <3>2, <3>3
  <2> QED
    BY <2>4, <2>5 DEF E, t
<1>7. CASE v \notin s.visited /\ v \in T
  <2>1. t = [todo |-> rest, visited |-> s.visited \cup {v}, found |-> v]
    BY <1>7 DEF t, KeyStep
  <2>2. /\ t \in Searches /\ t.todo = rest /\ t.visited = s.visited \cup {v} /\ t.found = v
    BY <1>1, <2>1 DEF Searches
  <2>3. v # NotFound
    BY LookupAssumption
  <2>4. t.visited \cup Range(t.todo) = s.visited \cup Range(s.todo)
    BY <2>2
  <2>5. KeyOK(E, T, n, t)
    BY <1>1, <1>5, <1>7, <2>2, <2>3, <2>4 DEF KeyOK, R
  <2>6. KeyDone(t)
    BY <2>2, <2>3 DEF KeyDone
  <2> QED
    BY <2>5, <2>6 DEF E, t
<1>8. CASE v \notin s.visited /\ v \notin T
  <2>1. t = [todo |-> rest \o X, visited |-> s.visited \cup {v}, found |-> NotFound]
    BY <1>8 DEF t, KeyStep, X
  <2>2. rest \o X \in Seq(Node) /\ Range(rest \o X) = Range(rest) \cup Range(X)
    BY <1>2, RangeOfBoth
  <2>3. Len(rest \o X) = Len(rest) + Len(X) /\ Len(X) \in Nat /\ Len(rest) \in Nat
    BY <1>2
  <2>4. /\ t \in Searches /\ t.todo = rest \o X /\ t.visited = s.visited \cup {v}
        /\ t.found = NotFound
    BY <1>1, <2>1, <2>2 DEF Searches
  <2>5. Range(X) \subseteq R
    <3> SUFFICES ASSUME NEW m \in Range(X) PROVE m \in R
      OBVIOUS
    <3>1. <<v, m>> \in E /\ <<v, m>>[1] = v /\ <<v, m>>[2] = m
      BY <1>2
    <3> QED
      BY <1>3, <1>5, <3>1 DEF Shut
  <2>6. t.visited \cup Range(t.todo) \subseteq R /\ n \in t.visited \cup Range(t.todo)
    BY <1>1, <2>2, <2>4, <2>5
  <2>7. ASSUME NEW d \in E, d[1] \in t.visited PROVE d[2] \in t.visited \cup Range(t.todo)
    <3>1. CASE d[1] \in s.visited
      BY <1>1, <2>2, <2>4, <3>1
    <3>2. CASE d[1] = v
      <4>1. d = <<v, d[2]>>
        BY <1>2, <3>2
      <4> QED
        BY <1>2, <2>2, <2>4, <4>1
    <3> QED
      BY <2>4, <2>7, <3>1, <3>2
  <2>8. KeyOK(E, T, n, t)
    BY <1>1, <1>8, <2>4, <2>6, <2>7 DEF KeyOK, R
  <2>9. KeyLeft(t) < KeyLeft(s)
    <3>1. Cardinality(Node \ t.visited) = a - 1 /\ a > 0
      <4>1. Node \ t.visited = (Node \ s.visited) \ {v} /\ v \in Node \ s.visited
        BY <1>8, <2>4
      <4>2. IsFiniteSet(Node \ s.visited)
        BY LookupAssumption, FS_Subset
      <4>3. Cardinality((Node \ s.visited) \ {v}) = a - 1
        BY <4>1, <4>2, FS_RemoveElement
      <4>4. Cardinality(Node \ t.visited) \in Nat
        BY <2>4, KeyLeftNat
      <4>5. Cardinality(Node \ t.visited) = a - 1
        BY <4>1, <4>3
      <4> HIDE DEF a
      <4> QED
        BY <1>4, <4>4, <4>5
    <3> DEFINE b == c + 1
               p == a * b
    <3>2. KeyLeft(s) = p + Len(s.todo)
      BY DEF KeyLeft
    <3>3. KeyLeft(t) = (a - 1) * b + Len(t.todo)
      BY <3>1 DEF KeyLeft
    <3> HIDE DEF a, c
    <3>4. b \in Nat /\ b > Len(X)
      BY <1>2, <1>4, <2>3
    <3> HIDE DEF b
    <3>5. (a - 1) * b = a * b - b /\ a * b \in Nat
      BY <1>4, <3>1, <3>4, Factor
    <3>6. KeyLeft(t) = (p - b) + Len(t.todo) /\ p \in Nat
      BY <3>3, <3>5
    <3> HIDE DEF p
    <3> QED
      BY <2>3, <2>4, <3>2, <3>4, <3>6
  <2> QED
    BY <2>8, <2>9 DEF E, t
<1> QED
  BY <1>6, <1>7, <1>8

\* The two ends.
LEMMA Ends ==
    ASSUME NEW s \in Seq(Node), s # <<>>
    PROVE  /\ Head(s) \in Node /\ Tail(s) \in Seq(Node)
           /\ Range(s) = Range(Tail(s)) \cup {Head(s)} /\ Len(s) = Len(Tail(s)) + 1
           /\ Last(s) \in Node /\ Front(s) \in Seq(Node)
           /\ Range(s) = Range(Front(s)) \cup {Last(s)} /\ Len(s) = Len(Front(s)) + 1
<1>1. Len(s) \in Nat /\ Len(s) > 0 /\ DOMAIN s = 1..Len(s) /\ 1 \in DOMAIN s
  OBVIOUS
<1>2. /\ Head(s) = s[1] /\ Tail(s) \in Seq(Node) /\ Len(s) = Len(Tail(s)) + 1
      /\ \A i \in 1..Len(Tail(s)) : Tail(s)[i] = s[i + 1]
      /\ DOMAIN Tail(s) = 1..Len(Tail(s)) /\ Len(Tail(s)) \in Nat
  OBVIOUS
<1>3. Range(s) = Range(Tail(s)) \cup {Head(s)}
  <2> DEFINE t == Tail(s)
             n == Len(t)
  <2>1. Range(s) = {s[i] : i \in 1..(n + 1)} /\ Range(t) = {t[i] : i \in 1..n}
    BY <1>1, <1>2, Zenon DEF Range
  <2>2. n \in Nat /\ \A i \in 1..n : t[i] = s[i + 1]
    BY <1>2
  <2> HIDE DEF t, n
  <2>3. \A i \in 1..(n + 1) : i = 1 \/ (i - 1 \in 1..n /\ (i - 1) + 1 = i)
    BY <2>2
  <2>4. \A i \in 1..n : i + 1 \in 1..(n + 1)
    BY <2>2
  <2>5. 1 \in 1..(n + 1)
    BY <2>2
  <2>6. Range(s) \subseteq Range(t) \cup {s[1]}
    <3>1. \A i \in 1..(n + 1) : i = 1 \/ (i - 1 \in 1..n /\ t[i - 1] = s[i])
      BY <2>2, <2>3
    <3> QED
      BY <2>1, <3>1
  <2>7. Range(t) \cup {s[1]} \subseteq Range(s)
    BY <2>1, <2>2, <2>4, <2>5
  <2> QED
    BY <1>2, <2>6, <2>7 DEF t
<1>4. Last(s) \in Node /\ Range(s) = Range(Front(s)) \cup {Last(s)}
  BY RangeOfTop
<1>5. Front(s) \in Seq(Node) /\ Len(Front(s)) = Len(s) - 1
  BY FrontIs
<1> QED
  BY <1>1, <1>2, <1>3, <1>4, <1>5

\* A round of either search.
LEMMA RoundOK ==
    ASSUME NEW queue \in BOOLEAN, NEW g, g.edges \subseteq Node \X Node, NEW T,
           NEW n \in Node, NEW s, KeyOK(Upwards(g.edges), T, n, s)
    PROVE  LET t == Round(queue, g, T, s)
           IN  /\ KeyOK(Upwards(g.edges), T, n, t)
               /\ KeyDone(s) => t = s
               /\ ~ KeyDone(s) => KeyDone(t) \/ KeyLeft(t) < KeyLeft(s)
<1> DEFINE t == Round(queue, g, T, s)
<1>1. s.todo \in Seq(Node)
  BY DEF KeyOK, Searches
<1>2. CASE KeyDone(s)
  <2>1. t = s
    BY <1>2 DEF Round, BfsStep, DfsStep, KeyDone
  <2> QED
    BY <1>2, <2>1
<1>3. CASE ~ KeyDone(s)
  <2>1. s.todo # <<>> /\ s.found = NotFound
    BY <1>3 DEF KeyDone
  <2>2. PICK v \in Node, rest \in Seq(Node) :
           /\ t = KeyStep(g, T, s, v, rest)
           /\ Range(s.todo) = Range(rest) \cup {v} /\ Len(s.todo) = Len(rest) + 1
    <3> DEFINE q == s.todo
    <3>1. q \in Seq(Node) /\ q # <<>>
      BY <1>1, <2>1
    <3>2. t = IF queue THEN KeyStep(g, T, s, Head(q), Tail(q))
              ELSE KeyStep(g, T, s, Last(q), Front(q))
      BY <2>1 DEF Round, BfsStep, DfsStep
    <3> HIDE DEF q, t
    <3>3. /\ Head(q) \in Node /\ Tail(q) \in Seq(Node)
          /\ Range(q) = Range(Tail(q)) \cup {Head(q)} /\ Len(q) = Len(Tail(q)) + 1
          /\ Last(q) \in Node /\ Front(q) \in Seq(Node)
          /\ Range(q) = Range(Front(q)) \cup {Last(q)} /\ Len(q) = Len(Front(q)) + 1
      BY <3>1, Ends
    <3>4. CASE queue
      BY <3>2, <3>3, <3>4 DEF q
    <3>5. CASE ~ queue
      BY <3>2, <3>3, <3>5 DEF q
    <3> QED
      BY <3>4, <3>5
  <2> HIDE DEF t
  <2>3. KeyOK(Upwards(g.edges), T, n, t) /\ (KeyDone(t) \/ KeyLeft(t) < KeyLeft(s))
    BY <2>1, <2>2, KeyStepOK
  <2> QED
    BY <1>3, <2>3 DEF t
<1> QED
  BY <1>2, <1>3

\* The first m of the queue are at most k edges away, the others k + 1; what is
\* less than k edges away was visited, and what is k away was or is among the m.
LayerOK(E, n, s, k, m) ==
    /\ s.visited \subseteq Near(E, {n}, k)
    /\ k > 0 => Near(E, {n}, k - 1) \subseteq s.visited
    /\ \A i \in 1..m : s.todo[i] \in Near(E, {n}, k)
    /\ \A i \in 1..Len(s.todo) : s.todo[i] \in Near(E, {n}, k + 1)
    /\ \A x \in Near(E, {n}, k) : x \in s.visited \/ \E i \in 1..m : s.todo[i] = x

\* The queue is in layers, and what was found is in the first that has any.
NearestOK(E, T, n, s) ==
    IF s.found = NotFound
    THEN \E k \in Nat : \E m \in 0..Len(s.todo) : LayerOK(E, n, s, k, m)
    ELSE \E k \in Nat : /\ s.found \in Near(E, {n}, k)
                        /\ \A j \in 0..(k - 1) : Near(E, {n}, j) \cap T = {}

\* A layer that is empty is the end of one: the queue is the next.
LEMMA NextLayer ==
    ASSUME NEW E, NEW T, NEW n, NEW s, KeyOK(E, T, n, s), s.found = NotFound,
           s.todo # <<>>, NearestOK(E, T, n, s)
    PROVE  \E k \in Nat : \E m \in 1..Len(s.todo) : LayerOK(E, n, s, k, m)
<1>1. PICK k \in Nat : \E m \in 0..Len(s.todo) : LayerOK(E, n, s, k, m)
  BY DEF NearestOK
<1>2. PICK m \in 0..Len(s.todo) : LayerOK(E, n, s, k, m)
  BY <1>1
<1>3. s.todo \in Seq(Node) /\ Len(s.todo) \in Nat /\ Len(s.todo) > 0
  BY DEF KeyOK, Searches
<1>4. CASE m # 0
  <2>1. m \in 1..Len(s.todo)
    BY <1>3, <1>4
  <2> QED
    BY <1>2, <2>1
<1>5. CASE m = 0
  <2> DEFINE l == k + 1
             q == Len(s.todo)
             N(i) == Near(E, {n}, i)
  <2>1. l \in Nat /\ l > 0 /\ l - 1 = k /\ l + 1 \in Nat /\ q \in 1..q
    BY <1>3
  <2>2. /\ s.visited \subseteq N(k)
        /\ \A i \in 1..q : s.todo[i] \in N(l)
        /\ \A x \in N(k) : x \in s.visited \/ \E i \in 1..m : s.todo[i] = x
    BY <1>2 DEF LayerOK
  <2>3. \A i \in 1..m : FALSE
    BY <1>5
  <2>4. N(k) = s.visited
    BY <2>2, <2>3
  <2>5. N(l) = Around(E, N(k))
    BY NearNext
  <2>6. N(k) \subseteq N(l) /\ N(l) \subseteq N(l + 1)
    <3>1. k <= l /\ l <= l + 1
      OBVIOUS
    <3> HIDE DEF l
    <3> QED
      BY <2>1, <3>1, NearGrows
  <2>7. ASSUME NEW x \in N(l) PROVE x \in s.visited \/ \E i \in 1..q : s.todo[i] = x
    <3>1. CASE x \in N(k)
      BY <2>4, <3>1
    <3>2. CASE x \notin N(k)
      <4> HIDE DEF N
      <4>1. PICK d \in E : d[1] \in N(k) /\ x = d[2]
        BY <2>5, <2>7, <3>2 DEF Around
      <4>2. x \in s.visited \cup Range(s.todo)
        BY <2>4, <4>1 DEF KeyOK
      <4>3. Range(s.todo) = {s.todo[i] : i \in 1..q}
        <5>1. DOMAIN s.todo = 1..q
          BY <1>3
        <5> QED
          BY <5>1, Zenon DEF Range
      <4> QED
        BY <4>2, <4>3
    <3> QED
      BY <3>1, <3>2
  <2> HIDE DEF N, l, q
  <2>8. /\ s.visited \subseteq N(l)
        /\ l > 0 => N(l - 1) \subseteq s.visited
        /\ \A i \in 1..q : s.todo[i] \in N(l)
        /\ \A i \in 1..q : s.todo[i] \in N(l + 1)
        /\ \A x \in N(l) : x \in s.visited \/ \E i \in 1..q : s.todo[i] = x
    BY <2>1, <2>2, <2>4, <2>6, <2>7
  <2>9. LayerOK(E, n, s, l, q)
    BY <2>8 DEF LayerOK, N, q
  <2> QED
    BY <2>1, <2>9 DEF q
<1> QED
  BY <1>4, <1>5

\* A round of the search breadth first.
LEMMA LayerStep ==
    ASSUME NEW g, g.edges \subseteq Node \X Node, NEW T, NEW n \in Node, NEW s,
           KeyOK(Upwards(g.edges), T, n, s), NearestOK(Upwards(g.edges), T, n, s)
    PROVE  NearestOK(Upwards(g.edges), T, n, BfsStep(g, T, s))
<1> DEFINE E == Upwards(g.edges)
           t == BfsStep(g, T, s)
           N(i) == Near(E, {n}, i)
<1>1. CASE KeyDone(s)
  <2>1. t = s
    BY <1>1 DEF BfsStep, KeyDone
  <2> QED
    BY <2>1
<1>2. CASE ~ KeyDone(s)
  <2> DEFINE v == Head(s.todo)
             rest == Tail(s.todo)
             X == reverse_edges(g, v)
             q == Len(s.todo)
  <2>1. s.todo # <<>> /\ s.found = NotFound
    BY <1>2 DEF KeyDone
  <2>2. t = KeyStep(g, T, s, v, rest)
    BY <2>1 DEF BfsStep
  <2>3. /\ s.todo \in Seq(Node) /\ s \in Searches /\ s.visited \subseteq Node
        /\ s.visited \cap T = {}
    BY <2>1 DEF KeyOK, Searches
  <2>4. /\ v \in Node /\ v = s.todo[1] /\ rest \in Seq(Node) /\ q = Len(rest) + 1
        /\ Len(rest) \in Nat /\ \A i \in 1..Len(rest) : rest[i] = s.todo[i + 1]
    BY <2>1, <2>3
  <2>5. /\ E \subseteq Node \X Node /\ X \in Seq(Node)
        /\ \A m : m \in Range(X) <=> <<v, m>> \in E
    BY <2>4, Predecessors
  <2>6. PICK k \in Nat : \E m \in 1..q : LayerOK(E, n, s, k, m)
    BY <2>1, NextLayer
  <2>7. PICK m \in 1..q : LayerOK(E, n, s, k, m)
    BY <2>6
  <2> HIDE DEF E, t, v, rest, X, q
  <2>8. /\ s.visited \subseteq N(k)
        /\ k > 0 => N(k - 1) \subseteq s.visited
        /\ \A i \in 1..m : s.todo[i] \in N(k)
        /\ \A i \in 1..q : s.todo[i] \in N(k + 1)
        /\ \A x \in N(k) : x \in s.visited \/ \E i \in 1..m : s.todo[i] = x
    BY <2>7 DEF LayerOK, q
  <2>9. N(k + 1) = Around(E, N(k))
    BY NearNext
  <2>10. ASSUME NEW j \in 0..(k - 1) PROVE N(j) \subseteq s.visited
    <3>1. k > 0 /\ k - 1 \in Nat /\ j \in Nat /\ j <= k - 1
      OBVIOUS
    <3>2. N(j) \subseteq N(k - 1)
      BY <3>1, NearGrows
    <3> QED
      BY <2>8, <3>1, <3>2
  <2> HIDE DEF N
  <2>11. v \in N(k)
    <3>1. 1 \in 1..m
      OBVIOUS
    <3> QED
      BY <2>4, <2>8, <3>1
  <2> DEFINE m1 == m - 1
  <2>12. m1 \in 0..Len(rest) /\ \A i \in 1..m1 : i \in 1..Len(rest) /\ i + 1 \in 1..m
    BY <2>4
  <2>13. \A i \in 1..m1 : rest[i] \in N(k)
    BY <2>4, <2>8, <2>12
  <2>14. \A i \in 1..Len(rest) : rest[i] \in N(k + 1)
    <3>1. \A i \in 1..Len(rest) : i + 1 \in 1..q
      BY <2>4
    <3> QED
      BY <2>4, <2>8, <3>1
  <2>15. ASSUME NEW x \in N(k) PROVE x \in s.visited \cup {v} \/ \E i \in 1..m1 : rest[i] = x
    <3>1. CASE x \in s.visited
      BY <3>1
    <3>2. CASE x \notin s.visited
      <4>1. PICK i \in 1..m : s.todo[i] = x
        BY <2>8, <3>2
      <4>2. CASE i = 1
        BY <2>4, <4>1, <4>2
      <4>3. CASE i # 1
        <5>1. i - 1 \in 1..m1 /\ (i - 1) + 1 = i
          BY <4>3
        <5>2. rest[i - 1] = x
          BY <2>4, <2>12, <4>1, <5>1
        <5> QED
          BY <5>1, <5>2
      <4> QED
        BY <4>2, <4>3
    <3> QED
      BY <3>1, <3>2
  <2> HIDE DEF m1
  <2>16. CASE v \in s.visited
    <3>1. t = [s EXCEPT !.todo = rest]
      BY <2>2, <2>16 DEF KeyStep
    <3>2. t.todo = rest /\ t.visited = s.visited /\ t.found = NotFound
      BY <2>1, <2>3, <3>1 DEF Searches
    <3>3. LayerOK(E, n, t, k, m1)
      BY <2>8, <2>13, <2>14, <2>15, <2>16, <3>2 DEF LayerOK, N
    <3> QED
      BY <2>12, <3>2, <3>3 DEF NearestOK, E, t
  <2>17. CASE v \notin s.visited /\ v \in T
    <3>1. t = [todo |-> rest, visited |-> s.visited \cup {v}, found |-> v]
      BY <2>2, <2>17 DEF KeyStep
    <3>2. t.found = v /\ v # NotFound
      BY <2>4, <3>1, LookupAssumption
    <3>3. \A j \in 0..(k - 1) : N(j) \cap T = {}
      BY <2>3, <2>10
    <3> QED
      BY <2>11, <3>2, <3>3 DEF NearestOK, N, E, t
  <2>18. CASE v \notin s.visited /\ v \notin T
    <3> DEFINE w == rest \o X
               r == Len(rest)
    <3>1. t = [todo |-> w, visited |-> s.visited \cup {v}, found |-> NotFound]
      BY <2>2, <2>18 DEF KeyStep, X
    <3>2. t.todo = w /\ t.visited = s.visited \cup {v} /\ t.found = NotFound
      BY <3>1
    <3>3. /\ Len(w) = r + Len(X) /\ Len(X) \in Nat /\ r \in Nat /\ Len(w) \in Nat
          /\ \A i \in 1..r : w[i] = rest[i]
          /\ \A i \in (r + 1)..Len(w) : w[i] = X[i - r]
      BY <2>4, <2>5
    <3>4. Range(X) \subseteq N(k + 1)
      <4> SUFFICES ASSUME NEW x \in Range(X) PROVE x \in N(k + 1)
        OBVIOUS
      <4>1. <<v, x>> \in E /\ <<v, x>>[1] = v /\ <<v, x>>[2] = x
        BY <2>5
      <4> QED
        BY <2>9, <2>11, <4>1 DEF Around
    <3> HIDE DEF w, r
    <3>5. \A i \in 1..Len(w) : w[i] \in N(k + 1)
      <4> TAKE i \in 1..Len(w)
      <4>1. CASE i \in 1..r
        BY <2>14, <3>3, <4>1 DEF r
      <4>2. CASE i \notin 1..r
        <5>1. i \in (r + 1)..Len(w) /\ i - r \in 1..Len(X)
          BY <3>3, <4>2
        <5>2. X[i - r] \in Range(X)
          BY <2>5, <5>1 DEF Range
        <5> QED
          BY <3>3, <3>4, <5>1, <5>2
      <4> QED
        BY <4>1, <4>2
    <3>6. m1 \in 0..Len(w) /\ \A i \in 1..m1 : i \in 1..r
      BY <2>12, <3>3 DEF r
    <3>7. \A i \in 1..m1 : w[i] = rest[i]
      BY <3>3, <3>6
    <3>8. LayerOK(E, n, t, k, m1)
      <4>1. t.visited \subseteq N(k)
        BY <2>8, <2>11, <3>2
      <4>2. k > 0 => N(k - 1) \subseteq t.visited
        BY <2>8, <3>2
      <4>3. \A i \in 1..m1 : t.todo[i] \in N(k)
        BY <2>13, <3>2, <3>7
      <4>4. \A x \in N(k) : x \in t.visited \/ \E i \in 1..m1 : t.todo[i] = x
        BY <2>15, <3>2, <3>7
      <4> QED
        BY <3>2, <3>5, <4>1, <4>2, <4>3, <4>4 DEF LayerOK, N
    <3>9. m1 \in 0..Len(t.todo)
      BY <3>2, <3>6
    <3> QED
      BY <3>2, <3>8, <3>9 DEF NearestOK, E, t
  <2> QED
    BY <2>16, <2>17, <2>18
<1> QED
  BY <1>1, <1>2

\* Either search ends, with one that has the key if any that is reached has it; the
\* one breadth first with one of the nearest.
LEMMA KeyFound ==
    ASSUME NEW queue \in BOOLEAN, NEW g, g.edges \subseteq Node \X Node, NEW T,
           NEW n \in Node
    PROVE  LET E == Upwards(g.edges)
               r == IF queue THEN bfs_search_parents_for_first_key(g, n, T)
                    ELSE dfs_search_parents_for_first_key(g, n, T)
           IN  IF Reached(E, {n}) \cap T = {} THEN r = NotFound
               ELSE /\ r \in Reached(E, {n}) \cap T
                    /\ queue => \A k \in Nat : Near(E, {n}, k) \cap T # {} => r \in Near(E, {n}, k)
<1> DEFINE E == Upwards(g.edges)
           R == Reached(E, {n})
           c == Cardinality(Node)
<1>1. PICK f : /\ f[0] = Unsearched(n)
               /\ \A i \in 1..Rounds : f[i] = Round(queue, g, T, f[i - 1])
               /\ queue => bfs_search_parents_for_first_key(g, n, T) = f[Rounds].found
               /\ ~ queue => dfs_search_parents_for_first_key(g, n, T) = f[Rounds].found
  BY KeyIs
<1>2. c \in Nat /\ Rounds \in Nat /\ Rounds >= c * (c + 1) + 1
  BY RoundsNat
<1>3. E \subseteq Node \X Node
  BY Predecessors
<1>4. R \subseteq Node /\ n \in R /\ Shut(E, R)
  <2> HIDE DEF E
  <2> DEFINE B == {n}
  <2>1. B \subseteq Node /\ n \in B
    OBVIOUS
  <2> HIDE DEF B
  <2>2. Reached(E, B) \subseteq Node /\ Shut(E, Reached(E, B)) /\ B \subseteq Reached(E, B)
    BY <1>3, <2>1, ReachedIsShut
  <2> QED
    BY <2>1, <2>2 DEF B
<1> DEFINE Good == {i \in 0..Rounds : /\ KeyOK(E, T, n, f[i])
                                      /\ queue => NearestOK(E, T, n, f[i])
                                      /\ KeyDone(f[i]) \/ KeyLeft(f[i]) <= Rounds - i}
<1>5. 0 \in Good
  <2> DEFINE s == f[0]
             one == <<n>>
  <2>1. one \in Seq(Node) /\ Len(one) = 1 /\ one[1] = n /\ Range(one) = {n}
    BY DEF Range
  <2>2. s.todo = one /\ s.visited = {} /\ s.found = NotFound /\ s \in Searches
    BY <1>1 DEF Unsearched, Searches
  <2> HIDE DEF s, one
  <2>3. KeyOK(E, T, n, s)
    BY <1>4, <2>1, <2>2 DEF KeyOK
  <2>4. NearestOK(E, T, n, s)
    <3>1. Near(E, {n}, 0) = {n} /\ Near(E, {n}, 0 + 1) = Around(E, {n})
      BY NearNext
    <3>2. n \in Around(E, {n})
      BY DEF Around
    <3>3. Len(s.todo) = 1 /\ s.todo[1] = n
      BY <2>1, <2>2
    <3>4. 1 \in 0..1 /\ 1 \in 1..1 /\ (\A i \in 1..1 : i = 1) /\ ~ (0 > 0)
      OBVIOUS
    <3>5. LayerOK(E, n, s, 0, 1)
      <4>1. \A i \in 1..1 : s.todo[i] \in Near(E, {n}, 0) /\ s.todo[i] \in Near(E, {n}, 0 + 1)
        BY <3>1, <3>2, <3>3, <3>4
      <4>2. \A x \in Near(E, {n}, 0) : \E i \in 1..1 : s.todo[i] = x
        BY <3>1, <3>3, <3>4
      <4>3. s.visited \subseteq Near(E, {n}, 0)
        BY <2>2
      <4> QED
        BY <3>3, <3>4, <4>1, <4>2, <4>3 DEF LayerOK
    <3>6. 0 \in Nat
      OBVIOUS
    <3> QED
      BY <2>2, <3>3, <3>4, <3>5, <3>6 DEF NearestOK
  <2>5. KeyLeft(s) = c * (c + 1) + 1
    <3>1. Node \ {} = Node
      OBVIOUS
    <3> QED
      BY <2>1, <2>2, <3>1 DEF KeyLeft
  <2> HIDE DEF c
  <2>6. KeyLeft(s) <= Rounds - 0 /\ 0 \in 0..Rounds
    <3>1. c * (c + 1) \in Nat
      BY <1>2
    <3> QED
      BY <1>2, <2>5, <3>1
  <2> QED
    BY <2>3, <2>4, <2>6 DEF s
<1>6. ASSUME NEW i \in 0..(Rounds - 1), i \in Good PROVE i + 1 \in Good
  <2> DEFINE s == f[i]
             t == f[i + 1]
  <2>1. i + 1 \in 1..Rounds /\ i + 1 \in 0..Rounds /\ (i + 1) - 1 = i
    BY <1>2
  <2>2. t = Round(queue, g, T, s)
    BY <1>1, <2>1
  <2>3. /\ KeyOK(E, T, n, s) /\ (queue => NearestOK(E, T, n, s))
        /\ KeyDone(s) \/ KeyLeft(s) <= Rounds - i
    BY <1>6
  <2> HIDE DEF s, t
  <2>4. /\ KeyOK(E, T, n, t)
        /\ KeyDone(s) => t = s
        /\ ~ KeyDone(s) => KeyDone(t) \/ KeyLeft(t) < KeyLeft(s)
    BY <2>2, <2>3, RoundOK
  <2>5. queue => NearestOK(E, T, n, t)
    <3> HAVE queue
    <3>1. t = BfsStep(g, T, s)
      BY <2>2 DEF Round
    <3> QED
      BY <2>3, <3>1, LayerStep
  <2>6. KeyLeft(s) \in Nat /\ KeyLeft(t) \in Nat
    BY <2>3, <2>4, KeyLeftNat DEF KeyOK
  <2>7. KeyDone(t) \/ KeyLeft(t) <= Rounds - (i + 1)
    BY <1>2, <2>3, <2>4, <2>6
  <2> HIDE DEF E
  <2> QED
    BY <2>1, <2>4, <2>5, <2>7 DEF t
<1> HIDE DEF Good
<1>7. \A i \in 0..Rounds : i \in Good
  BY <1>2, <1>5, <1>6, UpTo
<1> DEFINE s == f[Rounds]
           r == s.found
<1>8. /\ KeyOK(E, T, n, s) /\ (queue => NearestOK(E, T, n, s))
      /\ KeyDone(s) \/ KeyLeft(s) <= 0
  BY <1>2, <1>7 DEF Good
<1> HIDE DEF s, E
<1>9. KeyDone(s)
  <2> SUFFICES ASSUME ~ KeyDone(s) PROVE FALSE
    OBVIOUS
  <2>1. s.todo \in Seq(Node) /\ s.todo # <<>> /\ s \in Searches
    BY <1>8 DEF KeyDone, KeyOK, Searches
  <2>2. Len(s.todo) \in Nat /\ Len(s.todo) > 0
    BY <2>1
  <2> DEFINE a == Cardinality(Node \ s.visited)
  <2>3. a \in Nat
    BY <2>1, KeyLeftNat
  <2>4. KeyLeft(s) = a * (c + 1) + Len(s.todo)
    BY DEF KeyLeft
  <2> HIDE DEF a, c
  <2>5. a * (c + 1) \in Nat
    BY <1>2, <2>3
  <2> QED
    BY <1>8, <2>2, <2>4, <2>5
<1>10. CASE r = NotFound
  <2>1. s.todo = <<>>
    BY <1>9, <1>10 DEF KeyDone
  <2>2. Range(s.todo) = {}
    BY <2>1 DEF Range
  <2> DEFINE C == s.visited
             B == {n}
  <2>3. B \subseteq C /\ C \cap T = {} /\ \A d \in E : d[1] \in C => d[2] \in C
    BY <1>8, <1>10, <2>2 DEF KeyOK
  <2> HIDE DEF C, B
  <2>4. Reached(E, B) \subseteq C
    BY <2>3, ReachedWithin
  <2>5. R \cap T = {}
    BY <2>3, <2>4 DEF B
  <2> QED
    BY <1>1, <1>10, <2>5 DEF E, s
<1>11. CASE r # NotFound
  <2>1. r \in R \cap T
    BY <1>8, <1>11 DEF KeyOK
  <2>2. ASSUME queue, NEW k \in Nat, Near(E, {n}, k) \cap T # {}
        PROVE  r \in Near(E, {n}, k)
    <3>1. PICK l \in Nat : /\ r \in Near(E, {n}, l)
                           /\ \A j \in 0..(l - 1) : Near(E, {n}, j) \cap T = {}
      BY <1>8, <1>11, <2>2 DEF NearestOK
    <3>2. l <= k
      <4>1. ~ (k \in 0..(l - 1))
        BY <2>2, <3>1
      <4> QED
        BY <4>1
    <3> QED
      BY <3>1, <3>2, NearGrows
  <2> HIDE DEF R, r
  <2>3. R \cap T # {}
    BY <2>1
  <2>4. r = IF queue THEN bfs_search_parents_for_first_key(g, n, T)
            ELSE dfs_search_parents_for_first_key(g, n, T)
    BY <1>1 DEF r, s
  <2> QED
    BY <2>1, <2>2, <2>3, <2>4 DEF R, E
<1> QED
  BY <1>10, <1>11

\* In every state of the graph.
LEMMA InvFindsKeys == Inv => NearestKey
<1> SUFFICES ASSUME Inv, NEW n \in primary.live, NEW T \in SUBSET primary.live
             PROVE  LET up == Upwards(primary.edges)
                        b == bfs_search_parents_for_first_key(primary, n, T)
                        d == dfs_search_parents_for_first_key(primary, n, T)
                    IN  IF Reached(up, {n}) \cap T = {} THEN b = NotFound /\ d = NotFound
                        ELSE /\ d \in Reached(up, {n}) \cap T
                             /\ b \in T
                             /\ \A k \in 0..Cardinality(Node) :
                                   Near(up, {n}, k) \cap T # {} => b \in Near(up, {n}, k)
  BY DEF NearestKey
<1> DEFINE g == primary
           E == Upwards(g.edges)
           R == Reached(E, {n})
           b == bfs_search_parents_for_first_key(g, n, T)
           d == dfs_search_parents_for_first_key(g, n, T)
<1>1. g.edges \subseteq Node \X Node /\ n \in Node
  BY DEF Inv, TypeOK, Graph
<1>2. \A k \in 0..Cardinality(Node) : k \in Nat
  BY RoundsNat
<1> HIDE DEF g
<1>3. IF R \cap T = {} THEN b = NotFound
      ELSE b \in R \cap T /\ \A k \in Nat : Near(E, {n}, k) \cap T # {} => b \in Near(E, {n}, k)
  <2> DEFINE queue == TRUE
  <2>1. queue \in BOOLEAN /\ queue
    OBVIOUS
  <2> HIDE DEF queue
  <2> QED
    BY <1>1, <2>1, KeyFound
<1>4. IF R \cap T = {} THEN d = NotFound ELSE d \in R \cap T
  <2> DEFINE queue == FALSE
  <2>1. queue \in BOOLEAN /\ ~ queue
    OBVIOUS
  <2> HIDE DEF queue
  <2> QED
    BY <1>1, <2>1, KeyFound
<1> HIDE DEF E, R, b, d
<1>5. IF R \cap T = {} THEN b = NotFound /\ d = NotFound
      ELSE /\ d \in R \cap T
           /\ b \in T
           /\ \A k \in 0..Cardinality(Node) :
                 Near(E, {n}, k) \cap T # {} => b \in Near(E, {n}, k)
  BY <1>2, <1>3, <1>4
<1> QED
  BY <1>5 DEF E, R, b, d, g

(***************************************************************************)
(* bfs_search_parents_for_first_key finds a nearest ancestor that has the  *)
(* key, and dfs_search_parents_for_first_key one that has it, if there is  *)
(* any, wherever the key is set and with cycles of clusters on the way.    *)
(***************************************************************************)
THEOREM KeysAreFound == Spec => []NearestKey
BY Invariance, InvFindsKeys, PTL
=============================================================================
