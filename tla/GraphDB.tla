------------------------------- MODULE GraphDB -------------------------------
(***************************************************************************)
(* One graph with its history: GraphDB (librange/graph/graphdb.cpp), the   *)
(* GraphTxn around every write, the instance's change list                 *)
(* (librange/db/berkeley_dbcxx_txn.cpp) and the node records.              *)
(*                                                                         *)
(* Every action is one transaction of the write API: all it reads and      *)
(* writes is in one Berkeley DB transaction of its thread, which locks what*)
(* it reads until it commits, and the learner is the only writer.          *)
(***************************************************************************)
EXTENDS NodeInfo

CONSTANT MaxVersion    \* bound on the number of transactions

VARIABLES
    info,        \* the record of each node
    gversions,   \* graph_versions: the graph versions each node belongs to
    changes      \* the change list: for every graph version the node versions

vars == <<info, gversions, changes>>

\* BerkeleyDBCXXDb::version, outside a transaction.
Version == Len(changes)

\* has_version_or_higher
HasVersionOrHigher(gv, v) == \E g \in gv : g >= v

\* add_graph_version
AddGraphVersion(gv, v) == IF HasVersionOrHigher(gv, v) THEN gv ELSE gv \cup {v}

\* get_node without a wanted version.
Exists(n) == Version \in gversions[n]

Init ==
    /\ info = [n \in Nodes |-> NewInfo]
    /\ gversions = [n \in Nodes |-> {}]
    /\ changes = << >>

-----------------------------------------------------------------------------
\* A variant: update_versions does not write the nodes that did not change, and
\* the change list names the others only.
CommitWrittenOnly(records, gvs, written, removed) ==
    /\ Version < MaxVersion
    /\ info' = records
    /\ gversions' = [n \in Nodes |->
                       IF n \notin removed /\ HasVersionOrHigher(gvs[n], Version)
                         THEN AddGraphVersion(gvs[n], Version + 1) ELSE gvs[n]]
    /\ changes' = Append(changes, [n \in written |-> records[n].version])

(***************************************************************************)
(* The end of a transaction.  update_versions gives the new graph version  *)
(* to every node of the prior one that was not removed and writes its      *)
(* record; commit() then lists the version of every record written.        *)
(***************************************************************************)
Commit(records, gvs, written, removed) ==
    LET carried == {n \in Nodes \ removed : HasVersionOrHigher(gvs[n], Version)}
    IN /\ Version < MaxVersion
       /\ info' = records
       /\ gversions' = [n \in Nodes |->
                          IF n \in carried THEN AddGraphVersion(gvs[n], Version + 1)
                                           ELSE gvs[n]]
       /\ changes' = Append(changes,
                            [n \in written \cup carried |-> records[n].version])

\* create: a node without a record is written first, and version() counts a
\* pending write; the record of a removed node is not written, and the node
\* is given the version before this transaction.
GraphVersionOfNew(n) == IF info[n].version = 0 THEN Version + 1 ELSE Version

Created(n) == AddGraphVersion(gversions[n], GraphVersionOfNew(n))

\* create_env, add_host: create and set_type.
Create(n) ==
    /\ ~HasVersionOrHigher(gversions[n], Version)
    /\ Commit([info EXCEPT ![n] = Carry(@)],
              [gversions EXCEPT ![n] = Created(n)], {n}, {})

\* add_forward_edge and its update of the other node.  Both node objects were
\* loaded before: the second write does not see the first when they are the
\* same node.
Linked(records, p, n) ==
    LET forward == [records EXCEPT ![p] = AddEdge(@, "forward", n)]
    IN IF HasEdge(records[n], "reverse", p) THEN forward
       ELSE [forward EXCEPT ![n] = AddEdge(records[n], "reverse", p)]

\* add_cluster_to_env, add_cluster_to_cluster, add_host_to_cluster: the child
\* is created when it does not exist.
AddChild(p, n) ==
    /\ Exists(p)
    /\ \/ /\ Exists(n)
          /\ ~HasEdge(info[p], "forward", n)
          /\ Commit(Linked(info, p, n), gversions, {p, n}, {})
       \/ /\ ~Exists(n)
          /\ ~HasVersionOrHigher(gversions[n], Version)
          /\ Commit(Linked([info EXCEPT ![n] = Carry(@)], p, n),
                    [gversions EXCEPT ![n] = Created(n)], {p, n}, {})

\* A variant: the other node is not updated.
UnlinkedOneWay(records, p, n) == [records EXCEPT ![p] = RemoveEdge(@, "forward", n)]

\* remove_forward_edge and its update of the other node.
Unlinked(records, p, n) ==
    LET forward == [records EXCEPT ![p] = RemoveEdge(@, "forward", n)]
    IN IF HasEdge(records[n], "reverse", p)
         THEN [forward EXCEPT ![n] = RemoveEdge(records[n], "reverse", p)]
         ELSE forward

\* remove_cluster_from_env, remove_cluster_from_cluster,
\* remove_host_from_cluster.
RemoveChild(p, n) ==
    /\ Exists(p) /\ Exists(n)
    /\ HasEdge(info[p], "forward", n)
    /\ Commit(Unlinked(info, p, n), gversions, {p, n}, {})

-----------------------------------------------------------------------------
(***************************************************************************)
(* GraphDB::remove: a self loop is added so that something is written, and *)
(* all edges are removed, the self loop with them.                         *)
(***************************************************************************)
WithLoop(record, n) ==
    LET forward == AddEdge(record, "forward", n)
    IN IF HasEdge(record, "forward", n) THEN record
       ELSE IF HasEdge(forward, "reverse", n) THEN forward
       ELSE AddEdge(forward, "reverse", n)

\* All edges of the node in direction d, one after the other.
WithoutEdges(record, d) ==
    FoldSet(LAMBDA n, r : RemoveEdge(r, d, n), record,
            EdgesAt(record, d, record.version))

\* The other end of a removed edge.
Without(record, d, n) ==
    IF HasEdge(record, d, n) THEN RemoveEdge(record, d, n) ELSE record

\* remove_env, remove_cluster, remove_host.
Remove(n) ==
    LET looped == WithLoop(info[n], n)
        parents == EdgesAt(looped, "reverse", looped.version) \ {n}
        children == EdgesAt(looped, "forward", looped.version) \ {n}
        fromParents == [m \in Nodes |-> IF m \in parents
                           THEN Without(info[m], "forward", n) ELSE info[m]]
        others == [m \in Nodes |-> IF m \in children
                      THEN Without(fromParents[m], "reverse", n) ELSE fromParents[m]]
        own == WithoutEdges(WithoutEdges(looped, "reverse"), "forward")
    IN /\ Exists(n)
       /\ Commit([others EXCEPT ![n] = own], gversions,
                 {n} \cup parents \cup children, {n})

\* add_node_key_value, remove_node_key_value: the new list of values is
\* computed from the current one under the same lock.
Tagged(n, k) == UNION {t[2] : t \in {x \in TagsAt(info[n], info[n].version) : x[1] = k}}

UpdateKey(n, k, v) ==
    /\ Exists(n)
    /\ \E vals \in {Tagged(n, k) \cup {v}, Tagged(n, k) \ {v}} \ {Tagged(n, k)} :
          Commit([info EXCEPT ![n] = UpdateTag(@, k, vals)], gversions, {n}, {})

\* remove_key_from_node
RemoveKey(n, k) ==
    /\ Exists(n)
    /\ HasKey(info[n], k)
    /\ Commit([info EXCEPT ![n] = DeleteTag(@, k)], gversions, {n}, {})

Next ==
    \E n \in Nodes :
        \/ Create(n) \/ Remove(n)
        \/ \E p \in Nodes : AddChild(p, n) \/ RemoveChild(p, n)
        \/ \E k \in Keys : RemoveKey(n, k) \/ \E v \in Values : UpdateKey(n, k, v)

Spec == Init /\ [][Next]_vars

-----------------------------------------------------------------------------
(***************************************************************************)
(* Reading the graph at a version v.                                       *)
(***************************************************************************)

\* get_node with a wanted version.
ExistsAt(n, v) == v \in gversions[n]

\* set_wanted_version walks the change list back to v, and what it finds last
\* stays in node_version_map.
NodeVersion(n, v) ==
    LET listed == {c \in v..Version : n \in DOMAIN changes[c]}
    IN IF v = Version \/ listed = {} THEN info[n].version
                                     ELSE changes[Min(listed)][n]

ReadNode(n, v) ==
    [forward |-> EdgesAt(info[n], "forward", NodeVersion(n, v)),
     reverse |-> EdgesAt(info[n], "reverse", NodeVersion(n, v)),
     tags |-> TagsAt(info[n], NodeVersion(n, v))]

Read(v) == {<<n, ReadNode(n, v)>> : n \in {m \in Nodes : ExistsAt(m, v)}}

-----------------------------------------------------------------------------
(***************************************************************************)
(* Properties.                                                             *)
(***************************************************************************)

\* The out-edges of one node are the in-edges of the other, for two different
\* nodes that exist, and only nodes that exist are at the end of an edge (each
\* operation on an edge writes two records, and remove visits all of them).
EdgesAgree ==
    \A p, n \in Nodes : p # n =>
        /\ HasEdge(info[p], "forward", n) <=> HasEdge(info[n], "reverse", p)
        /\ HasEdge(info[p], "forward", n) => Exists(p) /\ Exists(n)

\* The version lists of a key never run ahead of the record or of the key, and
\* a list version shows one version of the key.
KeyConsistent(kv, version) ==
    /\ kv.versions \subseteq 1..version
    /\ \A m \in kv.versionmap : m[1] \in 1..version /\ m[2] \in 1..kv.key_version
    /\ \A m1, m2 \in kv.versionmap : m1[1] = m2[1] => m1 = m2
    /\ \A v \in Values : kv.values[v] \subseteq 1..kv.key_version

\* The version lists of a record never run ahead of it, a list version shows
\* one version of a key, and the change list never names a version that a node
\* has not reached or takes a version of a node back (list_version is raised
\* with every change that carries the items to it, pbuff_node.cpp; so the
\* early return of update_tag_versions is never taken); and the ends of every
\* edge agree (EdgesAgree), although they are written one after the other.
Consistent ==
    /\ \A n \in Nodes :
         LET r == info[n]
         IN /\ \A d \in Directions, m \in Nodes : r.edges[d][m] \subseteq 1..r.version
            /\ \A i \in DOMAIN r.keys : KeyConsistent(r.keys[i], r.version)
    /\ \A v \in 1..Version : \A n \in DOMAIN changes[v] :
         /\ changes[v][n] \in 1..info[n].version
         /\ \A w \in v..Version : n \in DOMAIN changes[w] => changes[v][n] <= changes[w][n]
    /\ EdgesAgree

\* Read at its current version, the versioned records behave like a graph
\* without versions, and every transaction is one operation on it: a key that
\* was removed can be added back with other values, an edge likewise, and a
\* removed node leaves no edge behind.
G == INSTANCE PropertyGraph WITH
        live <- {n \in Nodes : Exists(n)},
        edges <- {e \in Nodes \X Nodes : e[1] # e[2] /\ HasEdge(info[e[1]], "forward", e[2])},
        loops <- {l \in Nodes \X Directions : HasEdge(info[l[1]], l[2], l[1])},
        tags <- [n \in Nodes |-> TagsAt(info[n], info[n].version)],
        done <- Version

ImplementsGraph == G!GraphSpec

\* What a transaction does to the past ("full version history retention, and
\* the ability to query that history directly", README.md:12).  It leaves every
\* node that a past version shows, with the edges and tags it shows there: what
\* is read at a version is found through the change list, which has to name
\* every node of the version.  The one thing it adds is a node that had been
\* removed and is created again, and that only to the version right before it,
\* in which it did not exist; create() asks for the version when nothing has
\* been written yet (graphdb.cpp:203-207).
PastRetained ==
    [][\A v \in 1..Version :
          /\ Read(v) \subseteq Read(v)'
          /\ \A n \in Nodes :
                ExistsAt(n, v)' /\ ~ExistsAt(n, v) =>
                    /\ v = Version
                    /\ Exists(n)'
                    /\ \E w \in 1..(v - 1) : ExistsAt(n, w)]_vars
-----------------------------------------------------------------------------
(***************************************************************************)
(* The inductive invariant.                                                *)
(***************************************************************************)

\* What a record keeps by itself: a key that is current shows its newest
\* version, and no key has two places.
RecordOK(r) ==
    /\ r \in Info
    /\ \A d \in Directions, m \in Nodes : r.edges[d][m] \subseteq 1..r.version
    /\ \A d \in Directions : IsFiniteSet(EdgesAt(r, d, r.version))
    /\ \A i \in DOMAIN r.keys :
          /\ KeyConsistent(r.keys[i], r.version)
          /\ r.version \in r.keys[i].versions =>
                <<r.version, r.keys[i].key_version>> \in r.keys[i].versionmap
    /\ \A i, j \in DOMAIN r.keys : r.keys[i].key = r.keys[j].key => i = j

TypeOK ==
    /\ info \in [Nodes -> Info]
    /\ gversions \in [Nodes -> SUBSET Nat]
    /\ changes \in Seq({changes[c] : c \in DOMAIN changes})
    /\ \A c \in DOMAIN changes : DOMAIN changes[c] \subseteq Nodes

\* The change list leads from every version a node belongs to to a version of
\* its record, and for a node that exists its last entry is the record.
ListsLead ==
    /\ \A c \in 1..Version : \A n \in DOMAIN changes[c] :
          /\ changes[c][n] \in 1..info[n].version
          /\ \A w \in c..Version : n \in DOMAIN changes[w] => changes[c][n] <= changes[w][n]
    /\ \A n \in Nodes :
          /\ gversions[n] \subseteq 1..Version
          /\ info[n].version > 0 => gversions[n] # {}
          /\ \A v \in gversions[n] : \E c \in v..Version : n \in DOMAIN changes[c]
          /\ Exists(n) => /\ n \in DOMAIN changes[Version]
                          /\ changes[Version][n] = info[n].version

Inv == TypeOK /\ (\A n \in Nodes : RecordOK(info[n])) /\ ListsLead /\ EdgesAgree

=============================================================================
