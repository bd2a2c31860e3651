---------------------------- MODULE PropertyGraph ----------------------------
(***************************************************************************)
(* What one graph promises the write API: a set of nodes, edges between    *)
(* different nodes, and tags on nodes, changed by one operation at a time. *)
(* It knows nothing of versions.  Every operation counts, so that one      *)
(* without its effect is no operation of this graph.                       *)
(***************************************************************************)
EXTENDS Naturals

CONSTANTS Nodes, Keys, Values

VARIABLES
    live,    \* the nodes that exist
    edges,   \* <<parent, child>>, two different nodes
    loops,   \* the ends of edges from a node to itself: <<node, direction>>
    tags,    \* for each node the pairs <<key, set of values>>
    done     \* the number of operations

graphVars == <<live, edges, loops, tags, done>>

GraphInit ==
    /\ live = {} /\ edges = {} /\ loops = {} /\ done = 0
    /\ tags = [n \in Nodes |-> {}]

\* A node that is created has no edges.  One that existed before has the tags
\* back that it had when it was removed: a removal does not delete them.
CreateNode(n) ==
    /\ n \notin live
    /\ live' = live \cup {n}
    /\ UNCHANGED <<edges, loops, tags>>

Link(p, n) ==
    /\ p \in live
    /\ p # n
    /\ <<p, n>> \notin edges
    /\ live' = live \cup {n}
    /\ edges' = edges \cup {<<p, n>>}
    /\ UNCHANGED <<loops, tags>>

Unlink(p, n) ==
    /\ <<p, n>> \in edges
    /\ edges' = edges \ {<<p, n>>}
    /\ UNCHANGED <<live, loops, tags>>

\* Linking a node to itself or unlinking it: nothing is promised of the two
\* ends of the loop but that one of them changes.
Loop(n) ==
    /\ n \in live
    /\ \E d \in {"forward", "reverse"} :
          loops' \in {loops \cup {<<n, d>>}, loops \ {<<n, d>>}} \ {loops}
    /\ UNCHANGED <<live, edges, tags>>

Delete(n) ==
    /\ n \in live
    /\ live' = live \ {n}
    /\ edges' = {e \in edges : n \notin {e[1], e[2]}}
    /\ loops' = {l \in loops : l[1] # n}
    /\ UNCHANGED tags

SetTag(n, k, vals) ==
    /\ n \in live
    /\ <<k, vals>> \notin tags[n]
    /\ tags' = [tags EXCEPT ![n] = {t \in @ : t[1] # k} \cup {<<k, vals>>}]
    /\ UNCHANGED <<live, edges, loops>>

DropTag(n, k) ==
    /\ n \in live
    /\ \E t \in tags[n] : t[1] = k
    /\ tags' = [tags EXCEPT ![n] = {t \in @ : t[1] # k}]
    /\ UNCHANGED <<live, edges, loops>>

GraphNext ==
    /\ done' = done + 1
    /\ \E n \in Nodes :
          \/ CreateNode(n) \/ Delete(n) \/ Loop(n)
          \/ \E p \in Nodes : Link(p, n) \/ Unlink(p, n)
          \/ \E k \in Keys : DropTag(n, k) \/ \E vals \in SUBSET Values : SetTag(n, k, vals)

GraphSpec == GraphInit /\ [][GraphNext]_graphVars

=============================================================================
