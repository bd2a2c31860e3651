------------------------------- MODULE Lookup -------------------------------
(***************************************************************************)
(* How the read API (librange/core/read_api.cpp) finds a node by its name  *)
(* and names the nodes around it in its answers, in one state of the two   *)
(* graphs.                                                                 *)
(*                                                                         *)
(* The edges of a node are kept in the order they were added; here they    *)
(* come in some fixed order of the names.  A name that is given to a call  *)
(* is a plain or a local one, and the name of a cluster is shortened to    *)
(* its local name in the answer of its own environment.                    *)
(***************************************************************************)
EXTENDS WriteAPI, Sequences, SequencesExt, FiniteSets

forward_edges(g, n) == SetToSeq({m \in Node : <<n, m>> \in g.edges})

reverse_edges(g, n) == SetToSeq({m \in Node : <<m, n>> \in g.edges})

\* No node: get_node returned none or threw NodeNotFoundException, and the
\* call throws NodeNotFoundException.
NotFound == <<"NodeNotFoundException">>

\* The argument that was left out.
NoName == <<>>

ASSUME LookupAssumption == IsFiniteSet(Node) /\ NotFound \notin Node

-----------------------------------------------------------------------------
(* Names *)

unprefix_node_name(e, n) ==
    IF n \in Cluster /\ n[1] = e THEN n[2] ELSE n

\* A variant: the host comes before the cluster of that name.
get_nodeHostFirst(g, e, n) ==
    CASE e = n -> IF Is(g, e, "ENVIRONMENT") THEN e ELSE NotFound
      [] e # n -> IF n \in g.live /\ g.type[n] = "HOST" THEN n
                  ELSE IF <<e, n>> \in g.live THEN <<e, n>> ELSE NotFound

\* A cluster of the environment comes before the host of that name.
get_node(g, e, n) ==
    CASE n = NoName /\ e = NoName -> NotFound
      [] n = NoName /\ e # NoName -> IF Is(g, e, "ENVIRONMENT") THEN e ELSE NotFound
      [] n # NoName /\ e = NoName -> IF Is(g, n, "HOST") THEN n ELSE NotFound
      [] n # NoName /\ e = n -> IF Is(g, e, "ENVIRONMENT") THEN e ELSE NotFound
      [] OTHER -> IF <<e, n>> \in g.live THEN <<e, n>>
                  ELSE IF n \in g.live /\ g.type[n] = "HOST" THEN n ELSE NotFound

Shortened(e, s) == [i \in DOMAIN s |-> unprefix_node_name(e, s[i])]

\* A node of another type than the one asked for throws
\* IncorrectNodeTypeException.
simple_expand(g, e, n, type) ==
    LET v == get_node(g, e, n)
    IN  IF v = NotFound \/ (type # "UNKNOWN" /\ g.type[v] # type) THEN NotFound
        ELSE IF g.type[v] = "HOST" THEN <<>> ELSE Shortened(e, forward_edges(g, v))

get_clusters(g, e, n) ==
    IF <<e, n>> \in g.live THEN Shortened(e, reverse_edges(g, <<e, n>>))
    ELSE IF n \in g.live /\ g.type[n] \in {"ENVIRONMENT", "HOST"}
         THEN Shortened(e, reverse_edges(g, n)) ELSE NotFound

\* The keys of a node, with the tags of the graph g.
get_keys(g, e, n) ==
    IF get_node(g, e, n) = NotFound THEN NotFound ELSE DOMAIN g.tags[get_node(g, e, n)]

KeyNotFound == <<"KeyNotFoundException">>

fetch_key(g, e, n, k) ==
    LET v == get_node(g, e, n)
    IN IF v = NotFound THEN NotFound
       ELSE IF k \in DOMAIN g.tags[v] THEN g.tags[v][k] ELSE KeyNotFound

fetch_all_keys(g, e, n) ==
    IF get_node(g, e, n) = NotFound THEN NotFound ELSE g.tags[get_node(g, e, n)]

all_environments(g) == {n \in g.live : g.type[n] = "ENVIRONMENT"}

-----------------------------------------------------------------------------
(* What the names should be *)

\* Types outlive their nodes; a name is never given one that does not fit it.
TypesFit ==
    \A n \in Node :
        /\ primary.type[n] = "ENVIRONMENT" => n \in Env
        /\ primary.type[n] = "CLUSTER" => n \in Cluster
        /\ primary.type[n] = "HOST" => n \in Host
        /\ n \in primary.live => primary.type[n] # "UNKNOWN"

\* The nodes that are at most k edges of E away from S.
Near(E, S, k) ==
    LET N[i \in 0..k] ==
            IF i = 0 THEN S
            ELSE LET T == N[i - 1] IN T \cup {e[2] : e \in {e \in E : e[1] \in T}}
    IN  N[k]

Reached(E, S) == Near(E, S, Cardinality(Node))

Upwards(E) == {<<e[2], e[1]>> : e \in E}

\* A name in an answer, given back to the API with the environment of the
\* question, names the same node, and what simple_expand lists in a node lists
\* that node among its own clusters.  The exceptions: a host whose name is also
\* that of a cluster of the environment, for which the name stands then; the
\* cluster that has the name of its environment, which stands for the
\* environment (read_api.cpp:150); and the empty name, which stands for no
\* argument.
NamesResolve ==
    \A e \in all_environments(primary) \ {NoName} :
        LET Name(v) == unprefix_node_name(e, v)
            held == Reached(primary.edges, {e})
            hidden == {v \in held :
                \/ v \notin Cluster /\ <<e, v>> \in primary.live
                \/ v \in Cluster /\ Name(v) = e
                \/ Name(v) = NoName}
        IN  \A v \in held \ hidden :
               /\ get_node(primary, e, Name(v)) = v
               /\ Range(simple_expand(primary, e, Name(v), primary.type[v]))
                     = {Name(d[2]) : d \in {d \in primary.edges : d[1] = v}}
               /\ \A m \in held \ hidden :
                     Name(v) \in Range(get_clusters(primary, e, Name(m)))
                        <=> <<v, m>> \in primary.edges
=============================================================================
