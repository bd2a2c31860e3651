---------------------------- MODULE Expressions ----------------------------
(***************************************************************************)
(* The evaluation of range expressions (librange/compiler                  *)
(* expanding_visitor.cpp, the functions of librange/core/builtins.cpp) in  *)
(* one state of the graphs.                                                *)
(*                                                                         *)
(* The parser's tree is a record; the children of a node of it are a list  *)
(* of strings whose order does not matter, kept as the number of times     *)
(* each string occurs.  A string is a word of the expression or the full   *)
(* name of a node: the two of a cluster differ, and operators compare      *)
(* strings, not nodes.  A regular expression is the set of the strings in  *)
(* which it is found.  Brace expansion and sequences are strings put       *)
(* together, in module Words; expand() is left out.                        *)
(***************************************************************************)
EXTENDS ReadAPI, Ast

CONSTANTS ADMIN_NODE,  \* the key under which the admins of a node are set
          KEYS         \* the word that asks for the keys themselves

String == Node \cup Local \cup {ADMIN_NODE}

\* The full name of a cluster of the environment for its local name.
prefix_child(g, e, w) == IF <<e, w>> \in g.live THEN <<e, w>> ELSE w

Strings(b) == {w \in String : b[w] > 0}

Count(S, b(_)) == MapThenSumSet(b, S)

\* get_node throws InvalidRangeExpression for a child that is no node.
Resolved(g, e, b) == {prefix_child(g, e, w) : w \in Strings(b)} \subseteq g.live

\* ASTExpand: sorted, and every name once.
\* A variant: the names that come twice are kept.
ExpandedTwice(g, e, b) ==
    [n \in String |-> Count({w \in Strings(b) : <<prefix_child(g, e, w), n>> \in g.edges},
                            LAMBDA w : b[w])]

Expanded(g, e, b) ==
    [n \in String |->
        IF \E w \in Strings(b) : <<prefix_child(g, e, w), n>> \in g.edges THEN 1 ELSE 0]

\* ASTGetCluster.
ClustersOf(g, e, b) ==
    [n \in String |-> Count({w \in Strings(b) : <<n, prefix_child(g, e, w)>> \in g.edges},
                            LAMBDA w : b[w])]

\* ExpandHostsFn: a host once for every path to it; a string that names no
\* node for get_node is skipped, the full name of a cluster among them.
HostsBelow(g, e, b) ==
    [n \in String |->
        IF ~ Is(g, n, "HOST") THEN 0
        ELSE Count({w \in Strings(b) : get_node(g, e, w) # NotFound},
                   LAMBDA w : b[w] * Cardinality({p \in expand(g, get_node(g, e, w),
                                                               Cardinality(Node)) :
                                                     Last(p) = n}))]

\* std::set_union, set_difference and set_intersection of two sorted lists.
Combined(op, l, r) ==
    [w \in String |->
        CASE op = "union" -> IF l[w] > r[w] THEN l[w] ELSE r[w]
          [] op = "difference" -> IF l[w] > r[w] THEN l[w] - r[w] ELSE 0
          [] op = "intersection" -> IF l[w] < r[w] THEN l[w] ELSE r[w]]

\* ClustersFn: what get_clusters answers for each name that it finds.
ClustersFn(g, e, b) ==
    LET found == {w \in Strings(b) : get_clusters(g, e, w) # NotFound}
    IN  [n \in String |-> Count({w \in found : n \in Range(get_clusters(g, e, w))},
                                LAMBDA w : b[w])]

\* AllClustersFn: the environment is put before the name again.
AllClustersFn(g) ==
    [n \in String |-> IF \E e \in all_environments(g) : n \in Range(all_clusters(g, e))
                      THEN 1 ELSE 0]

\* ASTKeyExpand: the values of a key, or the keys.
KeyExpanded(g, e, b, k) ==
    LET found(w) == LET tags == g.tags[prefix_child(g, e, w)]
                    IN IF k = KEYS THEN DOMAIN tags
                       ELSE IF k \in DOMAIN tags THEN tags[k] ELSE {}
    IN [v \in String |-> Count({w \in Strings(b) : v \in found(w)}, LAMBDA w : b[w])]

\* ASTAdmin: for every child breadth first, upwards to the first that has
\* admins.
HasAdmin(g) == {n \in g.live : ADMIN_NODE \in DOMAIN g.tags[n]}

AdminOf(g, n) == bfs_search_parents_for_first_key(g, n, HasAdmin(g))

Admins(g, e, b) ==
    LET holders == {AdminOf(g, prefix_child(g, e, w)) : w \in Strings(b)} \ {NotFound}
    IN [v \in String |-> IF \E n \in holders : v \in g.tags[n][ADMIN_NODE] THEN 1 ELSE 0]

Thrown == [threw |-> TRUE, b |-> [w \in String |-> 0]]

Children(b) == [threw |-> FALSE, b |-> b]

\* regex_filter, which difference and intersection call for a regular
\* expression on their right.
Filter(op, b, re) ==
    [w \in String |-> IF (w \in re.re) = (re.positive = (op = "intersection"))
                      THEN b[w] ELSE 0]

\* ASTFunctionArguments: an argument without children is not passed on, and
\* no function answers a wrong number of arguments.
CallFunction(fn, g, e, args) ==
    CASE fn = "all_clusters" /\ args = <<>> -> AllClustersFn(g)
      [] fn = "clusters" /\ Len(args) = 1 -> ClustersFn(g, e, args[1])
      [] fn = "expand_hosts" /\ Len(args) = 1 -> HostsBelow(g, e, args[1])
      [] OTHER -> [w \in String |-> 0]

RECURSIVE Eval(_, _, _)
Eval(g, e, x) ==
    CASE x.op \in {"word", "literal"} -> Children([w \in String |-> IF w = x.w THEN 1 ELSE 0])
      [] x.op = "null" -> Children([w \in String |-> 0])
      [] x.op = "group" -> Eval(g, e, x.a)
      [] x.op \in {"expand", "get_cluster", "admin"} ->
            LET a == Eval(g, e, x.a) IN
            IF a.threw \/ ~ Resolved(g, e, a.b) THEN Thrown
            ELSE Children(CASE x.op = "expand" -> Expanded(g, e, a.b)
                            [] x.op = "get_cluster" -> ClustersOf(g, e, a.b)
                            [] x.op = "admin" -> Admins(g, e, a.b))
      [] x.op = "keyexpand" ->
            LET a == Eval(g, e, x.l) IN
            IF a.threw \/ ~ Resolved(g, e, a.b) THEN Thrown
            ELSE Children(KeyExpanded(g, e, a.b, x.r.w))
      [] x.op = "function" ->
            LET args == [i \in DOMAIN x.args |-> Eval(g, e, x.args[i])] IN
            IF \E i \in DOMAIN args : args[i].threw THEN Thrown
            ELSE LET bs == [i \in DOMAIN args |-> args[i].b]
                 IN  Children(CallFunction(x.fn, g, e, SelectSeq(bs, LAMBDA b : Strings(b) # {})))
      [] x.op \in {"difference", "intersection"} /\ x.r.op = "regex" ->
            LET l == Eval(g, e, x.l) IN
            IF l.threw THEN Thrown ELSE Children(Filter(x.op, l.b, x.r))
      [] OTHER ->
            LET l == Eval(g, e, x.l)
                r == Eval(g, e, x.r)
            IN  IF l.threw \/ r.threw THEN Thrown
                ELSE Children(Combined(x.op, l.b, r.b))

\* The result, with the clusters of the environment by their local names.
expand_range_expression(g, e, x) ==
    LET r == Eval(g, e, x)
    IN  [threw |-> r.threw,
         b |-> [n \in String |-> Count({w \in Strings(r.b) : unprefix_node_name(e, w) = n},
                                       LAMBDA w : r.b[w])]]

-----------------------------------------------------------------------------
(* What an expression should mean: a set of nodes. *)

RECURSIVE Meaning(_, _, _)
Meaning(g, e, x) ==
    CASE x.op = "word" -> {prefix_child(g, e, x.w)}
      [] x.op = "group" -> Meaning(g, e, x.a)
      [] x.op = "expand" ->
            {n \in Node : \E m \in Meaning(g, e, x.a) : <<m, n>> \in g.edges}
      [] x.op = "get_cluster" ->
            {n \in Node : \E m \in Meaning(g, e, x.a) : <<n, m>> \in g.edges}
      [] x.op = "function" ->
            {n \in Reached(g.edges, Meaning(g, e, x.args[1])) : g.type[n] = "HOST"}
      [] x.op = "regex" -> IF x.positive THEN x.re ELSE String \ x.re
      [] x.op = "union" -> Meaning(g, e, x.l) \cup Meaning(g, e, x.r)
      [] x.op = "difference" -> Meaning(g, e, x.l) \ Meaning(g, e, x.r)
      [] x.op = "intersection" -> Meaning(g, e, x.l) \cap Meaning(g, e, x.r)

\* Every word that is expanded names a node.
RECURSIVE Defined(_, _, _)
Defined(g, e, x) ==
    CASE x.op \in {"word", "regex"} -> TRUE
      [] x.op = "group" -> Defined(g, e, x.a)
      [] x.op \in {"expand", "get_cluster"} ->
            Defined(g, e, x.a) /\ Meaning(g, e, x.a) \subseteq g.live
      [] OTHER -> Defined(g, e, x.l) /\ Defined(g, e, x.r)

\* The environments in which no host has the name of a cluster.
Unambiguous(g) ==
    {e \in all_environments(g) : \A n \in Plain : Is(g, n, "HOST") => <<e, n>> \notin g.live}

Words == {Word(w) : w \in Plain \cup Local}

Expansions == {Expand(a) : a \in Words} \cup {Expand(Expand(a)) : a \in Words}

\* Words that name no cluster of the environment, and expansions.
Operands(g, e) == {a \in Words : <<e, a.w>> \notin g.live} \cup Expansions

Combinations(S) == {Union(l, r) : l, r \in S} \cup {Difference(l, r) : l, r \in S}
                   \cup {Intersection(l, r) : l, r \in S}

Filtered(S) ==
    LET filters == {Regex(re, positive) : re \in {Plain, Cluster}, positive \in BOOLEAN}
    IN  {Difference(a, re) : a \in S, re \in filters}
        \cup {Intersection(Group(a), re) : a \in S, re \in filters}

Expressions(g, e) ==
    Combinations(Operands(g, e)) \cup Filtered(Operands(g, e))
    \cup {Expand(x) : x \in Combinations(Words)}
    \cup {GetCluster(a) : a \in Words \cup Expansions}

\* "range1,-range2 == set difference" (README.md:47) and the lines around it:
\* union, difference, intersection, the two filters, % and * compute sets of
\* nodes, every name comes once except after *, and an expression fails just
\* when it expands a word that names no node.  Excepted are operands that name a cluster by its
\* local name, which differs from the full name it is compared with, and hosts
\* that have the name of a cluster.
SetAlgebra ==
    \A e \in Unambiguous(primary) : \A x \in Expressions(primary, e) :
        LET r == expand_range_expression(primary, e, x) IN
        /\ r.threw <=> ~ Defined(primary, e, x)
        /\ r.threw \/ /\ Strings(r.b) = {unprefix_node_name(e, n) :
                                            n \in Meaning(primary, e, x)}
                      /\ x.op # "get_cluster" => \A w \in Strings(r.b) : r.b[w] = 1

ExpandHosts(a) == Function("expand_hosts", <<a>>)

\* expand_hosts(word) returns "all hosts at any depth beneath it"
\* (README.md:70), each once for every path, and expand_hosts(%word) only the
\* hosts that are direct members: the full names of the clusters in between are
\* not found again and the error is dropped.
HostsFound ==
    \A e \in Unambiguous(primary), a \in Words :
        LET r == expand_range_expression(primary, e, ExpandHosts(a))
            d == expand_range_expression(primary, e, ExpandHosts(Expand(a)))
            n == prefix_child(primary, e, a.w)
        IN  /\ ~ r.threw
            /\ (n \in Cluster \/ n = e) =>
                  Strings(r.b) = Meaning(primary, e, ExpandHosts(a))
            /\ ~ d.threw => Strings(d.b) = {m \in Meaning(primary, e, Expand(a)) :
                                               primary.type[m] = "HOST"}

\* "* and clusters(node)  - returns all clusters a node is a direct descendant
\* of" (README.md:73): the two give the same names as often, and all_clusters()
\* gives "all clusters" that an environment holds, each by the name under which
\* * finds it; but where * fails for a name that is no node, clusters is empty.
ClustersFound ==
    \A e \in Env :
        LET clusters(a) ==
                expand_range_expression(primary, e, Function("clusters", <<a>>))
            star(a) == expand_range_expression(primary, e, GetCluster(a))
            all == expand_range_expression(primary, e, Function("all_clusters", <<Null>>))
        IN  /\ \A a \in Words :
                  clusters(a) = IF star(a).threw THEN Children(Thrown.b) ELSE star(a)
            /\ Strings(all.b) =
                  {unprefix_node_name(e, n) :
                      n \in Reached(primary.edges, all_environments(primary)) \cap Cluster}

-----------------------------------------------------------------------------
(* Keys: the graph with the tags of its nodes, a function from its keys    *)
(* for every node.  A write changes them as GraphDB says; here they are    *)
(* any.                                                                    *)

WithTags(g, tags) == g @@ [tags |-> tags]

\* ADMIN_NODE is set for the nodes in T, to a value that tells them apart, and
\* another key for all others, to the nodes that hold them.
Tags(g, T, k) ==
    [n \in g.live |-> IF n \in T THEN ADMIN_NODE :> {n}
                      ELSE k :> {m \in Node : <<m, n>> \in g.edges}]

\* The ':' of an expression and the calls get_keys, fetch_key and
\* fetch_all_keys of the read API, which look names up in ways of their own,
\* read the same keys of the same node, and ':' is empty where fetch_key throws
\* KeyNotFoundException.  The one name that only ':' knows is that of another
\* environment.
KeysRead ==
    \A e \in Unambiguous(primary), w \in Plain \cup Local, k \in Local :
        \A T \in SUBSET primary.live :
            LET g == WithTags(primary, Tags(primary, T, k))
                read(key) == Eval(g, e, KeyExpand(Word(w), Word(key)))
                values(key) == Strings(read(key).b)
            IN IF get_node(g, e, w) = NotFound
                 THEN ~ read(KEYS).threw => w \in all_environments(g) \ {e}
                 ELSE /\ get_keys(g, e, w) = values(KEYS)
                      /\ fetch_all_keys(g, e, w) = [key \in values(KEYS) |-> values(key)]
                      /\ \A key \in Local \cup {ADMIN_NODE} :
                           /\ ~ read(key).threw
                           /\ IF key \in values(KEYS)
                                THEN fetch_key(g, e, w, key) = values(key)
                                ELSE values(key) = {} /\ fetch_key(g, e, w, key) = KeyNotFound

\* "^range1 == admins for the nodes in range1" (README.md:49): for every node
\* the admins of just one nearest node upwards that has any, itself included,
\* also for the nodes that a key names; and it fails when one of the words is
\* no node.
AdminsFound ==
    \A e \in Unambiguous(primary), k \in Local :
        \A T \in SUBSET primary.live :
            LET g == WithTags(primary, Tags(primary, T, k))
                up == Upwards(g.edges)
                nearest(n) == {m \in T \cap Reached(up, {n}) :
                                 \A d \in 0 .. Cardinality(Node) :
                                    T \cap Near(up, {n}, d) # {} => m \in Near(up, {n}, d)}
            IN \A a \in Words \cup Expansions
                      \cup {KeyExpand(b, Word(k)) : b \in Words} :
                  LET children == Eval(g, e, a)
                      nodes == {prefix_child(g, e, w) : w \in Strings(children.b)}
                      r == Eval(g, e, Admin(a))
                  IN IF children.threw \/ ~ nodes \subseteq g.live THEN r.threw
                     ELSE /\ ~ r.threw
                          /\ \A n \in nodes : nearest(n) = {} \/ nearest(n) \cap Strings(r.b) # {}
                          /\ Strings(r.b) \subseteq UNION {nearest(n) : n \in nodes}
                          /\ Cardinality(Strings(r.b)) <= Cardinality(nodes)
=============================================================================
