----------------------------- MODULE Traversal -----------------------------
(***************************************************************************)
(* The searches of the read API (librange/core/read_api.cpp) down from an  *)
(* environment and up for a key, and its sort of dependencies, in one      *)
(* state of the two graphs.  A round of a loop of the code is a step from  *)
(* one value of its variables to the next; a loop that has ended stays as  *)
(* it is, so it is run for as many rounds as any loop over the nodes and   *)
(* their edges can take.                                                   *)
(***************************************************************************)
EXTENDS Lookup

Rounds == (Cardinality(Node) + 1) * (Cardinality(Node) + 1)

-----------------------------------------------------------------------------
(* Depth first from one node *)

\* found lists the visited nodes of the given types.
VisitStep(g, types, s) ==
    IF s.st = <<>> THEN s
    ELSE LET v == Last(s.st) IN
         IF v \in s.visited THEN [s EXCEPT !.st = Front(@)]
         ELSE [st |-> Front(s.st) \o forward_edges(g, v),
               visited |-> s.visited \cup {v},
               found |-> IF g.type[v] \in types THEN Append(s.found, v) ELSE s.found]

Visit(g, types, e) ==
    LET at[k \in 0..Rounds] ==
            IF k = 0 THEN [st |-> <<e>>, visited |-> {}, found |-> <<>>]
            ELSE VisitStep(g, types, at[k - 1])
    IN  at[Rounds]

all_clusters(g, e) == Visit(g, {"CLUSTER"}, e).found

find_orphaned_nodes(g) ==
    g.live \ UNION {Visit(g, {}, e).visited : e \in all_environments(g)}

-----------------------------------------------------------------------------
(* Up from one node to the first that has a key: T are the nodes that have *)
(* it, and the search breaks off with one of them.                         *)

Unsearched(n) == [todo |-> <<n>>, visited |-> {}, found |-> NotFound]

\* v is taken off what there is to do, and rest is left.
KeyStep(g, T, s, v, rest) ==
    IF v \in s.visited THEN [s EXCEPT !.todo = rest]
    ELSE [todo |-> IF v \in T THEN rest ELSE rest \o reverse_edges(g, v),
          visited |-> s.visited \cup {v},
          found |-> IF v \in T THEN v ELSE NotFound]

\* The first of a queue.
BfsStep(g, T, s) ==
    IF s.todo = <<>> \/ s.found # NotFound THEN s
    ELSE KeyStep(g, T, s, Head(s.todo), Tail(s.todo))

bfs_search_parents_for_first_key(g, n, T) ==
    LET at[k \in 0..Rounds] ==
            IF k = 0 THEN Unsearched(n) ELSE BfsStep(g, T, at[k - 1])
    IN  at[Rounds].found

\* The top of a stack.
DfsStep(g, T, s) ==
    IF s.todo = <<>> \/ s.found # NotFound THEN s
    ELSE KeyStep(g, T, s, Last(s.todo), Front(s.todo))

dfs_search_parents_for_first_key(g, n, T) ==
    LET at[k \in 0..Rounds] ==
            IF k = 0 THEN Unsearched(n) ELSE DfsStep(g, T, at[k - 1])
    IN  at[Rounds].found

-----------------------------------------------------------------------------
(* Post-order: a frame is a node and the edges of it that are left.  Only  *)
(* clusters and environments have edges here, hosts do not.                *)

Frame(g, n) ==
    [v |-> n, out |-> IF g.type[n] \in {"CLUSTER", "ENVIRONMENT"}
                      THEN forward_edges(g, n) ELSE <<>>]

Popped(st) == [st EXCEPT ![Len(st)].out = Front(@)]

Names(st) == [i \in DOMAIN st |-> st[i].v]

\* The last frame has no edges left.
Finished(s) ==
    LET v == Last(s.st).v
    IN  [s EXCEPT !.st = Front(@), !.visited = @ \cup {v}, !.visiting = @ \ {v},
                  !.sorted = Append(@, v)]

\* Its next edge leads to a node that is new.
Deeper(s, e) ==
    [s EXCEPT !.st = Append(Popped(@), Frame(dependency, e)),
              !.visiting = @ \cup {Last(s.st).v}]

\* A variant: what was seen is skipped before the stack is looked at.
SortStepSkips(root, s) ==
    IF s.st = <<>> \/ s.cycle THEN s
    ELSE IF root \in s.visited THEN [s EXCEPT !.st = Front(@)]
    ELSE IF Last(s.st).out = <<>> THEN Finished(s)
    ELSE LET e == Last(Last(s.st).out) IN
         IF e \in s.visited \cup s.visiting THEN [s EXCEPT !.st = Popped(@)]
         ELSE Deeper(s, e)

\* One node with all it depends on.
SortStep(root, s) ==
    IF s.st = <<>> \/ s.cycle THEN s
    ELSE IF root \in s.visited THEN [s EXCEPT !.st = Front(@)]
    ELSE IF Last(s.st).out = <<>> THEN Finished(s)
    ELSE LET e == Last(Last(s.st).out) IN
         IF e \in Range(Names(s.st)) THEN [s EXCEPT !.cycle = TRUE]
         ELSE IF e \in s.visited \cup s.visiting THEN [s EXCEPT !.st = Popped(@)]
         ELSE Deeper(s, e)

SortFrom(n, s) ==
    LET at[k \in 0..Rounds] ==
            IF k = 0 THEN [s EXCEPT !.st = <<Frame(dependency, n)>>,
                                    !.visiting = @ \cup {n}]
            ELSE SortStep(n, at[k - 1])
    IN  at[Rounds]

Unsorted == [st |-> <<>>, visited |-> {}, visiting |-> {}, sorted |-> <<>>, cycle |-> FALSE]

\* A cycle throws GraphCycleException.
SortNext(s, n) == IF s.cycle THEN s ELSE SortFrom(n, s)

\* Every node in turn.
SortAll(nodes) ==
    LET at[i \in 0..Len(nodes)] ==
            IF i = 0 THEN Unsorted ELSE SortNext(at[i - 1], nodes[i])
    IN  at[Len(nodes)]

environment_topological_sort(e) ==
    LET s == SortAll(Visit(primary, Type \ {"ENVIRONMENT"}, e).found)
    IN  [cycle |-> s.cycle, sorted |-> Reverse(s.sorted)]

-----------------------------------------------------------------------------
(* What these should give *)

\* A node is in no environment for find_orphaned_nodes just when it is in none
\* for remove_host, which lets any environment remove it; every other cluster
\* is listed by all_clusters of the environment in its name.
OrphansUnlisted ==
    LET orphans == find_orphaned_nodes(primary) IN
    /\ orphans = {n \in primary.live :
                     \A m \in Ancestors(n) : primary.type[m] # "ENVIRONMENT"}
    /\ \A n \in (primary.live \cap Cluster) \ orphans :
          n \in Range(all_clusters(primary, n[1]))

\* Wherever a key is set, the search breadth first finds a nearest ancestor
\* that has it, and the one depth first finds one if there is one.
NearestKey ==
    \A n \in primary.live : \A T \in SUBSET primary.live :
        LET up == Upwards(primary.edges)
            b == bfs_search_parents_for_first_key(primary, n, T)
            d == dfs_search_parents_for_first_key(primary, n, T)
        IN  IF Reached(up, {n}) \cap T = {} THEN b = NotFound /\ d = NotFound
            ELSE /\ d \in Reached(up, {n}) \cap T
                 /\ b \in T
                 /\ \A k \in 0..Cardinality(Node) :
                       Near(up, {n}, k) \cap T # {} => b \in Near(up, {n}, k)

\* environment_topological_sort puts every node before what it depends on, and
\* throws for a cycle and for nothing else.  The dependencies of hosts do not
\* count, neither for the order nor for a cycle.
DependenciesSorted ==
    \A e \in all_environments(primary) :
        LET F == {d \in dependency.edges : dependency.type[d[1]] # "HOST"}
            nodes == Reached(F, Reached(primary.edges, {e}) \ all_environments(primary))
            t == environment_topological_sort(e)
        IN  /\ t.cycle <=> \E n \in nodes :
                             n \in Reached(F, {d[2] : d \in {d \in F : d[1] = n}})
            /\ ~ t.cycle =>
                  /\ Range(t.sorted) = nodes
                  /\ \A i, j \in DOMAIN t.sorted :
                        /\ t.sorted[i] = t.sorted[j] => i = j
                        /\ <<t.sorted[i], t.sorted[j]>> \in F => i < j
=============================================================================
