------------------------------- MODULE ReadAPI -------------------------------
(***************************************************************************)
(* The further searches of the read API (librange/core/read_api.cpp) in    *)
(* one state of the two graphs.  A loop of the code is a recursive         *)
(* operator over the variables of the loop; a search that reads while      *)
(* calls write is in Search.                                               *)
(***************************************************************************)
EXTENDS Traversal

\* The tree that expand returns, as the set of its paths from the root.
RECURSIVE ExpandLoop(_, _, _, _)
ExpandLoop(g, depth, st, paths) ==
    IF st = <<>> THEN paths
    ELSE IF Last(st).out # <<>> /\ Len(st) <= depth
         THEN LET e == Last(Last(st).out)
                  up == Append(Popped(st), Frame(g, e))
              IN  IF e \in Range(Names(st))
                  THEN ExpandLoop(g, depth, Popped(st), paths)
                  ELSE ExpandLoop(g, depth, up, paths \cup {Names(up)})
         ELSE ExpandLoop(g, depth, Front(st), paths)

expand(g, n, depth) == ExpandLoop(g, depth, <<Frame(g, n)>>, {<<n>>})

-----------------------------------------------------------------------------
(* Upwards *)

\* nearest_common_ancestor searches upwards from two nodes in turn: q[i] is
\* the queue of search i, seen[i] the depth at which it came to each node.
\* More than any distance: numeric_limits<size_t>::max().
NoDistance == 2 * Cardinality(Node)

Half(g, s, i) ==
    IF s.q[i] = <<>> THEN s
    ELSE LET v == Head(s.q[i])
             other == s.seen[3 - i]
             new == v.node \notin DOMAIN s.seen[i]
             up == [j \in DOMAIN reverse_edges(g, v.node) |->
                       [node |-> reverse_edges(g, v.node)[j], depth |-> v.depth + 1]]
             nearer == /\ v.node \in DOMAIN other
                       /\ other[v.node] + v.depth < s.distance
         IN  [s EXCEPT !.q[i] = Tail(@) \o (IF new THEN up ELSE <<>>),
                       !.seen[i] = IF new THEN @ @@ (v.node :> v.depth) ELSE @,
                       !.ancestor = IF nearer THEN v.node ELSE @,
                       !.distance = IF nearer THEN other[v.node] + v.depth ELSE @]

RECURSIVE Lockstep(_, _)
\* A variant: the search ends with the first ancestor that was found.
LockstepFirst(g, s) ==
    LET t == Half(g, Half(g, s, 1), 2)
    IN  IF s.q = <<<<>>, <<>>>> \/ t.distance < NoDistance THEN t ELSE Lockstep(g, t)

\* The search breaks off when one of the two is deeper than twice the
\* distance that was found.
Lockstep(g, s) ==
    IF s.q = <<<<>>, <<>>>> THEN s
    ELSE LET t == Half(g, Half(g, s, 1), 2)
             deep(i) == s.q[i] # <<>> /\ Head(s.q[i]).depth > 2 * t.distance
         IN  IF t.distance < NoDistance /\ \E i \in 1..2 : deep(i)
             THEN [t EXCEPT !.broke = TRUE] ELSE Lockstep(g, t)

nearest_common_ancestor(g, n1, n2) ==
    Lockstep(g, [q |-> <<<<[node |-> n1, depth |-> 0]>>, <<[node |-> n2, depth |-> 0]>>>>,
                 seen |-> <<<<>>, <<>>>>, ancestor |-> NotFound,
                 distance |-> NoDistance, broke |-> FALSE])

-----------------------------------------------------------------------------
(* What the searches should find *)

\* expand returns every path without repetition from the root to depth, and
\* nothing else: a cluster that is in two others is shown in both, a cycle is
\* cut, and nothing is below a host.
ExpandIsPaths ==
    \A n \in primary.live, depth \in {0, 1, Cardinality(Node)} :
        LET paths == expand(primary, n, depth) IN
        /\ \A p \in paths : p = <<n>> \/ (Len(p) > 1 /\ Front(p) \in paths)
        /\ \A p \in paths, m \in Node :
              Append(p, m) \in paths <=>
                 /\ <<Last(p), m>> \in primary.edges
                 /\ m \notin Range(p) /\ Len(p) <= depth
                 /\ primary.type[Last(p)] # "HOST"

\* nearest_common_ancestor finds an ancestor that both nodes have if there is
\* one, and unless it broke off none is nearer.
NearestAncestor ==
    \A n1, n2 \in primary.live :
        LET up == Upwards(primary.edges)
            r == nearest_common_ancestor(primary, n1, n2)
            common == Reached(up, {n1}) \cap Reached(up, {n2})
        IN  /\ r.distance = NoDistance <=> common = {}
            /\ common # {} =>
                  \E i \in 0..r.distance :
                     r.ancestor \in Near(up, {n1}, i) \cap Near(up, {n2}, r.distance - i)
            /\ ~ r.broke => \A d \in 0..(r.distance - 1) : \A i \in 0..d :
                               Near(up, {n1}, i) \cap Near(up, {n2}, d - i) = {}

\* The searches of the read API find what they are for, in every graph that
\* calls can build, with cycles of clusters and what failed calls left behind:
\* expand the paths (read_api.cpp:511-560), find_orphaned_nodes what belongs to
\* no environment, nearest_common_ancestor an ancestor of both, and the two
\* searches for a key a parent that has it.
SearchesFind == ExpandIsPaths /\ OrphansUnlisted /\ NearestAncestor /\ NearestKey
=============================================================================
