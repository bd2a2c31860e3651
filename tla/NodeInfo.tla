------------------------------ MODULE NodeInfo ------------------------------
(***************************************************************************)
(* The record of one node (librange/db/pbuff_node.cpp).  A node counts its *)
(* own list_version, and every edge and every tag carries the list         *)
(* versions it was part of: a change copies all that was current to the    *)
(* next version and adds or drops one item.  The version lists grow at     *)
(* their end, so they are sets here and their last element is the largest; *)
(* the order of the edges is left out.                                     *)
(***************************************************************************)
EXTENDS Naturals, Sequences, FiniteSets, FiniteSetsExt

CONSTANTS Nodes, Keys, Values

Directions == {"forward", "reverse"}

KeyValue == [key : Keys, versions : SUBSET Nat, key_version : Nat,
             versionmap : SUBSET (Nat \X Nat), values : [Values -> SUBSET Nat]]

Info == [version : Nat, edges : [Directions -> [Nodes -> SUBSET Nat]],
         keys : Seq(KeyValue)]

\* init_default_nodeinfo
NewInfo == [version |-> 0,
            edges |-> [d \in Directions |-> [n \in Nodes |-> {}]],
            keys |-> << >>]

NewKey(k) == [key |-> k, versions |-> {}, key_version |-> 0,
              versionmap |-> {}, values |-> [v \in Values |-> {}]]

-----------------------------------------------------------------------------
(***************************************************************************)
(* What every change does to the items it does not touch.                  *)
(***************************************************************************)

\* update_unique_new_version: an item of the version cmp, or already of the
\* version new, is an item of new.
Carried(versions, cmp, new) == {cmp, new} \cap versions # {}

\* update_all_edge_versions
CarryEdges(edges, cmp, new) ==
    [d \in Directions |-> [n \in Nodes |->
        IF Carried(edges[d][n], cmp, new) THEN edges[d][n] \cup {new}
                                          ELSE edges[d][n]]]

\* update_tag_versions: a carried key notes which of its own versions the new
\* list version shows.  A key that has such a note ends the whole loop.
CarryKeys(keys, cmp, new) ==
    LET noted(i) == \E m \in keys[i].versionmap : m[1] = new
        stop == {i \in DOMAIN keys :
                    Carried(keys[i].versions, cmp, new) /\ noted(i)}
    IN [i \in DOMAIN keys |->
            IF (\E j \in stop : j < i) \/ ~Carried(keys[i].versions, cmp, new)
              THEN keys[i]
              ELSE [keys[i] EXCEPT !.versions = @ \cup {new},
                       !.versionmap = IF noted(i) THEN @
                                      ELSE @ \cup {<<new, keys[i].key_version>>}]]

\* set_type, and the common part of the other changes.  (The type itself is
\* not versioned and is left out.)
Carry(info) ==
    LET cmp == info.version
        new == cmp + 1
    IN [version |-> new, edges |-> CarryEdges(info.edges, cmp, new),
        keys |-> CarryKeys(info.keys, cmp, new)]

-----------------------------------------------------------------------------
(***************************************************************************)
(* The changes.  The callers test HasEdge and HasKey, the early returns of *)
(* add_edge, remove_edge and delete_tag.                                   *)
(***************************************************************************)

HasEdge(info, d, n) == info.version \in info.edges[d][n]

\* add_edge, for an edge that was never there and for one that is added back.
AddEdge(info, d, n) ==
    Carry([info EXCEPT !.edges[d][n] = @ \cup {info.version + 1}])

\* remove_edge: the edge is carried with the others, then RemoveLast.
RemoveEdge(info, d, n) ==
    LET carried == Carry(info)
    IN [carried EXCEPT !.edges[d][n] = @ \ {Max(@)}]

\* The keys as indices; a key keeps its place for ever.
IndexOf(info, k) == {i \in DOMAIN info.keys : info.keys[i].key = k}

HasKey(info, k) ==
    \E i \in IndexOf(info, k) : info.version \in info.keys[i].versions

\* update_tag: the key's own version rises, and the given values are marked
\* with it.
UpdateTag(info, k, vals) ==
    LET old == IF IndexOf(info, k) = {} THEN Append(info.keys, NewKey(k))
                                        ELSE info.keys
        i == CHOOSE j \in DOMAIN old : old[j].key = k
        kver == old[i].key_version + 1
        keys == [old EXCEPT ![i].versions = @ \cup {info.version + 1},
                            ![i].key_version = kver,
                            ![i].values = [v \in Values |->
                                IF v \in vals THEN @[v] \cup {kver} ELSE @[v]]]
    IN Carry([info EXCEPT !.keys = keys])

\* A variant: the key is carried like the others and stays.
DeleteTagKeeps(info, k) == Carry(info)

\* delete_tag: carried with the others, then RemoveLast; the versionmap keeps
\* its new entry.
DeleteTag(info, k) ==
    LET carried == Carry(info)
        i == CHOOSE j \in IndexOf(info, k) : TRUE
    IN [carried EXCEPT !.keys[i].versions = @ \ {Max(@)}]

-----------------------------------------------------------------------------
(***************************************************************************)
(* Reading the record at a list version w.                                 *)
(***************************************************************************)

\* get_edges
EdgesAt(info, d, w) == {n \in Nodes : w \in info.edges[d][n]}

\* tags and get_map_value: the keys of w, each with the values of the key
\* version that w shows.
TagsAt(info, w) ==
    UNION {{<<kv.key, {v \in Values : m[2] \in kv.values[v]}>> :
                m \in {x \in kv.versionmap : x[1] = w}} :
           kv \in {info.keys[i] : i \in
                      {j \in DOMAIN info.keys : w \in info.keys[j].versions}}}

=============================================================================
