------------------------------ MODULE Storage -------------------------------
(***************************************************************************)
(* A transaction of GraphDB record by record: the table of one graph       *)
(* (librange/db/berkeley_dbcxx_db.cpp), the writes that a transaction has  *)
(* pending (berkeley_dbcxx_txn.cpp), the cursor and the iterators over the *)
(* table (berkeley_dbcxx_cursor.cpp, graph_iter.cpp), and the objects that *)
(* hold a node's record from when it was first read (pbuff_node.cpp).      *)
(*                                                                         *)
(* The table is a hash (DB_HASH): a cursor meets its keys in an order that *)
(* is no one's choice, nodes and other records mixed.                      *)
(***************************************************************************)
EXTENDS GraphDB
SE == INSTANCE SequencesExt

\* record_type, key_name: the prefix and the name.  get_type_from_keyname and
\* unprefix take them apart.
RecordKey == ({"NODE", "NODE_META"} \X Nodes) \cup {<<"GRAPH_META", "changelist">>}
get_type_from_keyname(key) == key[1]
unprefix(key) == key[2]

(* The instance s: its table, the pending_changes_ of the transaction, and *)
(* the removed_nodes of the graph.                                         *)

Stored(table) == [table |-> table, pending |-> << >>, removed |-> {}]

\* BerkeleyDBCXXDb::get_record: what is pending goes before what is stored.
get_record(s, key) ==
    IF key \in DOMAIN s.pending THEN <<s.pending[key].data>>
    ELSE IF key \in DOMAIN s.table THEN <<s.table[key]>> ELSE << >>

Put(f, key, value) == [k \in DOMAIN f \cup {key} |-> IF k = key THEN value ELSE f[k]]

read_changelist(s) ==
    LET found == get_record(s, <<"GRAPH_META", "changelist">>)
    IN IF found = << >> THEN [current_version |-> 0, change |-> << >>] ELSE found[1]

\* A variant: what is pending is not counted.
versionStored(s) == read_changelist(s).current_version

\* BerkeleyDBCXXDb::version: pending writes make the next version.
version(s) ==
    read_changelist(s).current_version + IF DOMAIN s.pending = {} THEN 0 ELSE 1

\* write_record, add_change
add_change(s, key, node_version, data) ==
    [s EXCEPT !.pending = Put(@, key, [version |-> node_version, data |-> data])]

\* commit_record: the change takes the place of what is stored.
commit_record(table, key, change) == Put(table, key, change.data)

\* All that is pending, each record once; flush does not clear it.
flush(s) ==
    [s EXCEPT !.table = FoldSet(LAMBDA k, t : commit_record(t, k, s.pending[k]), @,
                                DOMAIN s.pending)]

add_graph_changelist(table, list) ==
    commit_record(table, <<"GRAPH_META", "changelist">>,
                  [data |-> [list EXCEPT !.current_version = @ + 1]])

\* BerkeleyDBCXXTxn::commit: a change names the records of nodes only, and
\* without one the list stays as it was.
commit(s) ==
    LET nodes == {k \in DOMAIN s.pending : k[1] = "NODE"}
        item == [n \in {unprefix(k) : k \in nodes} |-> s.pending[<<"NODE", n>>].version]
        list == [read_changelist(s) EXCEPT !.change = Append(@, item)]
        written == [flush(s) EXCEPT !.pending = << >>]
    IN IF nodes = {} THEN written
       ELSE [written EXCEPT !.table = add_graph_changelist(@, list)]

-----------------------------------------------------------------------------
(* The cursor: its place in the keys of the table, 0 before it was used.   *)
(* Each of its steps gives the node it stops at, or none.                  *)

NoNode == "none"

\* The keys of the table in the order of the hash.
KeysOf(s, order) == SelectSeq(order, LAMBDA k : k \in DOMAIN s.table)

IsNodeKey(keys, i) == get_type_from_keyname(keys[i]) = "NODE"

StopAt(keys, i) == [at |-> i, node |-> unprefix(keys[i])]

\* DB_SET on the key of a node; a cursor that finds nothing stays where it was.
fetch(keys, at, n) ==
    LET found == {i \in DOMAIN keys : keys[i] = <<"NODE", n>>}
    IN IF found = {} THEN [at |-> at, node |-> NoNode] ELSE StopAt(keys, Min(found))

\* DB_NEXT until it is at a node.
next(keys, at) ==
    LET later == {i \in DOMAIN keys : i > at /\ IsNodeKey(keys, i)}
    IN IF later = {} THEN [at |-> Len(keys), node |-> NoNode] ELSE StopAt(keys, Min(later))

\* DB_PREV likewise.
prev(keys, at) ==
    LET earlier == {i \in DOMAIN keys : i < at /\ IsNodeKey(keys, i)}
    IN IF earlier = {} THEN [at |-> 1, node |-> NoNode] ELSE StopAt(keys, Max(earlier))

\* DB_FIRST and DB_LAST, and on from there when it is another record.
first(keys) ==
    IF keys = << >> THEN [at |-> 0, node |-> NoNode]
    ELSE IF IsNodeKey(keys, 1) THEN StopAt(keys, 1) ELSE next(keys, 1)

last(keys) ==
    IF keys = << >> THEN [at |-> 0, node |-> NoNode]
    ELSE IF IsNodeKey(keys, Len(keys)) THEN StopAt(keys, Len(keys)) ELSE prev(keys, Len(keys))

\* get_cursor(node): the iterator has a cursor of its own, set to the node.
AtNode(keys, n) == IF n = NoNode THEN [at |-> 0, node |-> NoNode] ELSE fetch(keys, 0, n)

\* GraphDB::begin, cbegin
begin(keys) == AtNode(keys, first(keys).node)

\* From an iterator to end(): the nodes it stands at, by increment() or by
\* decrement().
RECURSIVE Forward(_, _)
Forward(keys, it) ==
    IF it.node = NoNode THEN << >> ELSE <<it.node>> \o Forward(keys, next(keys, it.at))

RECURSIVE Backward(_, _)
Backward(keys, it) ==
    IF it.node = NoNode THEN << >> ELSE <<it.node>> \o Backward(keys, prev(keys, it.at))

-----------------------------------------------------------------------------
(* A node object o: its name and the record that it read first.  Each of   *)
(* its operations gives the instance and the object afterwards.            *)

\* init_info, init_default_nodeinfo
Load(s, n) ==
    LET found == get_record(s, <<"NODE", n>>)
    IN [name |-> n, rec |-> IF found = << >> THEN [info |-> NewInfo, gv |-> {}] ELSE found[1]]

\* write_record of pbuff_node.cpp
Written(s, o, type) == add_change(s, <<type, o.name>>, o.rec.info.version, o.rec)

\* What a change of the record ends with.
Changed(s, o, record) ==
    LET o2 == [o EXCEPT !.rec.info = record]
    IN [s |-> Written(s, o2, "NODE"), o |-> o2]

set_type(s, o) == Changed(s, o, Carry(o.rec.info))

add_edge(s, o, d, m) ==
    IF HasEdge(o.rec.info, d, m) THEN [s |-> s, o |-> o]
    ELSE Changed(s, o, AddEdge(o.rec.info, d, m))

remove_edge(s, o, d, m) ==
    IF ~HasEdge(o.rec.info, d, m) THEN [s |-> s, o |-> o]
    ELSE Changed(s, o, RemoveEdge(o.rec.info, d, m))

\* The version goes to a record of another type, and all is flushed.
add_graph_version(s, o, v) ==
    LET o2 == [o EXCEPT !.rec.gv = @ \cup {v}]
    IN IF HasVersionOrHigher(o.rec.gv, v) THEN [s |-> s, o |-> o]
       ELSE [s |-> flush(Written(s, o2, "NODE_META")), o |-> o2]

-----------------------------------------------------------------------------
(* GraphDB on top of it. *)

\* get_node looks for the key in the table and not in what is pending.
get_node(s, n) ==
    IF <<"NODE", n>> \in DOMAIN s.table /\ version(s) \in Load(s, n).rec.gv
      THEN {Load(s, n)} ELSE {}

\* create, and the set_type of its callers.
create(s, n) ==
    LET o == Load(s, n)
        s2 == IF o.rec.info.version = 0 THEN Written(s, o, "NODE") ELSE s
        given == add_graph_version(s2, o, version(s2))
    IN IF HasVersionOrHigher(o.rec.gv, version(s)) THEN {} ELSE {set_type(given.s, given.o)}

\* remove: a self loop, then all edges with the nodes at their other ends,
\* which are read anew.  (The order of the edges is that of GraphDB.)
remove(s, o) ==
    LET n == o.name
        forward == add_edge(s, o, "forward", n)
        looped == IF HasEdge(o.rec.info, "forward", n) THEN forward
                  ELSE add_edge(forward.s, forward.o, "reverse", n)
        cut(r, d, back, m) ==
            LET own == remove_edge(r.s, r.o, d, m)
            IN [own EXCEPT !.s = remove_edge(own.s, Load(own.s, m), back, n).s]
        ends(r, d) == EdgesAt(r.o.rec.info, d, r.o.rec.info.version)
        reverse == FoldSet(LAMBDA m, r : cut(r, "reverse", "forward", m), looped,
                           ends(looped, "reverse"))
        all == FoldSet(LAMBDA m, r : cut(r, "forward", "reverse", m), reverse,
                       ends(reverse, "forward"))
    IN [all.s EXCEPT !.removed = @ \cup {n}]

\* A variant: only the nodes of just the prior version.
update_versionsExact(s, prior, order) ==
    LET keys == KeysOf(s, order)
        due == SelectSeq(Forward(keys, begin(keys)),
                         LAMBDA n : prior \in Load(s, n).rec.gv /\ n \notin s.removed)
        raised(t, n) == LET r == add_graph_version(t, Load(t, n), version(t))
                        IN Written(r.s, r.o, "NODE")
    IN [SE!FoldLeft(raised, s, due) EXCEPT !.removed = {}]

update_versions(s, prior, order) ==
    LET keys == KeysOf(s, order)
        due == SelectSeq(Forward(keys, begin(keys)),
                         LAMBDA n : HasVersionOrHigher(Load(s, n).rec.gv, prior)
                                    /\ n \notin s.removed)
        raised(t, n) == LET r == add_graph_version(t, Load(t, n), version(t))
                        IN Written(r.s, r.o, "NODE")
    IN [SE!FoldLeft(raised, s, due) EXCEPT !.removed = {}]

\* The end of a GraphTxn that read the version prior when it was made.
Ended(s, prior, order) ==
    commit(IF version(s) > prior THEN update_versions(s, prior, order) ELSE s)

-----------------------------------------------------------------------------
(* What the operations of the write API do within the transaction.  Each   *)
(* is the set of the instances it may leave: none when it throws.          *)

Creating(s, n) == {r.s : r \in create(s, n)}

Linking(s, p, n) ==
    UNION {{LET one == add_edge(c.s, parent, "forward", n)
            IN add_edge(one.s, c.o, "reverse", p).s :
              c \in IF get_node(s, n) = {} THEN create(s, n)
                    ELSE {[s |-> s, o |-> o] : o \in get_node(s, n)}} :
             parent \in get_node(s, p)}

Unlinking(s, p, n) ==
    {LET one == remove_edge(s, ends[1], "forward", n)
     IN remove_edge(one.s, ends[2], "reverse", p).s :
       ends \in get_node(s, p) \X get_node(s, n)}

Removing(s, n) == {remove(s, o) : o \in get_node(s, n)}

Tagging(s, n, k, vals) ==
    {Changed(s, o, UpdateTag(o.rec.info, k, vals)).s : o \in get_node(s, n)}

Untagging(s, n, k) == {Changed(s, o, DeleteTag(o.rec.info, k)).s : o \in get_node(s, n)}

-----------------------------------------------------------------------------
(* The states of GraphDB as a table: every node that was ever created has  *)
(* a record, and a copy of it that is never read.                          *)

TableOf(infos, gvs, list) ==
    LET known == {n \in Nodes : infos[n].version > 0}
        node(n) == [info |-> infos[n], gv |-> gvs[n]]
    IN [k \in ({"NODE", "NODE_META"} \X known)
              \cup (IF list = << >> THEN {} ELSE {<<"GRAPH_META", "changelist">>}) |->
          IF k[1] = "GRAPH_META" THEN [current_version |-> Len(list), change |-> list]
          ELSE node(k[2])]

Readable(table) == [k \in {k \in DOMAIN table : k[1] # "NODE_META"} |-> table[k]]

Current == Stored(TableOf(info, gversions, changes))

\* The transaction does what the step does, in whatever order the hash has.
Does(bodies, orders) ==
    \A order \in orders :
        Readable(TableOf(info, gversions, changes))'
            \in {Readable(Ended(s, Version, order).table) : s \in bodies}

(***************************************************************************)
(* Every step of GraphDB is what its transaction does to the table, record *)
(* by record: writes that are pending and read back, the version that      *)
(* counts them, nodes found by a cursor in a table that the transaction    *)
(* has written to, and a change list that names the records it wrote       *)
(* (graphdb.cpp, berkeley_dbcxx_txn.cpp).                                  *)
(***************************************************************************)
TransactionsAreSteps(orders) ==
    \A n \in Nodes :
        /\ Create(n) => Does(Creating(Current, n), orders)
        /\ Remove(n) => Does(Removing(Current, n), orders)
        /\ \A p \in Nodes :
              /\ AddChild(p, n) => Does(Linking(Current, p, n), orders)
              /\ RemoveChild(p, n) => Does(Unlinking(Current, p, n), orders)
        /\ \A k \in Keys :
              /\ RemoveKey(n, k) => Does(Untagging(Current, n, k), orders)
              /\ \A v \in Values : UpdateKey(n, k, v) =>
                    Does(UNION {Tagging(Current, n, k, vals) :
                                  vals \in {Tagged(n, k) \cup {v}, Tagged(n, k) \ {v}}
                                             \ {Tagged(n, k)}}, orders)

(***************************************************************************)
(* The iterators meet every node that has a record once, from begin() on   *)
(* and from the last one back, whatever lies between them in the table     *)
(* (update_versions raises what they meet, and a node that they miss is    *)
(* lost; graphdb.cpp:243).                                                 *)
(***************************************************************************)
IteratorsMeetAll(orders) ==
    \A order \in orders :
        LET keys == KeysOf(Current, order)
            nodes == {n \in Nodes : info[n].version > 0}
        IN /\ SE!ToSet(Forward(keys, begin(keys))) = nodes
           /\ Len(Forward(keys, begin(keys))) = Cardinality(nodes)
           /\ Backward(keys, last(keys)) = SE!Reverse(Forward(keys, begin(keys)))

(***************************************************************************)
(* GraphTxn reads the version before it has the write lock                 *)
(* (graphdb.h:46-47).  When another process commits in between, the        *)
(* transaction still keeps all that it would have kept, nodes that the     *)
(* other one created included; but a node that the other one removed is    *)
(* back, and no other.                                                     *)
(***************************************************************************)
StalePriorRevives(orders) ==
    Version > 0 =>
        \A n \in Nodes, order \in orders : \A s \in Creating(Current, n) :
            LET members(prior) ==
                    {m \in Nodes : LET table == Ended(s, prior, order).table
                                   IN /\ <<"NODE", m>> \in DOMAIN table
                                      /\ Version + 1 \in table[<<"NODE", m>>].gv}
            IN members(Version - 1) =
                 members(Version) \cup {m \in Nodes : Version - 1 \in gversions[m]}
=============================================================================
