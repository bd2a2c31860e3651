----------------------------- MODULE MCGraphDB ------------------------------
EXTENDS Records, Storage

\* Orders of the keys in the table: the nodes by themselves or each next to its
\* copy, in all rotations, so that each key comes first, last and after others.
Grouped == SX!SetToSeq({"NODE"} \X Nodes) \o SX!SetToSeq(RecordKey \ ({"NODE"} \X Nodes))

Paired ==
    LET nodes == SX!SetToSeq(Nodes)
    IN [i \in 1 .. 2 * Len(nodes) |->
          <<IF i % 2 = 0 THEN "NODE" ELSE "NODE_META", nodes[(i + 1) \div 2]>>]
       \o <<<<"GRAPH_META", "changelist">>>>

Rotated(s, r) == [i \in DOMAIN s |-> s[((i + r) % Len(s)) + 1]]

Orders == {Rotated(s, r) : s \in {Grouped, Paired}, r \in 1 .. Cardinality(RecordKey)}

\* The storage layer keeps what GraphDB says, in the states of up to four
\* versions, in which edges and tags were added, removed and added back.  Every
\* step is what its transaction does to the table, record by record
\* (graphdb.cpp, berkeley_dbcxx_txn.cpp); the iterators, by which it finds the
\* nodes to raise, meet every node with a record once (graph_iter.cpp); and a
\* record is read back as it was written (write_record, init_info).
TransactionsAreStepsMC ==
    /\ [](Version <= 4 => IteratorsMeetAll(Orders) /\ RecordsReadBack)
    /\ [][Version <= 4 => TransactionsAreSteps(Orders)]_vars

\* A version read before the lock brings back just the nodes that the
\* transaction in between removed (graphdb.h:46-47).
StalePriorRevivesMC == Version <= 4 => StalePriorRevives(Orders)
=============================================================================
