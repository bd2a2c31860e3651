------------------------------- MODULE Records -------------------------------
(***************************************************************************)
(* How the states of GraphDB are stored: the protocol buffer messages that *)
(* ProtobufNode and BerkeleyDBCXXTxn build (librange/db/nodeinfo.proto,    *)
(* changelist.proto), the crc in a node's record, and what is read back.   *)
(***************************************************************************)
EXTENDS GraphDB, Wire
SX == INSTANCE SequencesExt

NodeInfo_Adjacency ==
    <<Bytes("id", "required"), Number("versions", "repeated")>>

NodeInfo_Edges ==
    <<Sub("edges", "repeated", NodeInfo_Adjacency)>>

NodeInfo_Tags_KeyValue_Values ==
    <<Bytes("data", "required"), Number("versions", "repeated")>>

NodeInfo_Tags_KeyValue_ListToVersionMap ==
    <<Number("list_version", "required"), Number("key_version", "required")>>

NodeInfo_Tags_KeyValue ==
    <<Bytes("key", "required"), Number("key_version", "required"),
      Sub("values", "repeated", NodeInfo_Tags_KeyValue_Values),
      Number("versions", "repeated"),
      Sub("versionmap", "repeated", NodeInfo_Tags_KeyValue_ListToVersionMap)>>

NodeInfo_Tags ==
    <<Sub("keys", "repeated", NodeInfo_Tags_KeyValue)>>

NodeInfo ==
    <<Number("list_version", "required"), Number("crc32", "required"),
      Number("node_type", "required"), Sub("forward", "required", NodeInfo_Edges),
      Sub("reverse", "required", NodeInfo_Edges), Sub("tags", "required", NodeInfo_Tags),
      Number("graph_versions", "repeated")>>

ChangeList_Change_TimeStamp ==
    <<Number("seconds", "required"), Number("msec", "required")>>

ChangeList_Change_Item ==
    <<Bytes("key", "required"), Number("version", "required")>>

ChangeList_Change ==
    <<Sub("timestamp", "required", ChangeList_Change_TimeStamp),
      Sub("items", "repeated", ChangeList_Change_Item)>>

ChangeList ==
    <<Number("current_version", "required"), Sub("change", "repeated", ChangeList_Change)>>

-----------------------------------------------------------------------------
(* Building a message: the accessors of the classes, in pbuff_node.cpp. *)

\* A set as a sequence in the order of rank.
InOrder(S, rank(_)) ==
    [i \in 1 .. Cardinality(S) |->
        CHOOSE x \in S : Cardinality({y \in S : rank(y) < rank(x)}) = i - 1]

Ascending(S) == InOrder(S, LAMBDA v : v)

AdjacencyOf(n, versions) ==
    [Cleared(NodeInfo_Adjacency) EXCEPT !.id = <<n>>, !.versions = Ascending(versions)]

\* The edges that were ever added; their order is left out.
EdgesOf(edges) ==
    LET known == SX!SetToSeq({n \in Nodes : edges[n] # {}})
    IN [Cleared(NodeInfo_Edges) EXCEPT
          !.edges = [i \in DOMAIN known |-> AdjacencyOf(known[i], edges[known[i]])]]

ValueOf(v, versions) ==
    [Cleared(NodeInfo_Tags_KeyValue_Values) EXCEPT
       !.data = <<v>>, !.versions = Ascending(versions)]

VersionMapOf(entry) ==
    [Cleared(NodeInfo_Tags_KeyValue_ListToVersionMap) EXCEPT
       !.list_version = <<entry[1]>>, !.key_version = <<entry[2]>>]

KeyValueOf(kv) ==
    LET vals == SX!SetToSeq({v \in Values : kv.values[v] # {}})
        entries == InOrder(kv.versionmap, LAMBDA entry : entry[1])
    IN [Cleared(NodeInfo_Tags_KeyValue) EXCEPT
          !.key = <<kv.key>>, !.key_version = <<kv.key_version>>,
          !.values = [i \in DOMAIN vals |-> ValueOf(vals[i], kv.values[vals[i]])],
          !.versions = Ascending(kv.versions),
          !.versionmap = [i \in DOMAIN entries |-> VersionMapOf(entries[i])]]

TagsOf(keys) ==
    [Cleared(NodeInfo_Tags) EXCEPT !.keys = [i \in DOMAIN keys |-> KeyValueOf(keys[i])]]

\* The record of n in memory, with the crc of the record it was read from.
InfoOf(n, crc) ==
    [Cleared(NodeInfo) EXCEPT
       !.list_version = <<info[n].version>>, !.crc32 = <<crc>>, !.node_type = <<0>>,
       !.forward = <<EdgesOf(info[n].edges["forward"])>>,
       !.reverse = <<EdgesOf(info[n].edges["reverse"])>>,
       !.tags = <<TagsOf(info[n].keys)>>,
       !.graph_versions = Ascending(gversions[n])]

ItemOf(n, version) ==
    [Cleared(ChangeList_Change_Item) EXCEPT !.key = <<n>>, !.version = <<version>>]

\* The time of a change is left out.
ChangeOf(change) ==
    LET keys == SX!SetToSeq(DOMAIN change)
    IN [Cleared(ChangeList_Change) EXCEPT
          !.timestamp = <<[Cleared(ChangeList_Change_TimeStamp) EXCEPT
                             !.seconds = <<0>>, !.msec = <<0>>]>>,
          !.items = [i \in DOMAIN keys |-> ItemOf(keys[i], change[keys[i]])]]

\* add_graph_changelist
ChangesOf ==
    [Cleared(ChangeList) EXCEPT
       !.current_version = <<Version>>,
       !.change = [v \in DOMAIN changes |-> ChangeOf(changes[v])]]

-----------------------------------------------------------------------------
(* write_record, init_info and is_valid *)

NoCrc == << >>
crc32(wire) == <<wire>>

\* set_crc32(0), then the crc of the serialisation.
Checksum(m) == crc32(Serialized(NodeInfo, [m EXCEPT !.crc32 = <<NoCrc>>]))

write_record(m) == Serialized(NodeInfo, [m EXCEPT !.crc32 = <<Checksum(m)>>])

is_valid(m) == m.crc32[1] = Checksum(m)

(***************************************************************************)
(* The record of every node is read back as it was when it was written,    *)
(* with a valid crc, whether it was new or read from the database before   *)
(* it changed; init_info() takes a record that is not initialised for a    *)
(* new node, and read_changelist() throws for such a list, so no required  *)
(* field is ever missing.                                                  *)
(***************************************************************************)
RecordsReadBack ==
    /\ \A n \in Nodes : \A crc \in {NoCrc, crc32(Serialized(NodeInfo, InfoOf(n, NoCrc)))} :
         LET read == Parse(NodeInfo, write_record(InfoOf(n, crc)))
         IN /\ IsInitialized(NodeInfo, read)
            /\ is_valid(read)
            /\ [read EXCEPT !.crc32 = <<crc>>] = InfoOf(n, crc)
    /\ Parse(ChangeList, Serialized(ChangeList, ChangesOf)) = ChangesOf
    /\ IsInitialized(ChangeList, ChangesOf)
=============================================================================
