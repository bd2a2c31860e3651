--------------------------- MODULE GraphDBProofs ---------------------------
(***************************************************************************)
(* The records of a graph, its history and its change list, for every set  *)
(* of nodes, keys and values and any number of transactions.               *)
(*                                                                         *)
(* Induction over numbers is done with the least counterexample (Least,    *)
(* UpTo): the removal of the edges of a node one after the other is a      *)
(* fold, of which this shows that it runs through.                         *)
(***************************************************************************)
EXTENDS GraphDB, TLAPS, FiniteSetTheorems, SequenceTheorems, NaturalsInduction,
        WellFoundedInduction

-----------------------------------------------------------------------------
(* Numbers *)

LEMMA Least ==
    ASSUME NEW S, S \subseteq Nat, S # {}
    PROVE  \E m \in S : \A k \in S : m <= k
<1>1. PICK m \in S : \A k \in S : <<k, m>> \notin OpToRel(<, Nat)
  BY NatLessThanWellFounded, WFMin
<1>2. \A k \in S : ~ (k < m)
  BY <1>1 DEF OpToRel
<1> QED
  BY <1>2

LEMMA UpTo ==
    ASSUME NEW N \in Nat, NEW S, 0 \in S, \A k \in 0..(N - 1) : k \in S => k + 1 \in S
    PROVE  \A k \in 0..N : k \in S
<1> DEFINE Bad == {k \in 0..N : k \notin S}
<1>1. Bad \subseteq Nat
  OBVIOUS
<1>2. ASSUME Bad # {} PROVE FALSE
  <2>1. PICK m \in Bad : \A k \in Bad : m <= k
    <3> HIDE DEF Bad
    <3> QED
      BY <1>1, <1>2, Least
  <2>2. m # 0 /\ m - 1 \in 0..(N - 1)
    OBVIOUS
  <2>3. m - 1 \notin Bad
    BY <2>1, <2>2
  <2> QED
    BY <2>2, <2>3
<1> QED
  BY <1>2

LEMMA MaxIs ==
    ASSUME NEW S, NEW m \in S, m \in Int, \A x \in S : x \in Int /\ x <= m
    PROVE  Max(S) = m
<1>1. \E x \in S : \A y \in S : x >= y
  OBVIOUS
<1>2. Max(S) \in S /\ \A y \in S : Max(S) >= y
  BY <1>1 DEF Max
<1>3. Max(S) \in Int /\ Max(S) <= m /\ Max(S) >= m
  BY <1>2
<1> QED
  BY <1>3

LEMMA MinIs ==
    ASSUME NEW S, NEW m \in S, m \in Int, \A x \in S : x \in Int /\ m <= x
    PROVE  Min(S) = m
<1>1. \E x \in S : \A y \in S : x <= y
  OBVIOUS
<1>2. Min(S) \in S /\ \A y \in S : Min(S) <= y
  BY <1>1 DEF Min
<1>3. Min(S) \in Int /\ Min(S) <= m /\ Min(S) >= m
  BY <1>2
<1> QED
  BY <1>3

-----------------------------------------------------------------------------
(* The record of one node *)

LEMMA InfoFields ==
    ASSUME NEW r \in Info
    PROVE  /\ r.version \in Nat
           /\ r.edges \in [Directions -> [Nodes -> SUBSET Nat]]
           /\ r.keys \in Seq(KeyValue)
           /\ DOMAIN r.keys = 1..Len(r.keys) /\ Len(r.keys) \in Nat
           /\ \A i \in DOMAIN r.keys : r.keys[i] \in KeyValue
<1>1. r.version \in Nat /\ r.keys \in Seq(KeyValue)
      /\ r.edges \in [Directions -> [Nodes -> SUBSET Nat]]
  BY DEF Info
<1> QED
  BY <1>1

\* What update_tag_versions does to a key it carries.
CarriedKey(kv, new) ==
    [kv EXCEPT !.versions = @ \cup {new},
               !.versionmap = @ \cup {<<new, kv.key_version>>}]

LEMMA CarriedKeyFields ==
    ASSUME NEW kv \in KeyValue, NEW new \in Nat
    PROVE  /\ CarriedKey(kv, new) \in KeyValue
           /\ CarriedKey(kv, new).key = kv.key
           /\ CarriedKey(kv, new).versions = kv.versions \cup {new}
           /\ CarriedKey(kv, new).key_version = kv.key_version
           /\ CarriedKey(kv, new).versionmap = kv.versionmap \cup {<<new, kv.key_version>>}
           /\ CarriedKey(kv, new).values = kv.values
<1>1. kv.versions \cup {new} \in SUBSET Nat
  BY DEF KeyValue
<1>2. kv.versionmap \cup {<<new, kv.key_version>>} \in SUBSET (Nat \X Nat)
  BY DEF KeyValue
<1> QED
  BY <1>1, <1>2 DEF CarriedKey, KeyValue

\* No key has a note of the next version yet: the loop of update_tag_versions
\* does not end early.
LEMMA CarryFields ==
    ASSUME NEW r \in Info,
           \A i \in DOMAIN r.keys : \A m \in r.keys[i].versionmap : m[1] # r.version + 1
    PROVE  LET c == Carry(r)
               new == r.version + 1
           IN  /\ c \in Info
               /\ c.version = new
               /\ \A d \in Directions, n \in Nodes :
                     c.edges[d][n] = IF {r.version, new} \cap r.edges[d][n] # {}
                                     THEN r.edges[d][n] \cup {new} ELSE r.edges[d][n]
               /\ DOMAIN c.keys = DOMAIN r.keys
               /\ \A i \in DOMAIN r.keys :
                     c.keys[i] = IF {r.version, new} \cap r.keys[i].versions # {}
                                 THEN CarriedKey(r.keys[i], new) ELSE r.keys[i]
<1> DEFINE cmp == r.version
           new == r.version + 1
           c == Carry(r)
<1>0. cmp \in Nat /\ new \in Nat
  BY InfoFields
<1>1. c = [version |-> new, edges |-> CarryEdges(r.edges, cmp, new),
           keys |-> CarryKeys(r.keys, cmp, new)]
  BY DEF Carry
<1>2. /\ CarryEdges(r.edges, cmp, new) \in [Directions -> [Nodes -> SUBSET Nat]]
      /\ \A d \in Directions, n \in Nodes :
            CarryEdges(r.edges, cmp, new)[d][n] =
               IF {cmp, new} \cap r.edges[d][n] # {}
               THEN r.edges[d][n] \cup {new} ELSE r.edges[d][n]
  <2>1. \A d \in Directions, n \in Nodes : r.edges[d][n] \in SUBSET Nat
    BY InfoFields
  <2> HIDE DEF new, cmp
  <2> QED
    BY <1>0, <2>1 DEF CarryEdges, Carried
<1>3. CarryKeys(r.keys, cmp, new) =
        [i \in DOMAIN r.keys |-> IF {cmp, new} \cap r.keys[i].versions # {}
                                 THEN CarriedKey(r.keys[i], new) ELSE r.keys[i]]
  BY DEF CarryKeys, Carried, CarriedKey
<1>4. CarryKeys(r.keys, cmp, new) \in Seq(KeyValue)
  <2>1. \A i \in DOMAIN r.keys : CarriedKey(r.keys[i], new) \in KeyValue
    BY <1>0, InfoFields, CarriedKeyFields
  <2> HIDE DEF new, cmp
  <2> QED
    BY <1>3, <2>1, InfoFields, SeqDef
<1> HIDE DEF cmp, new, c
<1>5. c \in Info
  BY <1>0, <1>1, <1>2, <1>4 DEF Info
<1>6. /\ c.version = new /\ c.edges = CarryEdges(r.edges, cmp, new)
      /\ c.keys = CarryKeys(r.keys, cmp, new)
  BY <1>1
<1>7. /\ DOMAIN c.keys = DOMAIN r.keys
      /\ \A i \in DOMAIN r.keys :
            c.keys[i] = IF {cmp, new} \cap r.keys[i].versions # {}
                        THEN CarriedKey(r.keys[i], new) ELSE r.keys[i]
  BY <1>3, <1>6
<1>8. \A d \in Directions, n \in Nodes :
        c.edges[d][n] = IF {cmp, new} \cap r.edges[d][n] # {}
                        THEN r.edges[d][n] \cup {new} ELSE r.edges[d][n]
  <2> TAKE d \in Directions, n \in Nodes
  <2> DEFINE e == r.edges[d][n]
  <2>1. CarryEdges(r.edges, cmp, new)[d][n] =
          IF {cmp, new} \cap e # {} THEN e \cup {new} ELSE e
    BY <1>2, Zenon
  <2> HIDE DEF e
  <2>2. c.edges[d][n] = IF {cmp, new} \cap e # {} THEN e \cup {new} ELSE e
    BY <1>6, <2>1
  <2> QED
    BY <2>2 DEF e
<1> QED
  BY <1>5, <1>6, <1>7, <1>8 DEF c, cmp, new

\* A key on the way to the next version: it may be in the list already, and if
\* it is carried it has a version to show.
Ready(kv, version) ==
    /\ kv.versions \subseteq 1..(version + 1)
    /\ \A m \in kv.versionmap : m[1] \in 1..version /\ m[2] \in 1..kv.key_version
    /\ \A m1, m2 \in kv.versionmap : m1[1] = m2[1] => m1 = m2
    /\ \A v \in Values : kv.values[v] \subseteq 1..kv.key_version
    /\ {version, version + 1} \cap kv.versions # {} => kv.key_version > 0

LEMMA CarriedKeyConsistent ==
    ASSUME NEW kv \in KeyValue, NEW version \in Nat, Ready(kv, version)
    PROVE  KeyConsistent(IF {version, version + 1} \cap kv.versions # {}
                         THEN CarriedKey(kv, version + 1) ELSE kv, version + 1)
<1> DEFINE new == version + 1
<1>0. new \in Nat /\ kv.key_version \in Nat /\ kv.versionmap \subseteq Nat \X Nat
  BY DEF KeyValue
<1>1. CASE {version, new} \cap kv.versions # {}
  <2> DEFINE c == CarriedKey(kv, new)
  <2>1. /\ c.versions = kv.versions \cup {new} /\ c.key_version = kv.key_version
        /\ c.versionmap = kv.versionmap \cup {<<new, kv.key_version>>}
        /\ c.values = kv.values
    BY <1>0, CarriedKeyFields
  <2> HIDE DEF c
  <2>2. c.versions \subseteq 1..new
    BY <1>0, <2>1 DEF Ready
  <2>3. \A m \in c.versionmap : m[1] \in 1..new /\ m[2] \in 1..c.key_version
    BY <1>0, <1>1, <2>1 DEF Ready
  <2>4. \A m1, m2 \in c.versionmap : m1[1] = m2[1] => m1 = m2
    <3>1. \A m \in kv.versionmap : m[1] # new
      BY <1>0 DEF Ready
    <3> QED
      BY <2>1, <3>1 DEF Ready
  <2>5. \A v \in Values : c.values[v] \subseteq 1..c.key_version
    BY <2>1 DEF Ready
  <2>6. KeyConsistent(c, new)
    BY <2>2, <2>3, <2>4, <2>5 DEF KeyConsistent
  <2> QED
    BY <1>1, <2>6 DEF c
<1>2. CASE {version, new} \cap kv.versions = {}
  <2>1. kv.versions \subseteq 1..new
    BY DEF Ready
  <2>2. \A m \in kv.versionmap : m[1] \in 1..new /\ m[2] \in 1..kv.key_version
    BY <1>0 DEF Ready
  <2>3. KeyConsistent(kv, new)
    BY <2>1, <2>2 DEF KeyConsistent, Ready
  <2> QED
    BY <1>2, <2>3
<1> QED
  BY <1>1, <1>2

LEMMA CarryOK ==
    ASSUME NEW r \in Info,
           \A d \in Directions, n \in Nodes : r.edges[d][n] \subseteq 1..(r.version + 1),
           \A d \in Directions :
               IsFiniteSet({n \in Nodes : {r.version, r.version + 1} \cap r.edges[d][n] # {}}),
           \A i \in DOMAIN r.keys : Ready(r.keys[i], r.version),
           \A i, j \in DOMAIN r.keys : r.keys[i].key = r.keys[j].key => i = j
    PROVE  RecordOK(Carry(r))
<1> DEFINE new == r.version + 1
           c == Carry(r)
<1>0. /\ r.version \in Nat /\ new \in Nat
      /\ \A i \in DOMAIN r.keys : r.keys[i] \in KeyValue
  BY InfoFields
<1>1. \A i \in DOMAIN r.keys : \A m \in r.keys[i].versionmap : m[1] # new
  BY <1>0 DEF Ready
<1>2. /\ c \in Info
      /\ c.version = new
      /\ \A d \in Directions, n \in Nodes :
            c.edges[d][n] = IF {r.version, new} \cap r.edges[d][n] # {}
                            THEN r.edges[d][n] \cup {new} ELSE r.edges[d][n]
      /\ DOMAIN c.keys = DOMAIN r.keys
      /\ \A i \in DOMAIN r.keys :
            c.keys[i] = IF {r.version, new} \cap r.keys[i].versions # {}
                        THEN CarriedKey(r.keys[i], new) ELSE r.keys[i]
  BY <1>1, CarryFields
<1> HIDE DEF c
<1>3. \A d \in Directions, n \in Nodes :
        /\ c.edges[d][n] \subseteq 1..new
        /\ new \in c.edges[d][n] => {r.version, new} \cap r.edges[d][n] # {}
  <2> TAKE d \in Directions, n \in Nodes
  <2> DEFINE e == r.edges[d][n]
  <2>1. c.edges[d][n] = IF {r.version, new} \cap e # {} THEN e \cup {new} ELSE e
    BY <1>2
  <2>2. e \subseteq 1..new
    OBVIOUS
  <2> HIDE DEF e
  <2>3. CASE {r.version, new} \cap e # {}
    <3>1. c.edges[d][n] = e \cup {new}
      BY <2>1, <2>3
    <3>2. new \in 1..new
      BY <1>0
    <3> HIDE DEF new
    <3>3. c.edges[d][n] \subseteq 1..new
      BY <2>2, <3>1, <3>2
    <3> QED
      BY <2>3, <3>3 DEF e
  <2>4. CASE {r.version, new} \cap e = {}
    <3>1. c.edges[d][n] = e
      BY <2>1, <2>4
    <3> QED
      BY <2>2, <2>4, <3>1 DEF e
  <2> QED
    BY <2>3, <2>4
<1>4. ASSUME NEW d \in Directions
      PROVE  IsFiniteSet(EdgesAt(c, d, c.version))
  <2>1. EdgesAt(c, d, c.version)
          \subseteq {n \in Nodes : {r.version, new} \cap r.edges[d][n] # {}}
    BY <1>2, <1>3 DEF EdgesAt
  <2> QED
    BY <2>1, FS_Subset
<1>5. ASSUME NEW i \in DOMAIN r.keys
      PROVE  /\ KeyConsistent(c.keys[i], new)
             /\ c.keys[i].key = r.keys[i].key
             /\ new \in c.keys[i].versions =>
                  <<new, c.keys[i].key_version>> \in c.keys[i].versionmap
  <2> DEFINE kv == r.keys[i]
  <2>1. c.keys[i] = IF {r.version, new} \cap kv.versions # {} THEN CarriedKey(kv, new) ELSE kv
    BY <1>2
  <2>2. kv \in KeyValue /\ Ready(kv, r.version)
    BY <1>0
  <2> HIDE DEF kv
  <2>3. KeyConsistent(c.keys[i], new)
    BY <1>0, <2>1, <2>2, CarriedKeyConsistent
  <2>4. /\ c.keys[i].key = kv.key
        /\ new \in c.keys[i].versions =>
             <<new, c.keys[i].key_version>> \in c.keys[i].versionmap
    <3>1. CASE {r.version, new} \cap kv.versions # {}
      <4>1. c.keys[i] = CarriedKey(kv, new)
        BY <2>1, <3>1
      <4>2. /\ CarriedKey(kv, new).key = kv.key
            /\ CarriedKey(kv, new).key_version = kv.key_version
            /\ CarriedKey(kv, new).versionmap = kv.versionmap \cup {<<new, kv.key_version>>}
        BY <1>0, <2>2, CarriedKeyFields
      <4> QED
        BY <4>1, <4>2
    <3>2. CASE {r.version, new} \cap kv.versions = {}
      <4>1. c.keys[i] = kv
        BY <2>1, <3>2
      <4> QED
        BY <3>2, <4>1
    <3> QED
      BY <3>1, <3>2
  <2> QED
    BY <2>3, <2>4 DEF kv
<1>6. \A i, j \in DOMAIN c.keys : c.keys[i].key = c.keys[j].key => i = j
  BY <1>2, <1>5
<1>7. RecordOK(c)
  BY <1>2, <1>3, <1>4, <1>5, <1>6 DEF RecordOK
<1> QED
  BY <1>7 DEF c

\* A record that is consistent is ready.
LEMMA OKIsReady ==
    ASSUME NEW r, RecordOK(r)
    PROVE  /\ r \in Info
           /\ \A d \in Directions, n \in Nodes : r.edges[d][n] \subseteq 1..(r.version + 1)
           /\ \A d \in Directions, n \in Nodes : r.version + 1 \notin r.edges[d][n]
           /\ \A i \in DOMAIN r.keys : Ready(r.keys[i], r.version)
           /\ \A i \in DOMAIN r.keys : r.version + 1 \notin r.keys[i].versions
<1>1. r \in Info /\ r.version \in Nat /\ \A i \in DOMAIN r.keys : r.keys[i] \in KeyValue
  BY InfoFields DEF RecordOK
<1>2. \A d \in Directions, n \in Nodes :
         r.edges[d][n] \subseteq 1..(r.version + 1) /\ r.version + 1 \notin r.edges[d][n]
  <2> TAKE d \in Directions, n \in Nodes
  <2>1. r.edges[d][n] \subseteq 1..r.version
    BY DEF RecordOK
  <2> QED
    BY <1>1, <2>1
<1>3. ASSUME NEW i \in DOMAIN r.keys
      PROVE  Ready(r.keys[i], r.version) /\ r.version + 1 \notin r.keys[i].versions
  <2> DEFINE kv == r.keys[i]
  <2>1. /\ KeyConsistent(kv, r.version)
        /\ r.version \in kv.versions => <<r.version, kv.key_version>> \in kv.versionmap
        /\ kv.key_version \in Nat
    BY <1>1 DEF RecordOK, KeyValue
  <2> HIDE DEF kv
  <2>2. kv.versions \subseteq 1..(r.version + 1) /\ r.version + 1 \notin kv.versions
    BY <1>1, <2>1 DEF KeyConsistent
  <2>3. r.version \in kv.versions => kv.key_version > 0
    BY <2>1 DEF KeyConsistent
  <2>4. Ready(kv, r.version)
    BY <2>1, <2>2, <2>3 DEF Ready, KeyConsistent
  <2> QED
    BY <2>2, <2>4 DEF kv
<1> QED
  BY <1>1, <1>2, <1>3

-----------------------------------------------------------------------------
(* What a record shows *)

\* The tag that a key shows in one of its own versions.
TagOf(kv, kver) == <<kv.key, {v \in Values : kver \in kv.values[v]}>>

LEMMA TagMember ==
    ASSUME NEW r, NEW w, NEW t
    PROVE  t \in TagsAt(r, w) <=>
              \E i \in DOMAIN r.keys :
                 /\ w \in r.keys[i].versions
                 /\ \E m \in r.keys[i].versionmap : m[1] = w /\ t = TagOf(r.keys[i], m[2])
<1> DEFINE Of(kv) == {<<kv.key, {v \in Values : m[2] \in kv.values[v]}>> :
                         m \in {x \in kv.versionmap : x[1] = w}}
           cur == {r.keys[i] : i \in {j \in DOMAIN r.keys : w \in r.keys[j].versions}}
<1>1. TagsAt(r, w) = UNION {Of(kv) : kv \in cur}
  BY DEF TagsAt
<1>2. \A kv : t \in Of(kv) <=> \E m \in kv.versionmap : m[1] = w /\ t = TagOf(kv, m[2])
  BY DEF TagOf
<1>3. \A kv : kv \in cur <=> \E i \in DOMAIN r.keys : w \in r.keys[i].versions /\ kv = r.keys[i]
  OBVIOUS
<1> HIDE DEF Of, cur
<1>4. t \in TagsAt(r, w) <=> \E kv \in cur : t \in Of(kv)
  BY <1>1
<1>5. \A i \in DOMAIN r.keys :
        t \in Of(r.keys[i]) <=>
           \E m \in r.keys[i].versionmap : m[1] = w /\ t = TagOf(r.keys[i], m[2])
  BY <1>2
<1> QED
  BY <1>3, <1>4, <1>5

\* In the current version a key shows its newest version.
LEMMA CurrentTags ==
    ASSUME NEW r, RecordOK(r), NEW t
    PROVE  t \in TagsAt(r, r.version) <=>
              \E i \in DOMAIN r.keys :
                 /\ r.version \in r.keys[i].versions
                 /\ t = TagOf(r.keys[i], r.keys[i].key_version)
<1>1. ASSUME NEW i \in DOMAIN r.keys, r.version \in r.keys[i].versions
      PROVE  /\ <<r.version, r.keys[i].key_version>> \in r.keys[i].versionmap
             /\ \A m \in r.keys[i].versionmap :
                   m[1] = r.version => m[2] = r.keys[i].key_version
  <2>1. <<r.version, r.keys[i].key_version>> \in r.keys[i].versionmap
    BY <1>1 DEF RecordOK
  <2>2. \A m1, m2 \in r.keys[i].versionmap : m1[1] = m2[1] => m1 = m2
    BY DEF RecordOK, KeyConsistent
  <2> QED
    BY <2>1, <2>2
<1>2. ASSUME t \in TagsAt(r, r.version)
      PROVE  \E i \in DOMAIN r.keys : /\ r.version \in r.keys[i].versions
                                      /\ t = TagOf(r.keys[i], r.keys[i].key_version)
  <2>1. PICK i \in DOMAIN r.keys :
           /\ r.version \in r.keys[i].versions
           /\ \E m \in r.keys[i].versionmap :
                 m[1] = r.version /\ t = TagOf(r.keys[i], m[2])
    BY <1>2, TagMember
  <2> QED
    BY <1>1, <2>1
<1>3. ASSUME NEW i \in DOMAIN r.keys, r.version \in r.keys[i].versions,
             t = TagOf(r.keys[i], r.keys[i].key_version)
      PROVE  t \in TagsAt(r, r.version)
  <2> DEFINE m == <<r.version, r.keys[i].key_version>>
  <2>1. m \in r.keys[i].versionmap /\ m[1] = r.version /\ t = TagOf(r.keys[i], m[2])
    BY <1>1, <1>3
  <2> QED
    BY <1>3, <2>1, TagMember
<1> QED
  BY <1>2, <1>3

\* A record that Carry takes to the next version.
Carriable(r) ==
    /\ r \in Info
    /\ \A d \in Directions, n \in Nodes : r.edges[d][n] \subseteq 1..(r.version + 1)
    /\ \A d \in Directions :
          IsFiniteSet({n \in Nodes : {r.version, r.version + 1} \cap r.edges[d][n] # {}})
    /\ \A i \in DOMAIN r.keys : Ready(r.keys[i], r.version)
    /\ \A i, j \in DOMAIN r.keys : r.keys[i].key = r.keys[j].key => i = j

LEMMA CarryShows ==
    ASSUME NEW r, Carriable(r)
    PROVE  LET c == Carry(r)
               new == r.version + 1
           IN  /\ RecordOK(c)
               /\ c.version = new
               /\ DOMAIN c.keys = DOMAIN r.keys
               /\ \A i \in DOMAIN r.keys : c.keys[i].key = r.keys[i].key
               /\ \A d \in Directions, n \in Nodes :
                     HasEdge(c, d, n) <=> {r.version, new} \cap r.edges[d][n] # {}
               /\ \A w \in 1..r.version, d \in Directions, n \in Nodes :
                     w \in c.edges[d][n] <=> w \in r.edges[d][n]
               /\ \A w \in 1..r.version : TagsAt(c, w) = TagsAt(r, w)
               /\ \A i \in DOMAIN r.keys :
                     new \in c.keys[i].versions <=> {r.version, new} \cap r.keys[i].versions # {}
               /\ \A t : t \in TagsAt(c, new) <=>
                     \E i \in DOMAIN r.keys :
                        /\ {r.version, new} \cap r.keys[i].versions # {}
                        /\ t = TagOf(r.keys[i], r.keys[i].key_version)
<1> DEFINE new == r.version + 1
           c == Carry(r)
<1>0. /\ r \in Info /\ r.version \in Nat /\ new \in Nat
      /\ \A i \in DOMAIN r.keys : r.keys[i] \in KeyValue
  BY InfoFields DEF Carriable
<1>1. \A i \in DOMAIN r.keys : \A m \in r.keys[i].versionmap : m[1] # new
  BY <1>0 DEF Carriable, Ready
<1>2. /\ c.version = new
      /\ \A d \in Directions, n \in Nodes :
            c.edges[d][n] = IF {r.version, new} \cap r.edges[d][n] # {}
                            THEN r.edges[d][n] \cup {new} ELSE r.edges[d][n]
      /\ DOMAIN c.keys = DOMAIN r.keys
      /\ \A i \in DOMAIN r.keys :
            c.keys[i] = IF {r.version, new} \cap r.keys[i].versions # {}
                        THEN CarriedKey(r.keys[i], new) ELSE r.keys[i]
  BY <1>0, <1>1, CarryFields
<1>3. RecordOK(c)
  BY CarryOK DEF Carriable
<1> HIDE DEF c
<1>4. ASSUME NEW d \in Directions, NEW n \in Nodes
      PROVE  /\ HasEdge(c, d, n) <=> {r.version, new} \cap r.edges[d][n] # {}
             /\ \A w \in 1..r.version : w \in c.edges[d][n] <=> w \in r.edges[d][n]
  <2> DEFINE e == r.edges[d][n]
  <2>1. c.edges[d][n] = IF {r.version, new} \cap e # {} THEN e \cup {new} ELSE e
    BY <1>2
  <2> HIDE DEF e
  <2>2. \A w \in 1..r.version : w # new
    BY <1>0
  <2> HIDE DEF new
  <2>3. CASE {r.version, new} \cap e # {}
    <3>1. c.edges[d][n] = e \cup {new}
      BY <2>1, <2>3
    <3> QED
      BY <1>2, <2>2, <2>3, <3>1 DEF HasEdge, e
  <2>4. CASE {r.version, new} \cap e = {}
    <3>1. c.edges[d][n] = e
      BY <2>1, <2>4
    <3> QED
      BY <1>2, <2>4, <3>1 DEF HasEdge, e
  <2> QED
    BY <2>3, <2>4
<1>5. ASSUME NEW i \in DOMAIN r.keys
      PROVE  /\ c.keys[i].key = r.keys[i].key
             /\ c.keys[i].values = r.keys[i].values
             /\ c.keys[i].key_version = r.keys[i].key_version
             /\ new \in c.keys[i].versions <=> {r.version, new} \cap r.keys[i].versions # {}
             /\ \A w \in 1..r.version : w \in c.keys[i].versions <=> w \in r.keys[i].versions
             /\ \A m : m[1] \in 1..r.version =>
                   (m \in c.keys[i].versionmap <=> m \in r.keys[i].versionmap)
  <2> DEFINE kv == r.keys[i]
             k2 == CarriedKey(kv, new)
  <2>1. c.keys[i] = IF {r.version, new} \cap kv.versions # {} THEN k2 ELSE kv
    BY <1>2
  <2>2. /\ k2.key = kv.key /\ k2.versions = kv.versions \cup {new}
        /\ k2.key_version = kv.key_version /\ k2.values = kv.values
        /\ k2.versionmap = kv.versionmap \cup {<<new, kv.key_version>>}
    BY <1>0, CarriedKeyFields
  <2>3. \A w \in 1..r.version : w # new
    BY <1>0
  <2> HIDE DEF kv, k2, new
  <2>4. CASE {r.version, new} \cap kv.versions # {}
    <3>1. c.keys[i] = k2
      BY <2>1, <2>4
    <3>2. \A m : m[1] \in 1..r.version =>
                   (m \in c.keys[i].versionmap <=> m \in kv.versionmap)
      BY <2>2, <2>3, <3>1
    <3>3. \A w \in 1..r.version : w \in c.keys[i].versions <=> w \in kv.versions
      BY <2>2, <2>3, <3>1
    <3>4. new \in c.keys[i].versions
      BY <2>2, <3>1
    <3> QED
      BY <2>2, <2>4, <3>1, <3>2, <3>3, <3>4 DEF kv
  <2>5. CASE {r.version, new} \cap kv.versions = {}
    <3>1. c.keys[i] = kv
      BY <2>1, <2>5
    <3> QED
      BY <2>5, <3>1 DEF kv
  <2> QED
    BY <2>4, <2>5
<1>6. ASSUME NEW i \in DOMAIN r.keys, NEW x
      PROVE  TagOf(c.keys[i], x) = TagOf(r.keys[i], x)
  BY <1>5 DEF TagOf
<1>7. ASSUME NEW w \in 1..r.version
      PROVE  TagsAt(c, w) = TagsAt(r, w)
  <2>1. ASSUME NEW t PROVE t \in TagsAt(c, w) <=> t \in TagsAt(r, w)
    <3>1. t \in TagsAt(c, w) <=>
              \E i \in DOMAIN c.keys :
                 /\ w \in c.keys[i].versions
                 /\ \E m \in c.keys[i].versionmap : m[1] = w /\ t = TagOf(c.keys[i], m[2])
      BY TagMember
    <3>2. t \in TagsAt(r, w) <=>
              \E i \in DOMAIN r.keys :
                 /\ w \in r.keys[i].versions
                 /\ \E m \in r.keys[i].versionmap : m[1] = w /\ t = TagOf(r.keys[i], m[2])
      BY TagMember
    <3>3. ASSUME NEW i \in DOMAIN r.keys
          PROVE  /\ w \in c.keys[i].versions <=> w \in r.keys[i].versions
                 /\ \A m : m[1] = w => (m \in c.keys[i].versionmap <=> m \in r.keys[i].versionmap)
                 /\ \A x : TagOf(c.keys[i], x) = TagOf(r.keys[i], x)
      BY <1>5, <1>6
    <3>4. DOMAIN c.keys = DOMAIN r.keys
      BY <1>2
    <3> QED
      BY <3>1, <3>2, <3>3, <3>4, Zenon
  <2> QED
    BY <2>1
<1>8. ASSUME NEW t
      PROVE  t \in TagsAt(c, new) <=>
               \E i \in DOMAIN r.keys :
                  /\ {r.version, new} \cap r.keys[i].versions # {}
                  /\ t = TagOf(r.keys[i], r.keys[i].key_version)
  <2>1. t \in TagsAt(c, c.version) <=>
               \E i \in DOMAIN c.keys :
                  c.version \in c.keys[i].versions /\ t = TagOf(c.keys[i], c.keys[i].key_version)
    BY <1>3, CurrentTags
  <2>2. c.version = new /\ DOMAIN c.keys = DOMAIN r.keys
    BY <1>2
  <2>3. ASSUME NEW i \in DOMAIN r.keys
        PROVE  /\ new \in c.keys[i].versions <=> {r.version, new} \cap r.keys[i].versions # {}
               /\ TagOf(c.keys[i], c.keys[i].key_version) = TagOf(r.keys[i], r.keys[i].key_version)
    BY <1>5, <1>6
  <2> HIDE DEF new
  <2> QED
    BY <2>1, <2>2, <2>3
<1> QED
  BY <1>2, <1>3, <1>4, <1>5, <1>7, <1>8 DEF c

-----------------------------------------------------------------------------
(* The changes of a record *)

\* c is what r has become: it has all the versions of r and shows in each of
\* them what r showed.
Grown(r, c) ==
    /\ RecordOK(c)
    /\ r.version <= c.version
    /\ \A w \in 1..r.version, d \in Directions, n \in Nodes :
          w \in c.edges[d][n] <=> w \in r.edges[d][n]
    /\ \A w \in 1..r.version : TagsAt(c, w) = TagsAt(r, w)

SameTags(r, c) == TagsAt(c, c.version) = TagsAt(r, r.version)

LEMMA VersionIsNumber ==
    ASSUME NEW r, RecordOK(r)
    PROVE  r.version \in Nat
  BY InfoFields DEF RecordOK

LEMMA GrownByItself ==
    ASSUME NEW r, RecordOK(r)
    PROVE  Grown(r, r) /\ SameTags(r, r)
  BY VersionIsNumber DEF Grown, SameTags

LEMMA GrownTwice ==
    ASSUME NEW r, NEW c, NEW e, RecordOK(r), Grown(r, c), Grown(c, e)
    PROVE  Grown(r, e)
<1>1. /\ r.version \in Nat /\ c.version \in Nat /\ e.version \in Nat
      /\ r.version <= c.version /\ c.version <= e.version
  BY VersionIsNumber DEF Grown
<1>2. \A w \in 1..r.version : w \in 1..c.version
  BY <1>1
<1>3. r.version <= e.version /\ RecordOK(e)
  BY <1>1 DEF Grown
<1>4. \A w \in 1..r.version, d \in Directions, n \in Nodes :
        w \in e.edges[d][n] <=> w \in r.edges[d][n]
  BY <1>2 DEF Grown
<1>5. \A w \in 1..r.version : TagsAt(e, w) = TagsAt(r, w)
  BY <1>2 DEF Grown
<1> QED
  BY <1>3, <1>4, <1>5 DEF Grown

LEMMA OKIsCarriable ==
    ASSUME NEW r, RecordOK(r)
    PROVE  /\ Carriable(r)
           /\ \A d \in Directions, n \in Nodes :
                 {r.version, r.version + 1} \cap r.edges[d][n] # {} <=> HasEdge(r, d, n)
           /\ \A i \in DOMAIN r.keys :
                 {r.version, r.version + 1} \cap r.keys[i].versions # {}
                    <=> r.version \in r.keys[i].versions
<1>1. \A d \in Directions, n \in Nodes :
         {r.version, r.version + 1} \cap r.edges[d][n] # {} <=> HasEdge(r, d, n)
  BY OKIsReady DEF HasEdge
<1>2. \A i \in DOMAIN r.keys :
         {r.version, r.version + 1} \cap r.keys[i].versions # {}
            <=> r.version \in r.keys[i].versions
  BY OKIsReady
<1>3. ASSUME NEW d \in Directions
      PROVE  IsFiniteSet({n \in Nodes : {r.version, r.version + 1} \cap r.edges[d][n] # {}})
  <2>1. {n \in Nodes : {r.version, r.version + 1} \cap r.edges[d][n] # {}}
          = EdgesAt(r, d, r.version)
    BY <1>1 DEF EdgesAt, HasEdge
  <2> QED
    BY <2>1 DEF RecordOK
<1>4. Carriable(r)
  BY <1>3, OKIsReady DEF Carriable, RecordOK
<1> QED
  BY <1>1, <1>2, <1>4

LEMMA CarryEffect ==
    ASSUME NEW r, RecordOK(r)
    PROVE  LET c == Carry(r)
           IN  /\ Grown(r, c) /\ SameTags(r, c)
               /\ c.version = r.version + 1
               /\ \A d \in Directions, n \in Nodes : HasEdge(c, d, n) <=> HasEdge(r, d, n)
<1> DEFINE c == Carry(r)
           new == r.version + 1
<1>1. Carriable(r)
  BY OKIsCarriable
<1>2. /\ RecordOK(c)
      /\ c.version = new
      /\ \A d \in Directions, n \in Nodes :
            HasEdge(c, d, n) <=> {r.version, new} \cap r.edges[d][n] # {}
      /\ \A w \in 1..r.version, d \in Directions, n \in Nodes :
            w \in c.edges[d][n] <=> w \in r.edges[d][n]
      /\ \A w \in 1..r.version : TagsAt(c, w) = TagsAt(r, w)
      /\ \A t : t \in TagsAt(c, new) <=>
            \E i \in DOMAIN r.keys :
               /\ {r.version, new} \cap r.keys[i].versions # {}
               /\ t = TagOf(r.keys[i], r.keys[i].key_version)
  BY <1>1, CarryShows
<1> HIDE DEF c
<1>3. r.version \in Nat
  BY VersionIsNumber
<1>4. Grown(r, c)
  BY <1>2, <1>3 DEF Grown
<1>5. ASSUME NEW t PROVE t \in TagsAt(c, new) <=> t \in TagsAt(r, r.version)
  <2>1. t \in TagsAt(r, r.version) <=>
          \E i \in DOMAIN r.keys : /\ r.version \in r.keys[i].versions
                                   /\ t = TagOf(r.keys[i], r.keys[i].key_version)
    BY CurrentTags
  <2> QED
    BY <1>2, <2>1, OKIsCarriable
<1>6. SameTags(r, c)
  BY <1>2, <1>5 DEF SameTags
<1>7. \A d \in Directions, n \in Nodes : HasEdge(c, d, n) <=> HasEdge(r, d, n)
  BY <1>2, OKIsCarriable
<1> QED
  BY <1>2, <1>4, <1>6, <1>7 DEF c

LEMMA EdgeListReplaced ==
    ASSUME NEW r \in Info, NEW d \in Directions, NEW n \in Nodes, NEW S \in SUBSET Nat
    PROVE  LET q == [r EXCEPT !.edges[d][n] = S]
           IN  /\ q \in Info /\ q.version = r.version /\ q.keys = r.keys
               /\ \A d2 \in Directions, m \in Nodes :
                     q.edges[d2][m] = IF d2 = d /\ m = n THEN S ELSE r.edges[d2][m]
<1> DEFINE q == [r EXCEPT !.edges[d][n] = S]
           E == [r.edges EXCEPT ![d][n] = S]
<1>0. r.edges \in [Directions -> [Nodes -> SUBSET Nat]]
  BY InfoFields
<1>1. \A d2 \in Directions, m \in Nodes : r.edges[d2][m] \in SUBSET Nat
  BY <1>0
<1>2. E \in [Directions -> [Nodes -> SUBSET Nat]]
  BY <1>0, <1>1
<1>3. q = [r EXCEPT !.edges = E]
  OBVIOUS
<1>4. q.version = r.version /\ q.keys = r.keys /\ q.edges = E
  BY DEF Info
<1>5. q \in Info
  <2> HIDE DEF q, E
  <2> QED
    BY <1>2, <1>3 DEF Info
<1>6. \A d2 \in Directions, m \in Nodes :
         q.edges[d2][m] = IF d2 = d /\ m = n THEN S ELSE r.edges[d2][m]
  <2> HIDE DEF q
  <2> QED
    BY <1>0, <1>4
<1> QED
  BY <1>4, <1>5, <1>6

\* add_edge adds the edge and nothing else.
LEMMA AddEdgeEffect ==
    ASSUME NEW r, RecordOK(r), NEW d \in Directions, NEW n \in Nodes
    PROVE  LET c == AddEdge(r, d, n)
           IN  /\ Grown(r, c) /\ SameTags(r, c)
               /\ c.version = r.version + 1
               /\ \A d2 \in Directions, m \in Nodes :
                     HasEdge(c, d2, m) <=> HasEdge(r, d2, m) \/ (d2 = d /\ m = n)
<1> DEFINE new == r.version + 1
           q == [r EXCEPT !.edges[d][n] = @ \cup {new}]
           c == Carry(q)
<1>0. /\ r \in Info /\ r.version \in Nat /\ new \in Nat
      /\ r.edges \in [Directions -> [Nodes -> SUBSET Nat]]
  BY InfoFields DEF RecordOK
<1>1. /\ q \in Info /\ q.version = r.version /\ q.keys = r.keys
      /\ \A d2 \in Directions, m \in Nodes :
            q.edges[d2][m] = IF d2 = d /\ m = n THEN r.edges[d2][m] \cup {new}
                                                ELSE r.edges[d2][m]
  <2> DEFINE S == r.edges[d][n] \cup {new}
             q2 == [r EXCEPT !.edges[d][n] = S]
  <2>0. q = q2 /\ r \in Info
    BY <1>0
  <2>1. S \in SUBSET Nat
    BY <1>0
  <2> HIDE DEF S, q
  <2>2. /\ q2 \in Info /\ q2.version = r.version /\ q2.keys = r.keys
        /\ \A d2 \in Directions, m \in Nodes :
              q2.edges[d2][m] = IF d2 = d /\ m = n THEN S ELSE r.edges[d2][m]
    BY <2>0, <2>1, EdgeListReplaced
  <2> HIDE DEF q2
  <2> QED
    BY <2>0, <2>2 DEF S
<1>2. ASSUME NEW d2 \in Directions, NEW m \in Nodes
      PROVE  /\ q.edges[d2][m] \subseteq 1..new
             /\ {r.version, new} \cap q.edges[d2][m] # {} <=>
                   HasEdge(r, d2, m) \/ (d2 = d /\ m = n)
             /\ \A w \in 1..r.version : w \in q.edges[d2][m] <=> w \in r.edges[d2][m]
  <2> DEFINE e == r.edges[d2][m]
  <2>1. /\ e \subseteq 1..new
        /\ {r.version, new} \cap e # {} <=> HasEdge(r, d2, m)
    BY OKIsReady, OKIsCarriable
  <2>2. new \in 1..new /\ \A w \in 1..r.version : w # new
    BY <1>0
  <2> HIDE DEF e, q, new
  <2>3. CASE d2 = d /\ m = n
    <3>1. q.edges[d2][m] = e \cup {new}
      BY <1>1, <2>3 DEF e
    <3> QED
      BY <2>1, <2>2, <2>3, <3>1 DEF e
  <2>4. CASE ~(d2 = d /\ m = n)
    <3>1. q.edges[d2][m] = e
      BY <1>1, <2>4 DEF e
    <3> QED
      BY <2>1, <2>2, <2>4, <3>1 DEF e
  <2> QED
    BY <2>3, <2>4
<1> HIDE DEF q
<1>3. ASSUME NEW d2 \in Directions
      PROVE  IsFiniteSet({m \in Nodes : {r.version, new} \cap q.edges[d2][m] # {}})
  <2>1. {m \in Nodes : {r.version, new} \cap q.edges[d2][m] # {}}
           \subseteq EdgesAt(r, d2, r.version) \cup {n}
    BY <1>2 DEF EdgesAt, HasEdge
  <2>2. IsFiniteSet(EdgesAt(r, d2, r.version))
    BY DEF RecordOK
  <2>3. IsFiniteSet(EdgesAt(r, d2, r.version) \cup {n})
    BY <2>2, FS_AddElement
  <2> QED
    BY <2>1, <2>3, FS_Subset
<1>4. Carriable(q)
  <2>1. \A i \in DOMAIN r.keys : Ready(r.keys[i], r.version)
    BY OKIsReady
  <2>2. \A i, j \in DOMAIN r.keys : r.keys[i].key = r.keys[j].key => i = j
    BY DEF RecordOK
  <2>3. /\ \A i \in DOMAIN q.keys : Ready(q.keys[i], q.version)
        /\ \A i, j \in DOMAIN q.keys : q.keys[i].key = q.keys[j].key => i = j
    BY <1>1, <2>1, <2>2
  <2>4. \A d2 \in Directions :
           IsFiniteSet({m \in Nodes : {q.version, q.version + 1} \cap q.edges[d2][m] # {}})
    BY <1>1, <1>3
  <2> QED
    BY <1>1, <1>2, <2>3, <2>4 DEF Carriable
<1> HIDE DEF new
<1>a. /\ RecordOK(c)
      /\ c.version = q.version + 1
      /\ \A d2 \in Directions, m \in Nodes :
            HasEdge(c, d2, m) <=> {q.version, q.version + 1} \cap q.edges[d2][m] # {}
      /\ \A w \in 1..q.version, d2 \in Directions, m \in Nodes :
            w \in c.edges[d2][m] <=> w \in q.edges[d2][m]
      /\ \A w \in 1..q.version : TagsAt(c, w) = TagsAt(q, w)
      /\ \A t : t \in TagsAt(c, q.version + 1) <=>
            \E i \in DOMAIN q.keys :
               /\ {q.version, q.version + 1} \cap q.keys[i].versions # {}
               /\ t = TagOf(q.keys[i], q.keys[i].key_version)
  BY <1>4, CarryShows
<1> HIDE DEF c
<1>b. q.version + 1 = new
  BY <1>1 DEF new
<1>5. /\ RecordOK(c)
      /\ c.version = new
      /\ \A d2 \in Directions, m \in Nodes :
            HasEdge(c, d2, m) <=> {r.version, new} \cap q.edges[d2][m] # {}
      /\ \A w \in 1..r.version, d2 \in Directions, m \in Nodes :
            w \in c.edges[d2][m] <=> w \in q.edges[d2][m]
      /\ \A w \in 1..r.version : TagsAt(c, w) = TagsAt(q, w)
      /\ \A t : t \in TagsAt(c, new) <=>
            \E i \in DOMAIN r.keys :
               /\ {r.version, new} \cap r.keys[i].versions # {}
               /\ t = TagOf(r.keys[i], r.keys[i].key_version)
  BY <1>1, <1>a, <1>b
<1>6. \A w : TagsAt(q, w) = TagsAt(r, w)
  BY <1>1 DEF TagsAt
<1>7. Grown(r, c)
  <2>1. r.version <= c.version
    BY <1>0, <1>5 DEF new
  <2> QED
    BY <1>2, <1>5, <1>6, <2>1 DEF Grown
<1>8. ASSUME NEW t PROVE t \in TagsAt(c, new) <=> t \in TagsAt(r, r.version)
  <2>1. t \in TagsAt(r, r.version) <=>
          \E i \in DOMAIN r.keys : /\ r.version \in r.keys[i].versions
                                   /\ t = TagOf(r.keys[i], r.keys[i].key_version)
    BY CurrentTags
  <2>2. \A i \in DOMAIN r.keys :
          {r.version, new} \cap r.keys[i].versions # {} <=> r.version \in r.keys[i].versions
    BY OKIsCarriable DEF new
  <2> QED
    BY <1>5, <2>1, <2>2
<1>9. SameTags(r, c)
  BY <1>5, <1>8 DEF SameTags
<1>10. c = AddEdge(r, d, n)
  BY DEF c, q, new, AddEdge
<1>11. \A d2 \in Directions, m \in Nodes :
         HasEdge(c, d2, m) <=> HasEdge(r, d2, m) \/ (d2 = d /\ m = n)
  BY <1>2, <1>5
<1>12. /\ Grown(r, c) /\ SameTags(r, c) /\ c.version = r.version + 1
       /\ \A d2 \in Directions, m \in Nodes :
            HasEdge(c, d2, m) <=> HasEdge(r, d2, m) \/ (d2 = d /\ m = n)
  BY <1>5, <1>7, <1>9, <1>11 DEF new
<1> QED
  BY <1>10, <1>12

\* remove_edge takes back just the version it has given to the edge.
LEMMA RemoveEdgeEffect ==
    ASSUME NEW r, RecordOK(r), NEW d \in Directions, NEW n \in Nodes, HasEdge(r, d, n)
    PROVE  LET c == RemoveEdge(r, d, n)
           IN  /\ Grown(r, c) /\ SameTags(r, c)
               /\ c.version = r.version + 1
               /\ \A d2 \in Directions, m \in Nodes :
                     HasEdge(c, d2, m) <=> HasEdge(r, d2, m) /\ ~(d2 = d /\ m = n)
<1> DEFINE new == r.version + 1
           q == Carry(r)
           S == q.edges[d][n] \ {new}
           c == [q EXCEPT !.edges[d][n] = S]
<1>0. r.version \in Nat /\ new \in Nat
  BY VersionIsNumber
<1>1. /\ Grown(r, q) /\ SameTags(r, q) /\ q.version = new
      /\ \A d2 \in Directions, m \in Nodes : HasEdge(q, d2, m) <=> HasEdge(r, d2, m)
  BY CarryEffect
<1>2. RecordOK(q) /\ q \in Info /\ q.edges[d][n] \in SUBSET Nat
  <2>1. RecordOK(q) /\ q \in Info
    BY <1>1 DEF Grown, RecordOK
  <2>2. q.edges \in [Directions -> [Nodes -> SUBSET Nat]]
    BY <2>1, InfoFields
  <2> HIDE DEF q
  <2> QED
    BY <2>1, <2>2
<1>3. c = RemoveEdge(r, d, n)
  <2>1. q.edges[d][n] \subseteq 1..new /\ new \in q.edges[d][n]
    BY <1>1, <1>2 DEF RecordOK, HasEdge
  <2> HIDE DEF q
  <2>2. Max(q.edges[d][n]) = new
    <3> DEFINE e == q.edges[d][n]
    <3>1. new \in e /\ new \in Int /\ \A x \in e : x \in Int /\ x <= new
      BY <1>0, <2>1
    <3> HIDE DEF e, new
    <3>2. Max(e) = new
      BY <3>1, MaxIs
    <3> QED
      BY <3>2 DEF e
  <2> HIDE DEF new
  <2>3. RemoveEdge(r, d, n) = [q EXCEPT !.edges[d][n] = @ \ {Max(@)}]
    BY DEF RemoveEdge, q
  <2> QED
    BY <2>2, <2>3
<1> HIDE DEF q, new
<1>4. S \in SUBSET Nat
  BY <1>2
<1> HIDE DEF S
<1>5. /\ c \in Info /\ c.version = q.version /\ c.keys = q.keys
      /\ \A d2 \in Directions, m \in Nodes :
            c.edges[d2][m] = IF d2 = d /\ m = n THEN S ELSE q.edges[d2][m]
  BY <1>2, <1>4, EdgeListReplaced
<1> HIDE DEF c
<1>6. ASSUME NEW d2 \in Directions, NEW m \in Nodes
      PROVE  /\ c.edges[d2][m] \subseteq q.edges[d2][m]
             /\ \A w : w # new => (w \in c.edges[d2][m] <=> w \in q.edges[d2][m])
             /\ new \in c.edges[d2][m] <=> new \in q.edges[d2][m] /\ ~(d2 = d /\ m = n)
  <2>1. CASE d2 = d /\ m = n
    <3>1. c.edges[d2][m] = q.edges[d2][m] \ {new}
      BY <1>5, <2>1 DEF S
    <3> QED
      BY <2>1, <3>1
  <2>2. CASE ~(d2 = d /\ m = n)
    <3>1. c.edges[d2][m] = q.edges[d2][m]
      BY <1>5, <2>2
    <3> QED
      BY <2>2, <3>1
  <2> QED
    BY <2>1, <2>2
<1>7. RecordOK(c)
  <2>1. \A d2 \in Directions, m \in Nodes : c.edges[d2][m] \subseteq 1..c.version
    BY <1>2, <1>5, <1>6 DEF RecordOK
  <2>2. ASSUME NEW d2 \in Directions PROVE IsFiniteSet(EdgesAt(c, d2, c.version))
    <3>1. EdgesAt(c, d2, c.version) \subseteq EdgesAt(q, d2, q.version)
      BY <1>5, <1>6 DEF EdgesAt
    <3>2. IsFiniteSet(EdgesAt(q, d2, q.version))
      BY <1>2 DEF RecordOK
    <3> QED
      BY <3>1, <3>2, FS_Subset
  <2>3. /\ \A i \in DOMAIN c.keys :
              /\ KeyConsistent(c.keys[i], c.version)
              /\ c.version \in c.keys[i].versions =>
                    <<c.version, c.keys[i].key_version>> \in c.keys[i].versionmap
        /\ \A i, j \in DOMAIN c.keys : c.keys[i].key = c.keys[j].key => i = j
    BY <1>2, <1>5 DEF RecordOK
  <2> QED
    BY <1>5, <2>1, <2>2, <2>3 DEF RecordOK
<1>8. \A w : TagsAt(c, w) = TagsAt(q, w)
  BY <1>5 DEF TagsAt
<1>9. Grown(r, c)
  <2>1. r.version <= c.version /\ \A w \in 1..r.version : w # new
    BY <1>0, <1>1, <1>5 DEF new
  <2>2. \A w \in 1..r.version, d2 \in Directions, m \in Nodes :
           w \in c.edges[d2][m] <=> w \in r.edges[d2][m]
    BY <1>1, <1>6, <2>1 DEF Grown
  <2>3. \A w \in 1..r.version : TagsAt(c, w) = TagsAt(r, w)
    BY <1>1, <1>8 DEF Grown
  <2> QED
    BY <1>7, <2>1, <2>2, <2>3 DEF Grown
<1>10. SameTags(r, c)
  BY <1>1, <1>5, <1>8 DEF SameTags
<1>11. \A d2 \in Directions, m \in Nodes :
         HasEdge(c, d2, m) <=> HasEdge(r, d2, m) /\ ~(d2 = d /\ m = n)
  BY <1>1, <1>5, <1>6 DEF HasEdge
<1>12. c.version = r.version + 1
  BY <1>1, <1>5 DEF new
<1> QED
  BY <1>3, <1>9, <1>10, <1>11, <1>12

LEMMA KeysReplaced ==
    ASSUME NEW r \in Info, NEW ks \in Seq(KeyValue)
    PROVE  LET q == [r EXCEPT !.keys = ks]
           IN  q \in Info /\ q.version = r.version /\ q.edges = r.edges /\ q.keys = ks
  BY DEF Info

\* A key that a record has now is one of its tags.
LEMMA KeyIsTag ==
    ASSUME NEW r, RecordOK(r), NEW k
    PROVE  HasKey(r, k) <=> \E t \in TagsAt(r, r.version) : t[1] = k
<1>1. ASSUME HasKey(r, k) PROVE \E t \in TagsAt(r, r.version) : t[1] = k
  <2>1. PICK i \in DOMAIN r.keys : r.keys[i].key = k /\ r.version \in r.keys[i].versions
    BY <1>1 DEF HasKey, IndexOf
  <2> DEFINE t == TagOf(r.keys[i], r.keys[i].key_version)
  <2>2. t \in TagsAt(r, r.version)
    BY <2>1, CurrentTags
  <2>3. t[1] = k
    BY <2>1 DEF TagOf
  <2> QED
    BY <2>2, <2>3
<1>2. ASSUME NEW t \in TagsAt(r, r.version), t[1] = k PROVE HasKey(r, k)
  <2>1. PICK i \in DOMAIN r.keys : /\ r.version \in r.keys[i].versions
                                   /\ t = TagOf(r.keys[i], r.keys[i].key_version)
    BY CurrentTags
  <2>2. r.keys[i].key = k
    BY <1>2, <2>1 DEF TagOf
  <2> QED
    BY <2>1, <2>2 DEF HasKey, IndexOf
<1> QED
  BY <1>1, <1>2

\* delete_tag takes back the version it has given to the key; that the version
\* map keeps its entry shows in no version.
LEMMA DeleteTagEffect ==
    ASSUME NEW r, RecordOK(r), NEW k, HasKey(r, k)
    PROVE  LET c == DeleteTag(r, k)
           IN  /\ Grown(r, c)
               /\ c.version = r.version + 1
               /\ \A d \in Directions, m \in Nodes : HasEdge(c, d, m) <=> HasEdge(r, d, m)
               /\ TagsAt(c, c.version) = {t \in TagsAt(r, r.version) : t[1] # k}
<1> DEFINE new == r.version + 1
           q == Carry(r)
           i == CHOOSE j \in IndexOf(r, k) : TRUE
           S == q.keys[i].versions \ {new}
           kv == [q.keys[i] EXCEPT !.versions = S]
           ks == [q.keys EXCEPT ![i] = kv]
           c == [q EXCEPT !.keys = ks]
<1>0. r.version \in Nat /\ new \in Nat
  BY VersionIsNumber
<1>1. /\ Grown(r, q) /\ SameTags(r, q) /\ q.version = new
      /\ \A d \in Directions, m \in Nodes : HasEdge(q, d, m) <=> HasEdge(r, d, m)
  BY CarryEffect
<1>2. /\ DOMAIN q.keys = DOMAIN r.keys
      /\ \A j \in DOMAIN r.keys : q.keys[j].key = r.keys[j].key
      /\ \A j \in DOMAIN r.keys :
            new \in q.keys[j].versions <=> {r.version, new} \cap r.keys[j].versions # {}
  BY OKIsCarriable, CarryShows
<1>3. RecordOK(q) /\ q \in Info
  BY <1>1 DEF Grown, RecordOK
<1>4. i \in DOMAIN r.keys /\ r.keys[i].key = k /\ r.version \in r.keys[i].versions
  <2>1. PICK j \in IndexOf(r, k) : r.version \in r.keys[j].versions
    BY DEF HasKey
  <2>2. i \in IndexOf(r, k)
    BY <2>1
  <2> HIDE DEF i
  <2>3. i \in DOMAIN r.keys /\ r.keys[i].key = k /\ j \in DOMAIN r.keys /\ r.keys[j].key = k
    BY <2>1, <2>2 DEF IndexOf
  <2>4. i = j
    BY <2>3 DEF RecordOK
  <2> QED
    BY <2>1, <2>3, <2>4
<1>5. i \in DOMAIN q.keys /\ q.keys[i].key = k /\ new \in q.keys[i].versions
  <2> HIDE DEF i, q
  <2> QED
    BY <1>2, <1>4
<1>6. c = DeleteTag(r, k)
  <2>1. q.keys[i].versions \subseteq 1..new
    <3> HIDE DEF i, q
    <3> QED
      BY <1>1, <1>3, <1>5 DEF RecordOK, KeyConsistent
  <2>2. DeleteTag(r, k) = [q EXCEPT !.keys[i].versions = @ \ {Max(@)}]
    BY DEF DeleteTag
  <2>3. Max(q.keys[i].versions) = new
    <3> DEFINE e == q.keys[i].versions
    <3>1. new \in e /\ new \in Int /\ \A x \in e : x \in Int /\ x <= new
      BY <1>0, <1>5, <2>1
    <3> HIDE DEF e, new
    <3>2. Max(e) = new
      BY <3>1, MaxIs
    <3> QED
      BY <3>2 DEF e
  <2> HIDE DEF q, i, new
  <2> QED
    BY <2>2, <2>3
<1> HIDE DEF q, new, i
<1>7. /\ q.keys \in Seq(KeyValue) /\ q.keys[i] \in KeyValue
  BY <1>3, <1>5, InfoFields
<1>8. /\ kv \in KeyValue /\ kv.key = k /\ kv.versions = q.keys[i].versions \ {new}
      /\ kv.key_version = q.keys[i].key_version /\ kv.versionmap = q.keys[i].versionmap
      /\ kv.values = q.keys[i].values
  BY <1>5, <1>7 DEF KeyValue
<1> HIDE DEF S, kv
<1>9. ks \in Seq(KeyValue) /\ DOMAIN ks = DOMAIN q.keys
      /\ \A j \in DOMAIN q.keys : ks[j] = IF j = i THEN kv ELSE q.keys[j]
  <2>1. ks \in Seq(KeyValue)
    BY <1>5, <1>7, <1>8, ExceptSeq
  <2> QED
    BY <2>1
<1> HIDE DEF ks
<1>10. c \in Info /\ c.version = new /\ c.edges = q.edges /\ c.keys = ks
  BY <1>1, <1>3, <1>9, KeysReplaced
<1> HIDE DEF c
<1>11. \A d \in Directions, m \in Nodes : HasEdge(c, d, m) <=> HasEdge(r, d, m)
  BY <1>1, <1>10 DEF HasEdge
<1>12. ASSUME NEW j \in DOMAIN c.keys
       PROVE  /\ j \in DOMAIN q.keys
              /\ c.keys[j].key = q.keys[j].key
              /\ c.keys[j].key_version = q.keys[j].key_version
              /\ c.keys[j].versionmap = q.keys[j].versionmap
              /\ c.keys[j].values = q.keys[j].values
              /\ c.keys[j].versions \subseteq q.keys[j].versions
              /\ \A w : w # new => (w \in c.keys[j].versions <=> w \in q.keys[j].versions)
              /\ new \in c.keys[j].versions <=> j # i /\ new \in q.keys[j].versions
  <2>1. CASE j = i
    <3>1. c.keys[j] = kv
      BY <1>9, <1>10, <2>1
    <3> QED
      BY <1>5, <1>8, <2>1, <3>1
  <2>2. CASE j # i
    <3>1. c.keys[j] = q.keys[j] /\ j \in DOMAIN q.keys
      BY <1>9, <1>10, <2>2
    <3> QED
      BY <2>2, <3>1
  <2> QED
    BY <2>1, <2>2
<1>13. ASSUME NEW j \in DOMAIN c.keys
       PROVE  /\ KeyConsistent(c.keys[j], c.version)
              /\ c.version \in c.keys[j].versions =>
                    <<c.version, c.keys[j].key_version>> \in c.keys[j].versionmap
  <2>1. /\ KeyConsistent(q.keys[j], new)
        /\ new \in q.keys[j].versions => <<new, q.keys[j].key_version>> \in q.keys[j].versionmap
    BY <1>1, <1>3, <1>12 DEF RecordOK
  <2> QED
    BY <1>10, <1>12, <2>1 DEF KeyConsistent
<1>14. RecordOK(c)
  <2>1. \A a, b \in DOMAIN c.keys : c.keys[a].key = c.keys[b].key => a = b
    BY <1>3, <1>12 DEF RecordOK
  <2>2. \A d \in Directions : IsFiniteSet(EdgesAt(c, d, c.version))
    BY <1>1, <1>3, <1>10 DEF RecordOK, EdgesAt
  <2>3. \A d \in Directions, m \in Nodes : c.edges[d][m] \subseteq 1..c.version
    BY <1>1, <1>3, <1>10 DEF RecordOK
  <2> QED
    BY <1>10, <1>13, <2>1, <2>2, <2>3 DEF RecordOK
<1>15. ASSUME NEW w, w # new PROVE TagsAt(c, w) = TagsAt(q, w)
  <2>1. ASSUME NEW t PROVE t \in TagsAt(c, w) <=> t \in TagsAt(q, w)
    <3>1. t \in TagsAt(c, w) <=>
              \E j \in DOMAIN c.keys :
                 /\ w \in c.keys[j].versions
                 /\ \E m \in c.keys[j].versionmap : m[1] = w /\ t = TagOf(c.keys[j], m[2])
      BY TagMember
    <3>2. t \in TagsAt(q, w) <=>
              \E j \in DOMAIN q.keys :
                 /\ w \in q.keys[j].versions
                 /\ \E m \in q.keys[j].versionmap : m[1] = w /\ t = TagOf(q.keys[j], m[2])
      BY TagMember
    <3>3. DOMAIN c.keys = DOMAIN q.keys
      BY <1>9, <1>10
    <3>4. \A j \in DOMAIN c.keys :
             /\ w \in c.keys[j].versions <=> w \in q.keys[j].versions
             /\ c.keys[j].versionmap = q.keys[j].versionmap
             /\ \A x : TagOf(c.keys[j], x) = TagOf(q.keys[j], x)
      BY <1>12, <1>15 DEF TagOf
    <3> QED
      BY <3>1, <3>2, <3>3, <3>4
  <2> QED
    BY <2>1
<1>16. Grown(r, c)
  <2>1. r.version <= c.version /\ \A w \in 1..r.version : w # new
    BY <1>0, <1>10 DEF new
  <2>2. \A w \in 1..r.version, d \in Directions, m \in Nodes :
           w \in c.edges[d][m] <=> w \in r.edges[d][m]
    BY <1>1, <1>10 DEF Grown
  <2>3. \A w \in 1..r.version : TagsAt(c, w) = TagsAt(r, w)
    BY <1>1, <1>15, <2>1 DEF Grown
  <2> QED
    BY <1>14, <2>1, <2>2, <2>3 DEF Grown
<1>17. ASSUME NEW t
       PROVE  t \in TagsAt(c, c.version) <=> t \in TagsAt(r, r.version) /\ t[1] # k
  <2>1. t \in TagsAt(r, r.version) <=>
          \E j \in DOMAIN q.keys :
             new \in q.keys[j].versions /\ t = TagOf(q.keys[j], q.keys[j].key_version)
    BY <1>1, <1>3, CurrentTags DEF SameTags
  <2>2. t \in TagsAt(c, c.version) <=>
          \E j \in DOMAIN c.keys :
             new \in c.keys[j].versions /\ t = TagOf(c.keys[j], c.keys[j].key_version)
    BY <1>10, <1>14, CurrentTags
  <2>3. DOMAIN c.keys = DOMAIN q.keys
    BY <1>9, <1>10
  <2>4. ASSUME NEW j \in DOMAIN q.keys
        PROVE  /\ TagOf(c.keys[j], c.keys[j].key_version) = TagOf(q.keys[j], q.keys[j].key_version)
               /\ TagOf(q.keys[j], q.keys[j].key_version)[1] # k <=> j # i
               /\ new \in c.keys[j].versions <=> j # i /\ new \in q.keys[j].versions
    <3>1. q.keys[j].key = k <=> j = i
      BY <1>3, <1>5 DEF RecordOK
    <3> QED
      BY <1>12, <2>3, <3>1 DEF TagOf
  <2> QED
    BY <2>1, <2>2, <2>3, <2>4
<1>18. TagsAt(c, c.version) = {t \in TagsAt(r, r.version) : t[1] # k}
  BY <1>17
<1>19. c.version = r.version + 1
  BY <1>10 DEF new
<1> QED
  BY <1>6, <1>11, <1>16, <1>18, <1>19

\* The keys that update_tag works on: the key is appended when it is new.
KeysFor(r, k) == IF IndexOf(r, k) = {} THEN Append(r.keys, NewKey(k)) ELSE r.keys

PlaceOf(r, k) == CHOOSE j \in DOMAIN KeysFor(r, k) : KeysFor(r, k)[j].key = k

LEMMA KeysForFields ==
    ASSUME NEW r, RecordOK(r), NEW k \in Keys
    PROVE  LET old == KeysFor(r, k)
               i == PlaceOf(r, k)
           IN  /\ old \in Seq(KeyValue) /\ i \in DOMAIN old /\ old[i].key = k
               /\ DOMAIN r.keys \subseteq DOMAIN old
               /\ DOMAIN old = DOMAIN r.keys \cup {i}
               /\ \A j \in DOMAIN r.keys : old[j] = r.keys[j]
               /\ \A a, b \in DOMAIN old : old[a].key = old[b].key => a = b
               /\ i \notin DOMAIN r.keys => old[i] = NewKey(k)
<1> DEFINE old == KeysFor(r, k)
           i == PlaceOf(r, k)
           Len1 == Len(r.keys) + 1
<1>0. /\ r.keys \in Seq(KeyValue) /\ DOMAIN r.keys = 1..Len(r.keys) /\ Len(r.keys) \in Nat
      /\ \A a, b \in DOMAIN r.keys : r.keys[a].key = r.keys[b].key => a = b
  BY InfoFields DEF RecordOK
<1>1. CASE IndexOf(r, k) = {}
  <2>1. old = Append(r.keys, NewKey(k))
    BY <1>1 DEF KeysFor
  <2>2. NewKey(k) \in KeyValue /\ NewKey(k).key = k
    BY DEF NewKey, KeyValue
  <2>3. /\ old \in Seq(KeyValue) /\ Len(old) = Len1
        /\ \A j \in 1..Len(r.keys) : old[j] = r.keys[j]
        /\ old[Len1] = NewKey(k)
    BY <1>0, <2>1, <2>2, AppendProperties
  <2> HIDE DEF old
  <2>4. DOMAIN old = DOMAIN r.keys \cup {Len1} /\ Len1 \notin DOMAIN r.keys
    <3>1. DOMAIN old = 1..Len1
      BY <2>3
    <3>2. 1..Len1 = 1..Len(r.keys) \cup {Len1} /\ Len1 \notin 1..Len(r.keys)
      BY <1>0
    <3> QED
      BY <1>0, <3>1, <3>2
  <2>5. \A j \in DOMAIN r.keys : r.keys[j].key # k
    BY <1>1 DEF IndexOf
  <2>6. \A j \in DOMAIN old : old[j].key = k <=> j = Len1
    BY <1>0, <2>2, <2>3, <2>4, <2>5
  <2>7. i = CHOOSE j \in DOMAIN old : old[j].key = k
    BY DEF PlaceOf, old
  <2> HIDE DEF i, Len1
  <2>8. i \in DOMAIN old /\ i = Len1
    BY <2>4, <2>6, <2>7
  <2>9. \A a, b \in DOMAIN old : old[a].key = old[b].key => a = b
    BY <1>0, <2>3, <2>4, <2>6
  <2> QED
    BY <1>0, <2>2, <2>3, <2>4, <2>8, <2>9 DEF i, old
<1>2. CASE IndexOf(r, k) # {}
  <2>1. old = r.keys
    BY <1>2 DEF KeysFor
  <2>2. i \in DOMAIN r.keys /\ r.keys[i].key = k
    BY <1>2, <2>1 DEF PlaceOf, IndexOf
  <2> QED
    BY <1>0, <2>1, <2>2
<1> QED
  BY <1>1, <1>2

\* update_tag replaces the values of the key and touches no other key.
LEMMA UpdateTagEffect ==
    ASSUME NEW r, RecordOK(r), NEW k \in Keys, NEW vals \in SUBSET Values
    PROVE  LET c == UpdateTag(r, k, vals)
           IN  /\ Grown(r, c)
               /\ c.version = r.version + 1
               /\ \A d \in Directions, m \in Nodes : HasEdge(c, d, m) <=> HasEdge(r, d, m)
               /\ TagsAt(c, c.version) =
                     {t \in TagsAt(r, r.version) : t[1] # k} \cup {<<k, vals>>}
<1> DEFINE new == r.version + 1
           old == KeysFor(r, k)
           i == PlaceOf(r, k)
           kver == old[i].key_version + 1
           kv == [old[i] EXCEPT !.versions = @ \cup {new}, !.key_version = kver,
                                !.values = [v \in Values |->
                                    IF v \in vals THEN @[v] \cup {kver} ELSE @[v]]]
           ks == [old EXCEPT ![i] = kv]
           q == [r EXCEPT !.keys = ks]
           c == Carry(q)
<1>0. r.version \in Nat /\ new \in Nat /\ r \in Info
  BY VersionIsNumber DEF RecordOK
<1>1. /\ old \in Seq(KeyValue) /\ i \in DOMAIN old /\ old[i].key = k
      /\ DOMAIN r.keys \subseteq DOMAIN old
      /\ DOMAIN old = DOMAIN r.keys \cup {i}
      /\ \A j \in DOMAIN r.keys : old[j] = r.keys[j]
      /\ \A a, b \in DOMAIN old : old[a].key = old[b].key => a = b
      /\ i \notin DOMAIN r.keys => old[i] = NewKey(k)
  BY KeysForFields
<1>2. c = UpdateTag(r, k, vals)
  <2> DEFINE keys == [old EXCEPT ![i].versions = @ \cup {new},
                                 ![i].key_version = kver,
                                 ![i].values = [v \in Values |->
                                     IF v \in vals THEN @[v] \cup {kver} ELSE @[v]]]
  <2>1. UpdateTag(r, k, vals) = Carry([r EXCEPT !.keys = keys])
    BY DEF UpdateTag, KeysFor, PlaceOf
  <2> HIDE DEF old, i, new, kver
  <2>2. keys = ks
    BY <1>1
  <2> QED
    BY <2>1, <2>2
<1> HIDE DEF old, i, new
<1>3. old[i] \in KeyValue /\ i \in 1..Len(old)
  <2>1. old \in Seq(KeyValue)
    BY <1>1
  <2>2. DOMAIN old = 1..Len(old)
    BY <2>1
  <2> QED
    BY <1>1, <2>1, <2>2, ElementOfSeq
<1>4. /\ Ready(old[i], r.version)
      /\ new \notin old[i].versions
  <2>1. CASE i \in DOMAIN r.keys
    BY <1>1, <2>1, OKIsReady DEF new
  <2>2. CASE i \notin DOMAIN r.keys
    <3>1. old[i] = NewKey(k)
      BY <1>1, <2>2
    <3> QED
      BY <1>0, <3>1 DEF NewKey, Ready
  <2> QED
    BY <2>1, <2>2
<1>5. old[i].key_version \in Nat /\ kver \in Nat /\ kver > old[i].key_version
  BY <1>3 DEF KeyValue
<1>6. /\ kv.key = k
      /\ kv.versions = old[i].versions \cup {new}
      /\ kv.key_version = kver
      /\ kv.versionmap = old[i].versionmap
      /\ kv.values = [v \in Values |-> IF v \in vals THEN old[i].values[v] \cup {kver}
                                       ELSE old[i].values[v]]
  BY <1>1, <1>3 DEF KeyValue
<1>7. kv \in KeyValue
  <2> DEFINE V == [v \in Values |-> IF v \in vals THEN old[i].values[v] \cup {kver}
                                    ELSE old[i].values[v]]
             W == old[i].versions \cup {new}
  <2>1. old[i].values \in [Values -> SUBSET Nat] /\ old[i].versions \in SUBSET Nat
    BY <1>3 DEF KeyValue
  <2>2. V \in [Values -> SUBSET Nat] /\ W \in SUBSET Nat
    BY <1>0, <1>5, <2>1
  <2>3. kv = [old[i] EXCEPT !.versions = W, !.key_version = kver, !.values = V]
    OBVIOUS
  <2> HIDE DEF V, W, kver, kv
  <2> QED
    BY <1>3, <1>5, <2>2, <2>3 DEF KeyValue
<1> HIDE DEF kv
<1>8. ks \in Seq(KeyValue) /\ DOMAIN ks = DOMAIN old
      /\ \A j \in DOMAIN old : ks[j] = IF j = i THEN kv ELSE old[j]
  <2>1. ks \in Seq(KeyValue)
    BY <1>1, <1>3, <1>7, ExceptSeq
  <2> QED
    BY <2>1
<1> HIDE DEF ks
<1>9. q \in Info /\ q.version = r.version /\ q.edges = r.edges /\ q.keys = ks
  BY <1>0, <1>8, KeysReplaced
<1> HIDE DEF q
<1>10. \A v \in Values : kver \notin old[i].values[v]
  BY <1>4, <1>5 DEF Ready
<1>11. /\ Ready(kv, r.version)
       /\ TagOf(kv, kver) = <<k, vals>>
       /\ \A m \in old[i].versionmap : TagOf(kv, m[2]) = TagOf(old[i], m[2])
  <2> HIDE DEF kver
  <2>1. kv.versions \subseteq 1..(r.version + 1)
    <3>1. new \in 1..(r.version + 1)
      BY <1>0 DEF new
    <3> QED
      BY <1>4, <1>6, <3>1 DEF Ready
  <2>2. \A x \in 1..old[i].key_version : x \in 1..kver /\ x # kver
    BY <1>5
  <2>3. \A m \in kv.versionmap : m[1] \in 1..r.version /\ m[2] \in 1..kv.key_version
    BY <1>4, <1>6, <2>2 DEF Ready
  <2>4. \A m1, m2 \in kv.versionmap : m1[1] = m2[1] => m1 = m2
    BY <1>4, <1>6 DEF Ready
  <2>5. kver \in 1..kver
    BY <1>5
  <2>6. ASSUME NEW v \in Values
        PROVE  kv.values[v] \subseteq 1..kv.key_version
    <3>1. kv.values[v] \subseteq old[i].values[v] \cup {kver}
      BY <1>6
    <3>2. old[i].values[v] \subseteq 1..old[i].key_version
      BY <1>4 DEF Ready
    <3> QED
      BY <1>6, <2>2, <2>5, <3>1, <3>2
  <2>7. Ready(kv, r.version)
    <3>1. kv.key_version > 0
      BY <1>5, <1>6
    <3> QED
      BY <2>1, <2>3, <2>4, <2>6, <3>1 DEF Ready
  <2>8. {v \in Values : kver \in kv.values[v]} = vals
    BY <1>6, <1>10
  <2>9. ASSUME NEW m \in old[i].versionmap
        PROVE  TagOf(kv, m[2]) = TagOf(old[i], m[2])
    <3>1. m[2] # kver
      BY <1>4, <2>2 DEF Ready
    <3>2. \A v \in Values : m[2] \in kv.values[v] <=> m[2] \in old[i].values[v]
      BY <1>6, <3>1
    <3> QED
      BY <1>1, <1>6, <3>2 DEF TagOf
  <2> QED
    BY <1>6, <2>7, <2>8, <2>9 DEF TagOf
<1>12. ASSUME NEW j \in DOMAIN old, j # i
       PROVE  /\ j \in DOMAIN r.keys /\ q.keys[j] = r.keys[j]
  BY <1>1, <1>8, <1>9, <1>12
<1>13. q.keys[i] = kv /\ DOMAIN q.keys = DOMAIN old /\ i \in DOMAIN old
  BY <1>1, <1>8, <1>9
<1>14. Carriable(q)
  <2>1. \A j \in DOMAIN q.keys : Ready(q.keys[j], q.version)
    BY <1>9, <1>11, <1>12, <1>13, OKIsReady
  <2>2. \A j \in DOMAIN q.keys : q.keys[j].key = old[j].key
    BY <1>1, <1>6, <1>12, <1>13
  <2>3. \A a, b \in DOMAIN q.keys : q.keys[a].key = q.keys[b].key => a = b
    BY <1>1, <1>13, <2>2
  <2>4. /\ \A d \in Directions, n \in Nodes : q.edges[d][n] \subseteq 1..(q.version + 1)
        /\ \A d \in Directions :
             IsFiniteSet({n \in Nodes : {q.version, q.version + 1} \cap q.edges[d][n] # {}})
    <3>1. /\ \A d \in Directions, n \in Nodes : r.edges[d][n] \subseteq 1..(r.version + 1)
          /\ \A d \in Directions :
               IsFiniteSet({n \in Nodes : {r.version, r.version + 1} \cap r.edges[d][n] # {}})
      BY OKIsCarriable DEF Carriable
    <3> QED
      BY <1>9, <3>1
  <2> QED
    BY <1>9, <2>1, <2>3, <2>4 DEF Carriable
<1>15. /\ RecordOK(c)
       /\ c.version = q.version + 1
       /\ \A d \in Directions, m \in Nodes :
             HasEdge(c, d, m) <=> {q.version, q.version + 1} \cap q.edges[d][m] # {}
       /\ \A w \in 1..q.version, d \in Directions, m \in Nodes :
             w \in c.edges[d][m] <=> w \in q.edges[d][m]
       /\ \A w \in 1..q.version : TagsAt(c, w) = TagsAt(q, w)
       /\ \A t : t \in TagsAt(c, q.version + 1) <=>
             \E j \in DOMAIN q.keys :
                /\ {q.version, q.version + 1} \cap q.keys[j].versions # {}
                /\ t = TagOf(q.keys[j], q.keys[j].key_version)
  BY <1>14, CarryShows
<1> HIDE DEF c
<1>16. \A d \in Directions, m \in Nodes : HasEdge(c, d, m) <=> HasEdge(r, d, m)
  BY <1>9, <1>15, OKIsCarriable
<1>17. ASSUME NEW w \in 1..r.version PROVE TagsAt(q, w) = TagsAt(r, w)
  <2>0. w # new
    BY <1>0 DEF new
  <2>1. ASSUME NEW t PROVE t \in TagsAt(q, w) <=> t \in TagsAt(r, w)
    <3>1. t \in TagsAt(q, w) <=>
              \E j \in DOMAIN q.keys :
                 /\ w \in q.keys[j].versions
                 /\ \E m \in q.keys[j].versionmap : m[1] = w /\ t = TagOf(q.keys[j], m[2])
      BY TagMember
    <3>2. t \in TagsAt(r, w) <=>
              \E j \in DOMAIN r.keys :
                 /\ w \in r.keys[j].versions
                 /\ \E m \in r.keys[j].versionmap : m[1] = w /\ t = TagOf(r.keys[j], m[2])
      BY TagMember
    <3>3. w \in q.keys[i].versions <=> w \in old[i].versions
      BY <1>6, <1>13, <2>0
    <3>4. /\ q.keys[i].versionmap = old[i].versionmap
          /\ \A m \in old[i].versionmap : TagOf(q.keys[i], m[2]) = TagOf(old[i], m[2])
      BY <1>6, <1>11, <1>13
    <3>5. i \notin DOMAIN r.keys => w \notin q.keys[i].versions
      BY <1>1, <3>3 DEF NewKey
    <3>6. i \in DOMAIN r.keys => old[i] = r.keys[i]
      BY <1>1
    <3>7. \A j \in DOMAIN q.keys : j # i => j \in DOMAIN r.keys /\ q.keys[j] = r.keys[j]
      BY <1>12, <1>13
    <3>8. DOMAIN r.keys \subseteq DOMAIN q.keys
      BY <1>1, <1>13
    <3>9. ASSUME t \in TagsAt(q, w) PROVE t \in TagsAt(r, w)
      <4>1. PICK j \in DOMAIN q.keys :
                 /\ w \in q.keys[j].versions
                 /\ \E m \in q.keys[j].versionmap : m[1] = w /\ t = TagOf(q.keys[j], m[2])
        BY <3>1, <3>9
      <4>2. PICK m \in q.keys[j].versionmap : m[1] = w /\ t = TagOf(q.keys[j], m[2])
        BY <4>1
      <4>3. j \in DOMAIN r.keys
        BY <3>5, <3>7, <4>1
      <4>4. w \in r.keys[j].versions /\ m \in r.keys[j].versionmap /\ t = TagOf(r.keys[j], m[2])
        BY <3>3, <3>4, <3>6, <3>7, <4>1, <4>2, <4>3
      <4> QED
        BY <3>2, <4>2, <4>3, <4>4
    <3>10. ASSUME t \in TagsAt(r, w) PROVE t \in TagsAt(q, w)
      <4>1. PICK j \in DOMAIN r.keys :
                 /\ w \in r.keys[j].versions
                 /\ \E m \in r.keys[j].versionmap : m[1] = w /\ t = TagOf(r.keys[j], m[2])
        BY <3>2, <3>10
      <4>2. PICK m \in r.keys[j].versionmap : m[1] = w /\ t = TagOf(r.keys[j], m[2])
        BY <4>1
      <4>3. j \in DOMAIN q.keys
        BY <3>8
      <4>4. w \in q.keys[j].versions /\ m \in q.keys[j].versionmap /\ t = TagOf(q.keys[j], m[2])
        BY <3>3, <3>4, <3>6, <3>7, <4>1, <4>2, <4>3
      <4> QED
        BY <3>1, <4>2, <4>3, <4>4
    <3> QED
      BY <3>9, <3>10
  <2> QED
    BY <2>1
<1>18. Grown(r, c)
  <2>1. r.version <= c.version
    BY <1>0, <1>9, <1>15
  <2>2. \A w \in 1..r.version, d \in Directions, m \in Nodes :
           w \in c.edges[d][m] <=> w \in r.edges[d][m]
    BY <1>9, <1>15
  <2>3. \A w \in 1..r.version : TagsAt(c, w) = TagsAt(r, w)
    BY <1>9, <1>15, <1>17
  <2> QED
    BY <1>15, <2>1, <2>2, <2>3 DEF Grown
<1>19. ASSUME NEW t
       PROVE  t \in TagsAt(c, c.version) <=>
                \/ t \in TagsAt(r, r.version) /\ t[1] # k
                \/ t = <<k, vals>>
  <2>1. t \in TagsAt(r, r.version) <=>
          \E j \in DOMAIN r.keys :
             r.version \in r.keys[j].versions /\ t = TagOf(r.keys[j], r.keys[j].key_version)
    BY CurrentTags
  <2>2. t \in TagsAt(c, c.version) <=>
             \E j \in DOMAIN q.keys :
                /\ {r.version, new} \cap q.keys[j].versions # {}
                /\ t = TagOf(q.keys[j], q.keys[j].key_version)
    BY <1>9, <1>15 DEF new
  <2>3. ASSUME NEW j \in DOMAIN r.keys, j # i
        PROVE  /\ j \in DOMAIN q.keys /\ q.keys[j] = r.keys[j]
               /\ {r.version, new} \cap q.keys[j].versions # {} <=> r.version \in r.keys[j].versions
               /\ TagOf(q.keys[j], q.keys[j].key_version)[1] # k
    <3>1. j \in DOMAIN q.keys /\ q.keys[j] = r.keys[j] /\ j \in DOMAIN old
      BY <1>1, <1>12, <1>13, <2>3
    <3>2. {r.version, new} \cap r.keys[j].versions # {} <=> r.version \in r.keys[j].versions
      BY OKIsCarriable DEF new
    <3>3. r.keys[j].key # k
      BY <1>1, <2>3
    <3> QED
      BY <3>1, <3>2, <3>3 DEF TagOf
  <2>4. {r.version, new} \cap q.keys[i].versions # {}
    BY <1>6, <1>13
  <2>5. TagOf(q.keys[i], q.keys[i].key_version) = <<k, vals>>
    BY <1>6, <1>11, <1>13
  <2>6. i \in DOMAIN q.keys /\ (i \in DOMAIN r.keys => r.keys[i].key = k)
    BY <1>1, <1>13
  <2>7. \A j \in DOMAIN q.keys : j # i => j \in DOMAIN r.keys
    BY <1>12, <1>13
  <2>8. ASSUME t \in TagsAt(c, c.version)
        PROVE  (t \in TagsAt(r, r.version) /\ t[1] # k) \/ t = <<k, vals>>
    <3>1. PICK j \in DOMAIN q.keys :
                /\ {r.version, new} \cap q.keys[j].versions # {}
                /\ t = TagOf(q.keys[j], q.keys[j].key_version)
      BY <2>2, <2>8
    <3> QED
      BY <2>1, <2>3, <2>5, <2>7, <3>1
  <2>9. ASSUME t \in TagsAt(r, r.version), t[1] # k PROVE t \in TagsAt(c, c.version)
    <3>1. PICK j \in DOMAIN r.keys :
             r.version \in r.keys[j].versions /\ t = TagOf(r.keys[j], r.keys[j].key_version)
      BY <2>1, <2>9
    <3>2. j # i
      BY <2>6, <2>9, <3>1 DEF TagOf
    <3> QED
      BY <2>2, <2>3, <3>1, <3>2
  <2>10. t = <<k, vals>> => t \in TagsAt(c, c.version)
    BY <2>2, <2>4, <2>5, <2>6
  <2> QED
    BY <2>8, <2>9, <2>10
<1>20. TagsAt(c, c.version) = {t \in TagsAt(r, r.version) : t[1] # k} \cup {<<k, vals>>}
  BY <1>19
<1>21. c.version = r.version + 1
  BY <1>9, <1>15
<1> QED
  BY <1>2, <1>16, <1>18, <1>20, <1>21

\* The other end of an edge of a node that is removed.
LEMMA WithoutEffect ==
    ASSUME NEW r, RecordOK(r), NEW d \in Directions, NEW n \in Nodes
    PROVE  LET c == Without(r, d, n)
           IN  /\ Grown(r, c) /\ SameTags(r, c)
               /\ \A d2 \in Directions, m \in Nodes :
                     HasEdge(c, d2, m) <=> HasEdge(r, d2, m) /\ ~(d2 = d /\ m = n)
<1>1. CASE HasEdge(r, d, n)
  <2>1. Without(r, d, n) = RemoveEdge(r, d, n)
    BY <1>1 DEF Without
  <2> QED
    BY <1>1, <2>1, RemoveEdgeEffect
<1>2. CASE ~HasEdge(r, d, n)
  <2>1. Without(r, d, n) = r
    BY <1>2 DEF Without
  <2> QED
    BY <1>2, <2>1, GrownByItself
<1> QED
  BY <1>1, <1>2

\* The self loop touches no edge to another node.
LEMMA WithLoopEffect ==
    ASSUME NEW r, RecordOK(r), NEW n \in Nodes
    PROVE  LET c == WithLoop(r, n)
           IN  /\ Grown(r, c) /\ SameTags(r, c)
               /\ \A d \in Directions, m \in Nodes :
                     m # n => (HasEdge(c, d, m) <=> HasEdge(r, d, m))
<1> DEFINE f == AddEdge(r, "forward", n)
           c == WithLoop(r, n)
<1>0. "forward" \in Directions /\ "reverse" \in Directions
  BY DEF Directions
<1>1. /\ Grown(r, f) /\ SameTags(r, f)
      /\ \A d \in Directions, m \in Nodes : m # n => (HasEdge(f, d, m) <=> HasEdge(r, d, m))
  BY <1>0, AddEdgeEffect
<1>2. c \in {r, f, AddEdge(f, "reverse", n)}
  BY DEF WithLoop
<1> HIDE DEF f, c
<1>3. CASE c = r
  BY <1>3, GrownByItself DEF c
<1>4. CASE c = f
  BY <1>1, <1>4 DEF c
<1>5. CASE c = AddEdge(f, "reverse", n)
  <2>1. RecordOK(f)
    BY <1>1 DEF Grown
  <2>2. /\ Grown(f, c) /\ SameTags(f, c)
        /\ \A d \in Directions, m \in Nodes : m # n => (HasEdge(c, d, m) <=> HasEdge(f, d, m))
    BY <1>0, <1>5, <2>1, AddEdgeEffect
  <2>3. Grown(r, c)
    BY <1>1, <2>2, GrownTwice
  <2>4. SameTags(r, c)
    BY <1>1, <2>2 DEF SameTags
  <2> QED
    BY <1>1, <2>2, <2>3, <2>4 DEF c
<1> QED
  BY <1>2, <1>3, <1>4, <1>5

\* The edges of a node in one direction, removed one after the other: a fold
\* over the set of them, which has a value because the set is finite.
Removing(it, r, d, C) ==
    it = [s \in C |-> IF s = {} THEN r
                      ELSE LET n == CHOOSE n \in s : TRUE
                           IN  RemoveEdge(it[s \ {n}], d, n)]

LEMMA RemovingRuns ==
    ASSUME NEW r, NEW d, NEW S, IsFiniteSet(S)
    PROVE  \E it : Removing(it, r, d, SUBSET S)
<1> DEFINE N == Cardinality(S)
           C(k) == {t \in SUBSET S : Cardinality(t) <= k}
           Good == {k \in 0..N : \E it : Removing(it, r, d, C(k))}
<1>1. N \in Nat
  BY FS_CardinalityType
<1>2. ASSUME NEW t \in SUBSET S
      PROVE  /\ Cardinality(t) \in Nat /\ Cardinality(t) <= N
             /\ \A n \in t : Cardinality(t \ {n}) = Cardinality(t) - 1
             /\ Cardinality(t) = 0 <=> t = {}
  <2>1. IsFiniteSet(t) /\ Cardinality(t) <= N
    BY FS_Subset
  <2> QED
    BY <2>1, FS_CardinalityType, FS_RemoveElement, FS_EmptySet
<1> HIDE DEF N
<1>3. 0 \in Good
  <2> DEFINE it == [s \in C(0) |-> r]
  <2>1. \A s \in C(0) : s = {}
    BY <1>2
  <2>2. Removing(it, r, d, C(0))
    BY <2>1 DEF Removing
  <2> HIDE DEF it
  <2> QED
    BY <1>1, <2>2
<1>4. ASSUME NEW k \in 0..(N - 1), k \in Good
      PROVE  k + 1 \in Good
  <2>1. PICK it : Removing(it, r, d, C(k))
    BY <1>4
  <2> DEFINE h == [s \in C(k + 1) |-> IF s = {} THEN r
                                      ELSE LET n == CHOOSE n \in s : TRUE
                                           IN  RemoveEdge(it[s \ {n}], d, n)]
  <2>2. C(k) \subseteq C(k + 1)
    BY <1>1, <1>2
  <2>3. ASSUME NEW s \in C(k + 1), s # {}
        PROVE  (s \ {CHOOSE n \in s : TRUE}) \in C(k)
    <3>1. (CHOOSE n \in s : TRUE) \in s
      BY <2>3
    <3> DEFINE n == CHOOSE n \in s : TRUE
    <3> HIDE DEF n
    <3>2. Cardinality(s \ {n}) = Cardinality(s) - 1 /\ Cardinality(s) \in Nat
          /\ Cardinality(s) <= k + 1
      BY <1>2, <3>1 DEF n
    <3>3. Cardinality(s \ {n}) <= k
      BY <1>1, <3>2
    <3> QED
      BY <3>3 DEF n
  <2> HIDE DEF C
  <2>4. \A s \in C(k) : h[s] = it[s]
    BY <2>1, <2>2 DEF Removing
  <2>5. \A s \in C(k + 1) : s # {} =>
            h[s \ {CHOOSE n \in s : TRUE}] = it[s \ {CHOOSE n \in s : TRUE}]
    BY <2>3, <2>4
  <2>6. Removing(h, r, d, C(k + 1))
    BY <2>5 DEF Removing
  <2>7. k + 1 \in 0..N
    BY <1>1
  <2> HIDE DEF h
  <2> QED
    BY <2>6, <2>7
<1> HIDE DEF Good
<1>5. \A k \in 0..N : k \in Good
  BY <1>1, <1>3, <1>4, UpTo
<1>6. \E it : Removing(it, r, d, C(N))
  <2>1. N \in Good
    BY <1>1, <1>5
  <2> HIDE DEF C
  <2> QED
    BY <2>1, Zenon DEF Good
<1>7. C(N) = SUBSET S
  BY <1>2
<1> QED
  BY <1>6, <1>7

\* Removing the edges one after the other leaves no edge in the direction, all
\* those in the other, and the tags.
LEMMA WithoutEdgesEffect ==
    ASSUME NEW r, RecordOK(r), NEW d \in Directions
    PROVE  LET c == WithoutEdges(r, d)
           IN  /\ Grown(r, c) /\ SameTags(r, c)
               /\ \A d2 \in Directions, m \in Nodes :
                     HasEdge(c, d2, m) <=> HasEdge(r, d2, m) /\ d2 # d
<1> DEFINE S == EdgesAt(r, d, r.version)
           it == CHOOSE it : Removing(it, r, d, SUBSET S)
           N == Cardinality(S)
           Done(s) == /\ Grown(r, it[s]) /\ SameTags(r, it[s])
                      /\ \A d2 \in Directions, m \in Nodes :
                            HasEdge(it[s], d2, m) <=> HasEdge(r, d2, m) /\ ~(d2 = d /\ m \in s)
           Good == {k \in 0..N : \A s \in SUBSET S : Cardinality(s) = k => Done(s)}
<1>1. IsFiniteSet(S)
  BY DEF RecordOK
<1>2. \A m \in Nodes : m \in S <=> HasEdge(r, d, m)
  BY DEF EdgesAt, HasEdge
<1>3. WithoutEdges(r, d) = it[S]
  BY DEF WithoutEdges, FoldSet, MapThenFoldSet, Removing
<1>4. S \subseteq Nodes
  BY DEF EdgesAt
<1> HIDE DEF S
<1>5. Removing(it, r, d, SUBSET S)
  <2>1. \E f : Removing(f, r, d, SUBSET S)
    BY <1>1, RemovingRuns
  <2> QED
    BY <2>1
<1> HIDE DEF it
<1>6. ASSUME NEW s \in SUBSET S, s # {}
      PROVE  \E n \in s : it[s] = RemoveEdge(it[s \ {n}], d, n)
  <2>1. (CHOOSE n \in s : TRUE) \in s
    BY <1>6
  <2>2. it[s] = LET n == CHOOSE n \in s : TRUE IN RemoveEdge(it[s \ {n}], d, n)
    BY <1>5, <1>6 DEF Removing
  <2> QED
    BY <2>1, <2>2
<1>7. it[{}] = r
  BY <1>5 DEF Removing
<1>8. N \in Nat
  BY <1>1, FS_CardinalityType
<1>9. ASSUME NEW t \in SUBSET S
      PROVE  /\ Cardinality(t) \in Nat /\ Cardinality(t) <= N
             /\ \A n \in t : Cardinality(t \ {n}) = Cardinality(t) - 1
             /\ Cardinality(t) = 0 <=> t = {}
  <2>1. IsFiniteSet(t) /\ Cardinality(t) <= N
    BY <1>1, FS_Subset
  <2> QED
    BY <2>1, FS_CardinalityType, FS_RemoveElement, FS_EmptySet
<1> HIDE DEF N
<1>10. ASSUME NEW s \in SUBSET S, NEW n \in s, Done(s \ {n}),
              it[s] = RemoveEdge(it[s \ {n}], d, n)
       PROVE  Done(s)
  <2> DEFINE q == it[s \ {n}]
             c == it[s]
  <2>1. RecordOK(q) /\ Grown(r, q) /\ SameTags(r, q) /\ n \in Nodes
    BY <1>4, <1>10 DEF Grown
  <2>2. \A d2 \in Directions, m \in Nodes :
           HasEdge(q, d2, m) <=> HasEdge(r, d2, m) /\ ~(d2 = d /\ m \in s \ {n})
    BY <1>10
  <2>3. c = RemoveEdge(q, d, n)
    BY <1>10
  <2> HIDE DEF q, c, Done
  <2>4. HasEdge(q, d, n)
    BY <1>2, <1>4, <2>2
  <2>5. /\ Grown(q, c) /\ SameTags(q, c)
        /\ \A d2 \in Directions, m \in Nodes :
              HasEdge(c, d2, m) <=> HasEdge(q, d2, m) /\ ~(d2 = d /\ m = n)
    BY <2>1, <2>3, <2>4, RemoveEdgeEffect
  <2>6. Grown(r, c)
    BY <2>1, <2>5, GrownTwice
  <2>7. SameTags(r, c)
    BY <2>1, <2>5 DEF SameTags
  <2>8. \A d2 \in Directions, m \in Nodes :
           HasEdge(c, d2, m) <=> HasEdge(r, d2, m) /\ ~(d2 = d /\ m \in s)
    BY <2>2, <2>5
  <2> QED
    BY <2>6, <2>7, <2>8 DEF Done, c
<1>11. Done({})
  BY <1>7, GrownByItself
<1> HIDE DEF Done
<1>12. 0 \in Good
  BY <1>8, <1>9, <1>11
<1>13. ASSUME NEW k \in 0..(N - 1), k \in Good
       PROVE  k + 1 \in Good
  <2>1. ASSUME NEW s \in SUBSET S, Cardinality(s) = k + 1
        PROVE  Done(s)
    <3>1. s # {}
      BY <1>8, <1>9, <2>1
    <3>2. PICK n \in s : it[s] = RemoveEdge(it[s \ {n}], d, n)
      BY <1>6, <3>1
    <3>3. (s \ {n}) \in SUBSET S /\ Cardinality(s \ {n}) = k
      BY <1>8, <1>9, <2>1
    <3>4. Done(s \ {n})
      BY <1>13, <3>3
    <3> QED
      BY <1>10, <3>2, <3>4
  <2> QED
    BY <1>8, <2>1
<1> HIDE DEF Good
<1>14. \A k \in 0..N : k \in Good
  BY <1>8, <1>12, <1>13, UpTo
<1>15. Done(S)
  <2>1. N \in Good
    BY <1>8, <1>14
  <2>2. \A s \in SUBSET S : Cardinality(s) = N => Done(s)
    BY <2>1 DEF Good
  <2>3. Cardinality(S) = N
    BY DEF N
  <2> QED
    BY <2>2, <2>3
<1>16. \A d2 \in Directions, m \in Nodes :
          HasEdge(it[S], d2, m) <=> HasEdge(r, d2, m) /\ d2 # d
  BY <1>2, <1>15 DEF Done
<1> QED
  BY <1>3, <1>15, <1>16 DEF Done

-----------------------------------------------------------------------------
(* The end of a transaction *)

\* What a transaction hands to commit: records that have grown, the nodes it
\* wrote, the ones it removed and the ones it created.
Handed(records, gvs, written, removed, new) ==
    /\ records \in [Nodes -> Info]
    /\ \A n \in Nodes : Grown(info[n], records[n])
    /\ \A n \in Nodes : records[n].version > 0 => info[n].version > 0 \/ n \in new
    /\ written \subseteq Nodes
    /\ \A n \in written : records[n].version > 0
    /\ new \subseteq written
    /\ new \cap removed = {}
    /\ \A n \in new : ~HasVersionOrHigher(gversions[n], Version) /\ gvs[n] = Created(n)
    /\ \A n \in Nodes \ new : gvs[n] = gversions[n]

\* The nodes of the graph after it.
Kept(removed, new) == new \cup {n \in Nodes \ removed : Exists(n)}

LEMMA VersionsAreNumbers ==
    ASSUME Inv
    PROVE  /\ Version \in Nat
           /\ DOMAIN changes = 1..Version
           /\ \A n \in Nodes : gversions[n] \subseteq 1..Version
           /\ \A n \in Nodes : RecordOK(info[n]) /\ info[n].version \in Nat
           /\ \A n \in Nodes : HasVersionOrHigher(gversions[n], Version) <=> Exists(n)
           /\ \A n \in Nodes : ~HasVersionOrHigher(gversions[n], Version + 1)
           /\ \A n \in Nodes : Exists(n) => info[n].version > 0
<1>1. Version \in Nat /\ DOMAIN changes = 1..Version
  <2>1. changes \in Seq({changes[c] : c \in DOMAIN changes})
    BY DEF Inv, TypeOK
  <2> QED
    BY <2>1 DEF Version
<1>2. \A n \in Nodes : gversions[n] \subseteq 1..Version
  BY DEF Inv, ListsLead
<1>3. \A n \in Nodes : RecordOK(info[n]) /\ info[n].version \in Nat
  BY VersionIsNumber DEF Inv
<1> HIDE DEF Version
<1>4. ASSUME NEW n \in Nodes
      PROVE  /\ HasVersionOrHigher(gversions[n], Version) <=> Exists(n)
             /\ ~HasVersionOrHigher(gversions[n], Version + 1)
  BY <1>1, <1>2 DEF HasVersionOrHigher, Exists
<1>5. ASSUME NEW n \in Nodes, Exists(n)
      PROVE  info[n].version > 0
  <2>1. Version \in 1..Version
    BY <1>2, <1>5 DEF Exists
  <2>2. n \in DOMAIN changes[Version] /\ changes[Version][n] = info[n].version
    BY <1>5 DEF Inv, ListsLead
  <2>3. changes[Version][n] \in 1..info[n].version
    BY <2>1, <2>2 DEF Inv, ListsLead
  <2> QED
    BY <1>3, <2>2, <2>3
<1> QED
  BY <1>1, <1>2, <1>3, <1>4, <1>5

\* What a commit leaves: the records as handed over, one more change list, and
\* one more version of the graph for the nodes it keeps.
CommitResult(records, written, removed, new) ==
    LET list == written \cup Kept(removed, new)
    IN  /\ info' = records
        /\ Version' = Version + 1
        /\ DOMAIN changes' = 1..(Version + 1)
        /\ changes' \in Seq({changes'[c] : c \in DOMAIN changes'})
        /\ \A c \in 1..Version : changes'[c] = changes[c]
        /\ changes'[Version + 1] = [n \in list |-> records[n].version]
        /\ gversions' \in [Nodes -> SUBSET Nat]
        /\ \A n \in Nodes : \A v :
              v \in gversions'[n] <=>
                 \/ v \in gversions[n]
                 \/ v = Version + 1 /\ n \in Kept(removed, new)
                 \/ v = Version /\ n \in new /\ info[n].version # 0

\* Commit does that: the node a create hands over gets the new version, and the
\* one before when it had a record.
LEMMA CommitFacts ==
    ASSUME NEW records, NEW gvs, NEW written, NEW removed, NEW new,
           Inv, Handed(records, gvs, written, removed, new),
           Commit(records, gvs, written, removed)
    PROVE  CommitResult(records, written, removed, new)
<1> DEFINE carried == {n \in Nodes \ removed : HasVersionOrHigher(gvs[n], Version)}
           list == written \cup Kept(removed, new)
           last == [n \in list |-> records[n].version]
<1>0. /\ Version \in Nat
      /\ DOMAIN changes = 1..Version
      /\ \A n \in Nodes : gversions[n] \subseteq 1..Version
      /\ \A n \in Nodes : info[n].version \in Nat
      /\ \A n \in Nodes : HasVersionOrHigher(gversions[n], Version) <=> Exists(n)
      /\ \A n \in Nodes : ~HasVersionOrHigher(gversions[n], Version + 1)
  BY VersionsAreNumbers
<1>1. new \subseteq Nodes /\ new \cap removed = {}
  BY DEF Handed
<1>2. ASSUME NEW n \in new
      PROVE  /\ HasVersionOrHigher(gvs[n], Version)
             /\ \A v : v \in AddGraphVersion(gvs[n], Version + 1) <=>
                          \/ v \in gversions[n]
                          \/ v = Version + 1
                          \/ v = Version /\ info[n].version # 0
  <2>0. n \in Nodes /\ gvs[n] = Created(n) /\ ~HasVersionOrHigher(gversions[n], Version)
    BY <1>1 DEF Handed
  <2> HIDE DEF Version
  <2>1. CASE info[n].version = 0
    <3>1. gvs[n] = AddGraphVersion(gversions[n], Version + 1)
      BY <2>0, <2>1 DEF Created, GraphVersionOfNew
    <3>2. gvs[n] = gversions[n] \cup {Version + 1}
      BY <1>0, <2>0, <3>1 DEF AddGraphVersion
    <3> DEFINE v == Version + 1
    <3>a. v \in gvs[n] /\ v >= Version + 1 /\ v >= Version
      BY <1>0, <3>2
    <3> HIDE DEF v
    <3>3. /\ HasVersionOrHigher(gvs[n], Version + 1)
          /\ HasVersionOrHigher(gvs[n], Version)
      BY <3>a DEF HasVersionOrHigher
    <3>4. AddGraphVersion(gvs[n], Version + 1) = gvs[n]
      BY <3>3 DEF AddGraphVersion
    <3> QED
      BY <2>1, <3>2, <3>3, <3>4
  <2>2. CASE info[n].version # 0
    <3>1. gvs[n] = AddGraphVersion(gversions[n], Version)
      BY <2>0, <2>2 DEF Created, GraphVersionOfNew
    <3>2. gvs[n] = gversions[n] \cup {Version}
      BY <2>0, <3>1 DEF AddGraphVersion
    <3>3. /\ ~HasVersionOrHigher(gvs[n], Version + 1)
          /\ HasVersionOrHigher(gvs[n], Version)
      BY <1>0, <2>0, <3>2 DEF HasVersionOrHigher
    <3>4. AddGraphVersion(gvs[n], Version + 1) = gvs[n] \cup {Version + 1}
      BY <3>3 DEF AddGraphVersion
    <3> QED
      BY <2>2, <3>2, <3>3, <3>4
  <2> QED
    BY <2>1, <2>2
<1>3. ASSUME NEW n \in Nodes \ new
      PROVE  /\ HasVersionOrHigher(gvs[n], Version) <=> Exists(n)
             /\ gvs[n] = gversions[n]
             /\ AddGraphVersion(gvs[n], Version + 1) = gversions[n] \cup {Version + 1}
  <2>1. gvs[n] = gversions[n]
    BY DEF Handed
  <2> HIDE DEF Version
  <2> QED
    BY <1>0, <2>1 DEF AddGraphVersion
<1>4. carried = Kept(removed, new)
  BY <1>1, <1>2, <1>3 DEF Kept
<1>5. /\ info' = records
      /\ changes' = Append(changes, [n \in written \cup carried |-> records[n].version])
      /\ gversions' = [n \in Nodes |-> IF n \in carried THEN AddGraphVersion(gvs[n], Version + 1)
                                                        ELSE gvs[n]]
  BY DEF Commit
<1>6. changes' = Append(changes, last)
  BY <1>4, <1>5
<1>7. /\ changes' \in Seq({changes[c] : c \in DOMAIN changes} \cup {last})
      /\ Len(changes') = Len(changes) + 1
      /\ \A c \in 1..Len(changes) : changes'[c] = changes[c]
      /\ changes'[Len(changes) + 1] = last
  <2> DEFINE T == {changes[c] : c \in DOMAIN changes} \cup {last}
  <2>1. changes \in Seq({changes[c] : c \in DOMAIN changes})
    BY DEF Inv, TypeOK
  <2> HIDE DEF last
  <2>2. changes \in Seq(T) /\ last \in T
    BY <2>1
  <2> HIDE DEF T
  <2>3. Append(changes, last) \in Seq(T)
    BY <2>2, AppendProperties
  <2>4. /\ Len(Append(changes, last)) = Len(changes) + 1
        /\ \A c \in 1..Len(changes) : Append(changes, last)[c] = changes[c]
        /\ Append(changes, last)[Len(changes) + 1] = last
    BY <2>2, AppendProperties
  <2> QED
    BY <1>6, <2>3, <2>4 DEF T
<1> HIDE DEF last
<1>8. DOMAIN changes' = 1..(Version + 1) /\ Version' = Version + 1
  BY <1>7 DEF Version
<1>9. changes' \in Seq({changes'[c] : c \in DOMAIN changes'})
  <2>1. changes' = [c \in 1..(Version + 1) |-> changes'[c]]
    <3> DEFINE T == {changes[c] : c \in DOMAIN changes} \cup {last}
    <3>1. changes' \in Seq(T)
      BY <1>7
    <3> HIDE DEF T
    <3>2. PICK k \in Nat : changes' \in [1..k -> T]
      BY <3>1, SeqDef
    <3> QED
      BY <1>8, <3>2
  <2> DEFINE R == {changes'[c] : c \in DOMAIN changes'}
  <2>2. \A c \in 1..(Version + 1) : changes'[c] \in R
    BY <1>8
  <2>3. changes' \in [1..(Version + 1) -> R]
    <3> HIDE DEF R
    <3> QED
      BY <2>1, <2>2
  <2>4. Version + 1 \in Nat
    BY <1>0
  <2> HIDE DEF R, Version
  <2>5. changes' \in Seq(R)
    BY <2>3, <2>4, SeqDef
  <2> QED
    BY <2>5 DEF R
<1>10. /\ \A c \in 1..Version : changes'[c] = changes[c]
       /\ changes'[Version + 1] = last
  BY <1>7 DEF Version
<1> HIDE DEF Version, carried
<1>11. ASSUME NEW n \in Nodes, NEW v
       PROVE  v \in gversions'[n] <=>
                 \/ v \in gversions[n]
                 \/ v = Version + 1 /\ n \in Kept(removed, new)
                 \/ v = Version /\ n \in new /\ info[n].version # 0
  <2>1. gversions'[n] = IF n \in carried THEN AddGraphVersion(gvs[n], Version + 1) ELSE gvs[n]
    BY <1>5
  <2>2. CASE n \in new
    <3>1. n \in Kept(removed, new) /\ n \in carried
      BY <1>4, <2>2 DEF Kept
    <3>2. gversions'[n] = AddGraphVersion(gvs[n], Version + 1)
      BY <2>1, <3>1
    <3> QED
      BY <1>2, <2>2, <3>1, <3>2
  <2>3. CASE n \notin new
    <3>1. CASE n \in carried
      <4>1. gversions'[n] = gversions[n] \cup {Version + 1}
        BY <1>3, <2>1, <2>3, <3>1
      <4> QED
        BY <1>4, <2>3, <3>1, <4>1
    <3>2. CASE n \notin carried
      <4>1. gversions'[n] = gversions[n]
        BY <1>3, <2>1, <2>3, <3>2
      <4> QED
        BY <1>4, <2>3, <3>2, <4>1
    <3> QED
      BY <3>1, <3>2
  <2> QED
    BY <2>2, <2>3
<1>12. gversions' \in [Nodes -> SUBSET Nat]
  <2>1. DOMAIN gversions' = Nodes /\ gversions' = [n \in Nodes |-> gversions'[n]]
    BY <1>5
  <2>2. \A n \in Nodes : gversions'[n] \subseteq Nat
    BY <1>0, <1>11
  <2> QED
    BY <2>1, <2>2
<1> QED
  BY <1>5, <1>8, <1>9, <1>10, <1>11, <1>12 DEF last, CommitResult

\* The parts of the invariant that do not speak of edges hold again, and the
\* nodes that exist are the ones kept.
LEMMA CommitKeeps ==
    ASSUME NEW records, NEW gvs, NEW written, NEW removed, NEW new,
           Inv, Handed(records, gvs, written, removed, new),
           Commit(records, gvs, written, removed)
    PROVE  /\ TypeOK'
           /\ (\A n \in Nodes : RecordOK(info[n]))'
           /\ ListsLead'
           /\ \A n \in Nodes : Exists(n)' <=> n \in Kept(removed, new)
<1> DEFINE list == written \cup Kept(removed, new)
           V == Version
<1>0. /\ V \in Nat
      /\ \A n \in Nodes : gversions[n] \subseteq 1..V
      /\ \A n \in Nodes : info[n].version \in Nat
      /\ \A n \in Nodes : Exists(n) => info[n].version > 0
  BY VersionsAreNumbers
<1>100. CommitResult(records, written, removed, new)
  BY CommitFacts
<1>1. /\ info' = records
      /\ Version' = V + 1
      /\ DOMAIN changes' = 1..(V + 1)
      /\ changes' \in Seq({changes'[c] : c \in DOMAIN changes'})
      /\ \A c \in 1..V : changes'[c] = changes[c]
      /\ changes'[V + 1] = [n \in list |-> records[n].version]
      /\ gversions' \in [Nodes -> SUBSET Nat]
      /\ \A n \in Nodes : \A v :
            v \in gversions'[n] <=>
               \/ v \in gversions[n]
               \/ v = V + 1 /\ n \in Kept(removed, new)
               \/ v = V /\ n \in new /\ info[n].version # 0
  BY <1>100 DEF CommitResult
<1>2. /\ records \in [Nodes -> Info]
      /\ \A n \in Nodes : Grown(info[n], records[n])
      /\ \A n \in Nodes : records[n].version > 0 => info[n].version > 0 \/ n \in new
      /\ written \subseteq Nodes
      /\ \A n \in written : records[n].version > 0
      /\ new \subseteq written /\ new \subseteq Nodes
  BY DEF Handed
<1>3. /\ \A c \in 1..V : \A n \in DOMAIN changes[c] :
            /\ n \in Nodes
            /\ changes[c][n] \in 1..info[n].version
            /\ \A w \in c..V : n \in DOMAIN changes[w] => changes[c][n] <= changes[w][n]
      /\ \A n \in Nodes :
            /\ info[n].version > 0 => gversions[n] # {}
            /\ \A v \in gversions[n] : \E c \in v..V : n \in DOMAIN changes[c]
  <2>1. DOMAIN changes = 1..V
    BY VersionsAreNumbers
  <2> QED
    BY <2>1 DEF Inv, TypeOK, ListsLead
<1>4. \A n \in Nodes : RecordOK(records[n]) /\ records[n].version \in Nat
                       /\ info[n].version <= records[n].version
  BY <1>2, VersionIsNumber DEF Grown
<1>5. list \subseteq Nodes /\ \A n \in list : records[n].version \in 1..records[n].version
  <2>1. Kept(removed, new) \subseteq Nodes
    BY <1>2 DEF Kept
  <2>2. ASSUME NEW n \in Kept(removed, new) PROVE records[n].version > 0
    <3>1. CASE n \in new
      BY <1>2, <3>1
    <3>2. CASE n \in Nodes /\ Exists(n)
      BY <1>0, <1>4, <3>2
    <3> QED
      BY <3>1, <3>2 DEF Kept
  <2> HIDE DEF V
  <2>3. \A n \in list : n \in Nodes /\ records[n].version > 0
    BY <1>2, <2>1, <2>2
  <2> HIDE DEF list
  <2>4. list \subseteq Nodes /\ \A n \in list : records[n].version \in 1..records[n].version
    BY <1>4, <2>3
  <2> QED
    BY <2>4
<1>6. V + 1 \notin 1..V /\ \A c \in 1..(V + 1) : c \in 1..V \/ c = V + 1
  BY <1>0
<1>7. \A n \in Nodes : V + 1 \notin gversions[n]
  BY <1>0
<1> HIDE DEF list, V
<1>8. TypeOK'
  <2>1. \A c \in DOMAIN changes' : DOMAIN changes'[c] \subseteq Nodes
    BY <1>1, <1>3, <1>5, <1>6
  <2> QED
    BY <1>1, <1>2, <2>1 DEF TypeOK
<1>9. (\A n \in Nodes : RecordOK(info[n]))'
  BY <1>1, <1>4 DEF RecordOK, KeyConsistent, EdgesAt
<1>10. \A n \in Nodes : Exists(n)' <=> n \in Kept(removed, new)
  <2>1. \A n \in Nodes : Exists(n)' <=> V + 1 \in gversions'[n]
    BY <1>1 DEF Exists
  <2> QED
    BY <1>0, <1>1, <1>7, <2>1
<1>11. ASSUME NEW c \in 1..(V + 1), NEW n \in DOMAIN changes'[c]
       PROVE  /\ changes'[c][n] \in 1..records[n].version
              /\ \A w \in c..(V + 1) :
                    n \in DOMAIN changes'[w] => changes'[c][n] <= changes'[w][n]
  <2>1. CASE c \in 1..V
    <3>1. changes'[c] = changes[c] /\ n \in Nodes /\ changes[c][n] \in 1..info[n].version
      BY <1>1, <1>3, <2>1
    <3>2. changes[c][n] \in 1..records[n].version
      BY <1>0, <1>4, <3>1
    <3>3. ASSUME NEW w \in c..(V + 1), n \in DOMAIN changes'[w]
          PROVE  changes'[c][n] <= changes'[w][n]
      <4>1. CASE w = V + 1
        <5>1. changes'[w][n] = records[n].version
          BY <1>1, <3>3, <4>1
        <5> QED
          BY <1>4, <3>1, <3>2, <5>1
      <4>2. CASE w # V + 1
        <5>1. w \in c..V /\ w \in 1..V
          BY <1>0, <2>1, <4>2
        <5>2. changes'[w] = changes[w]
          BY <1>1, <5>1
        <5> QED
          BY <1>3, <2>1, <3>1, <3>3, <5>1, <5>2
      <4> QED
        BY <4>1, <4>2
    <3> QED
      BY <3>1, <3>2, <3>3
  <2>2. CASE c = V + 1
    <3>1. n \in list /\ changes'[c][n] = records[n].version
      BY <1>1, <2>2
    <3>2. \A w \in c..(V + 1) : w = c
      BY <1>0, <2>2
    <3>3. n \in Nodes /\ records[n].version <= records[n].version
      BY <1>4, <1>5, <3>1
    <3> QED
      BY <1>5, <3>1, <3>2, <3>3
  <2> QED
    BY <1>6, <2>1, <2>2
<1>12. ASSUME NEW n \in Nodes
       PROVE  /\ gversions'[n] \subseteq 1..(V + 1)
              /\ records[n].version > 0 => gversions'[n] # {}
              /\ \A v \in gversions'[n] : \E c \in v..(V + 1) : n \in DOMAIN changes'[c]
              /\ Exists(n)' => /\ n \in DOMAIN changes'[V + 1]
                               /\ changes'[V + 1][n] = records[n].version
  <2>1. n \in Kept(removed, new) => n \in DOMAIN changes'[V + 1]
    BY <1>1 DEF list
  <2>2. ASSUME n \in new, info[n].version # 0 PROVE V \in 1..V
    <3>1. gversions[n] # {} /\ gversions[n] \subseteq 1..V
      BY <1>0, <1>3, <2>2
    <3> QED
      BY <1>0, <3>1
  <2>3. ASSUME NEW v \in gversions'[n]
        PROVE  v \in 1..(V + 1) /\ \E c \in v..(V + 1) : n \in DOMAIN changes'[c]
    <3>1. CASE v \in gversions[n]
      <4>1. PICK c \in v..V : n \in DOMAIN changes[c]
        BY <1>3, <3>1
      <4>2. v \in 1..V /\ c \in 1..V /\ c \in v..(V + 1) /\ v \in 1..(V + 1)
        BY <1>0, <3>1
      <4>3. changes'[c] = changes[c]
        BY <1>1, <4>2
      <4> QED
        BY <4>1, <4>2, <4>3
    <3>2. CASE v = V + 1 /\ n \in Kept(removed, new)
      <4>1. v \in 1..(V + 1) /\ V + 1 \in v..(V + 1)
        BY <1>0, <3>2
      <4> QED
        BY <2>1, <3>2, <4>1
    <3>3. CASE v = V /\ n \in new /\ info[n].version # 0
      <4>1. v \in 1..(V + 1) /\ V + 1 \in v..(V + 1)
        BY <1>0, <2>2, <3>3
      <4>2. n \in Kept(removed, new)
        BY <3>3 DEF Kept
      <4> QED
        BY <2>1, <4>1, <4>2
    <3> QED
      BY <1>1, <3>1, <3>2, <3>3
  <2>4. records[n].version > 0 => gversions'[n] # {}
    <3>1. CASE info[n].version > 0
      BY <1>1, <1>3, <3>1
    <3>2. CASE n \in new
      <4>1. n \in Kept(removed, new)
        BY <3>2 DEF Kept
      <4>2. V + 1 \in gversions'[n]
        BY <1>1, <4>1
      <4> QED
        BY <4>2
    <3> QED
      BY <1>2, <3>1, <3>2
  <2>5. Exists(n)' => /\ n \in DOMAIN changes'[V + 1]
                      /\ changes'[V + 1][n] = records[n].version
    BY <1>1, <1>10, <2>1
  <2> QED
    BY <2>3, <2>4, <2>5
<1>13. ListsLead'
  BY <1>1, <1>11, <1>12 DEF ListsLead
<1> QED
  BY <1>8, <1>9, <1>10, <1>13

\* The walk back through the change list ends at the first list after v that
\* names the node.
LEMMA FirstListed ==
    ASSUME NEW L, L \subseteq Nat, L # {}
    PROVE  \E c \in L : Min(L) = c /\ \A b \in L : c <= b
<1>1. PICK c \in L : \A b \in L : c <= b
  BY Least
<1>2. c \in Int /\ \A b \in L : b \in Int /\ c <= b
  BY <1>1
<1>3. Min(L) = c
  BY <1>2, MinIs
<1> QED
  BY <1>1, <1>3

\* What PastRetained says of one transaction.
PastKept ==
    \A v \in 1..Version :
       /\ Read(v) \subseteq Read(v)'
       /\ \A n \in Nodes :
             ExistsAt(n, v)' /\ ~ExistsAt(n, v) =>
                 /\ v = Version
                 /\ Exists(n)'
                 /\ \E w \in 1..(v - 1) : ExistsAt(n, w)

LEMMA CommitKeepsPast ==
    ASSUME NEW records, NEW gvs, NEW written, NEW removed, NEW new,
           Inv, Handed(records, gvs, written, removed, new),
           Commit(records, gvs, written, removed)
    PROVE  PastKept
<1> DEFINE list == written \cup Kept(removed, new)
           V == Version
<1>0. /\ V \in Nat
      /\ \A n \in Nodes : gversions[n] \subseteq 1..V
      /\ \A n \in Nodes : info[n].version \in Nat
      /\ \A n \in Nodes : HasVersionOrHigher(gversions[n], V) <=> Exists(n)
  BY VersionsAreNumbers
<1>100. CommitResult(records, written, removed, new)
  BY CommitFacts
<1>1. /\ info' = records
      /\ Version' = V + 1
      /\ DOMAIN changes' = 1..(V + 1)
      /\ changes' \in Seq({changes'[c] : c \in DOMAIN changes'})
      /\ \A c \in 1..V : changes'[c] = changes[c]
      /\ changes'[V + 1] = [n \in list |-> records[n].version]
      /\ gversions' \in [Nodes -> SUBSET Nat]
      /\ \A n \in Nodes : \A v :
            v \in gversions'[n] <=>
               \/ v \in gversions[n]
               \/ v = V + 1 /\ n \in Kept(removed, new)
               \/ v = V /\ n \in new /\ info[n].version # 0
  BY <1>100 DEF CommitResult
<1> HIDE DEF list
<1>2. /\ \A n \in Nodes : Grown(info[n], records[n])
      /\ \A n \in new : n \in Nodes /\ ~HasVersionOrHigher(gversions[n], V)
  BY DEF Handed
<1>3. /\ \A c \in 1..V : \A n \in DOMAIN changes[c] : changes[c][n] \in 1..info[n].version
      /\ \A n \in Nodes :
            /\ info[n].version > 0 => gversions[n] # {}
            /\ \A v \in gversions[n] : \E c \in v..V : n \in DOMAIN changes[c]
            /\ V \in gversions[n] => /\ n \in DOMAIN changes[V]
                                     /\ changes[V][n] = info[n].version
  BY DEF Inv, ListsLead, Exists
<1>4. \A n \in Nodes : Exists(n)' <=> n \in Kept(removed, new)
  BY CommitKeeps
<1>5. ASSUME NEW v \in 1..V, NEW n \in Nodes, v \in gversions[n]
      PROVE  ReadNode(n, v)' = ReadNode(n, v)
  <2> DEFINE L == {c \in v..V : n \in DOMAIN changes[c]}
             L2 == {c \in v..(V + 1) : n \in DOMAIN changes'[c]}
  <2>1. L \subseteq Nat /\ L # {}
    BY <1>0, <1>3, <1>5
  <2>2. PICK c \in L : Min(L) = c /\ \A b \in L : c <= b
    <3> HIDE DEF L
    <3> QED
      BY <2>1, FirstListed
  <2>3. c \in 1..V /\ c \in v..V /\ n \in DOMAIN changes[c] /\ changes'[c] = changes[c]
    BY <1>0, <1>1
  <2>4. c \in L2 /\ L2 \subseteq Nat
    BY <1>0, <2>3
  <2>5. ASSUME NEW b \in L2 PROVE c <= b
    <3>1. CASE b = V + 1
      BY <1>0, <2>3, <3>1
    <3>2. CASE b # V + 1
      <4>1. b \in v..V /\ b \in 1..V
        BY <1>0, <3>2
      <4>2. b \in L
        BY <1>1, <4>1
      <4> QED
        BY <2>2, <4>2
    <3> QED
      BY <3>1, <3>2
  <2>6. Min(L2) = c
    <3> HIDE DEF L2
    <3>1. c \in Int /\ \A b \in L2 : b \in Int /\ c <= b
      BY <2>4, <2>5
    <3> QED
      BY <2>4, <3>1, MinIs
  <2>7. NodeVersion(n, v) = changes[c][n]
    <3>1. CASE v = V
      <4>1. c = V
        BY <1>0, <2>3, <3>1
      <4>2. changes[V][n] = info[n].version
        BY <1>3, <1>5, <3>1
      <4> QED
        BY <3>1, <4>1, <4>2 DEF NodeVersion
    <3>2. CASE v # V
      <4>1. NodeVersion(n, v) = changes[Min(L)][n]
        BY <2>1, <3>2 DEF NodeVersion
      <4> QED
        BY <2>2, <4>1
    <3> QED
      BY <3>1, <3>2
  <2>8. NodeVersion(n, v)' = changes'[c][n]
    <3>1. v # V + 1 /\ L2 # {}
      BY <1>0, <2>4
    <3>2. NodeVersion(n, v)' = changes'[Min(L2)][n]
      BY <1>1, <3>1 DEF NodeVersion
    <3> QED
      BY <2>6, <3>2
  <2> DEFINE x == changes[c][n]
  <2>9. x \in 1..info[n].version /\ NodeVersion(n, v) = x /\ NodeVersion(n, v)' = x
    BY <1>3, <2>3, <2>7, <2>8
  <2> HIDE DEF x
  <2>10. /\ \A d \in Directions : EdgesAt(records[n], d, x) = EdgesAt(info[n], d, x)
         /\ TagsAt(records[n], x) = TagsAt(info[n], x)
    BY <1>2, <2>9 DEF Grown, EdgesAt
  <2>11. "forward" \in Directions /\ "reverse" \in Directions
    BY DEF Directions
  <2>12. ReadNode(n, v) = [forward |-> EdgesAt(info[n], "forward", x),
                           reverse |-> EdgesAt(info[n], "reverse", x),
                           tags |-> TagsAt(info[n], x)]
    BY <2>9 DEF ReadNode
  <2>13. ReadNode(n, v)' = [forward |-> EdgesAt(records[n], "forward", x),
                            reverse |-> EdgesAt(records[n], "reverse", x),
                            tags |-> TagsAt(records[n], x)]
    BY <1>1, <2>9 DEF ReadNode, EdgesAt, TagsAt
  <2> QED
    BY <2>10, <2>11, <2>12, <2>13
<1>6. ASSUME NEW v \in 1..V
      PROVE  Read(v) \subseteq Read(v)'
  <2>1. ASSUME NEW n \in Nodes, v \in gversions[n]
        PROVE  v \in gversions'[n] /\ ReadNode(n, v)' = ReadNode(n, v)
    BY <1>1, <1>5, <2>1
  <2>2. Read(v) = {<<n, ReadNode(n, v)>> : n \in {m \in Nodes : v \in gversions[m]}}
    BY DEF Read, ExistsAt
  <2>3. Read(v)' = {<<n, ReadNode(n, v)'>> : n \in {m \in Nodes : v \in gversions'[m]}}
    BY DEF Read, ExistsAt
  <2> HIDE DEF V
  <2> QED
    BY <2>1, <2>2, <2>3
<1>7. ASSUME NEW v \in 1..V, NEW n \in Nodes, ExistsAt(n, v)', ~ExistsAt(n, v)
      PROVE  v = V /\ Exists(n)' /\ \E w \in 1..(v - 1) : ExistsAt(n, w)
  <2>1. v \in gversions'[n] /\ v \notin gversions[n] /\ v # V + 1
    BY <1>0, <1>7 DEF ExistsAt
  <2>2. v = V /\ n \in new /\ info[n].version # 0
    BY <1>1, <2>1
  <2>3. Exists(n)'
    BY <1>4, <2>2 DEF Kept
  <2>4. PICK w \in gversions[n] : TRUE
    BY <1>0, <1>3, <2>2
  <2>5. w \in 1..V /\ ~(w >= V)
    BY <1>0, <1>2, <2>2 DEF HasVersionOrHigher
  <2>6. w \in 1..(v - 1)
    BY <1>0, <2>2, <2>5
  <2> QED
    BY <2>2, <2>3, <2>4, <2>6 DEF ExistsAt
<1> QED
  BY <1>6, <1>7 DEF PastKept

-----------------------------------------------------------------------------
(* The transactions *)

Edge(x, d, y) == HasEdge(info[x], d, y)

Tags(x) == TagsAt(info[x], info[x].version)

\* What every transaction does.
Committed ==
    /\ TypeOK'
    /\ (\A n \in Nodes : RecordOK(info[n]))'
    /\ ListsLead'
    /\ PastKept
    /\ Version' = Version + 1

LEMMA CommitDoes ==
    ASSUME NEW records, NEW gvs, NEW written \in SUBSET Nodes, NEW removed, NEW new,
           Inv,
           records = [m \in Nodes |-> records[m]],
           \A m \in Nodes : Grown(info[m], records[m]),
           \A m \in Nodes \ written : records[m] = info[m],
           \A m \in written : Exists(m) \/ m \in new,
           new \subseteq written, new \cap removed = {},
           \A m \in new : records[m].version > 0 /\ ~Exists(m) /\ gvs[m] = Created(m),
           \A m \in Nodes \ new : gvs[m] = gversions[m],
           Commit(records, gvs, written, removed)
    PROVE  /\ Committed
           /\ \A m \in Nodes : Exists(m)' <=> m \in new \/ (Exists(m) /\ m \notin removed)
           /\ \A x \in Nodes, d \in Directions, y \in Nodes :
                 Edge(x, d, y)' <=> HasEdge(records[x], d, y)
           /\ \A x \in Nodes : Tags(x)' = TagsAt(records[x], records[x].version)
<1>0. /\ \A n \in Nodes : RecordOK(info[n]) /\ info[n].version \in Nat
      /\ \A n \in Nodes : HasVersionOrHigher(gversions[n], Version) <=> Exists(n)
      /\ \A n \in Nodes : Exists(n) => info[n].version > 0
  BY VersionsAreNumbers
<1>1. \A m \in Nodes : /\ records[m] \in Info /\ records[m].version \in Nat
                       /\ info[m].version <= records[m].version
  BY VersionIsNumber DEF Grown, RecordOK
<1>2. records \in [Nodes -> Info]
  BY <1>1
<1>3. \A n \in written : records[n].version > 0
  BY <1>0, <1>1
<1>4. \A n \in Nodes : records[n].version > 0 => info[n].version > 0 \/ n \in new
  BY <1>0, <1>1
<1>5. Handed(records, gvs, written, removed, new)
  BY <1>0, <1>2, <1>3, <1>4 DEF Handed
<1>6. /\ TypeOK'
      /\ (\A n \in Nodes : RecordOK(info[n]))'
      /\ ListsLead'
      /\ \A n \in Nodes : Exists(n)' <=> n \in Kept(removed, new)
  BY <1>5, CommitKeeps
<1>7. PastKept
  BY <1>5, CommitKeepsPast
<1>100. CommitResult(records, written, removed, new)
  BY <1>5, CommitFacts
<1>8. info' = records /\ Version' = Version + 1
  BY <1>100 DEF CommitResult
<1>9. \A m \in Nodes : Exists(m)' <=> m \in new \/ (Exists(m) /\ m \notin removed)
  BY <1>6 DEF Kept
<1>10. /\ \A x \in Nodes, d \in Directions, y \in Nodes :
             Edge(x, d, y)' <=> HasEdge(records[x], d, y)
       /\ \A x \in Nodes : Tags(x)' = TagsAt(records[x], records[x].version)
  BY <1>8 DEF Edge, Tags, HasEdge, TagsAt
<1> QED
  BY <1>6, <1>7, <1>8, <1>9, <1>10 DEF Committed

\* A transaction that creates no node, and one that creates n.
LEMMA CommitExisting ==
    ASSUME NEW records, NEW written \in SUBSET Nodes, NEW removed,
           Inv,
           records = [m \in Nodes |-> records[m]],
           \A m \in Nodes : Grown(info[m], records[m]),
           \A m \in Nodes \ written : records[m] = info[m],
           \A m \in written : Exists(m),
           Commit(records, gversions, written, removed)
    PROVE  /\ Committed
           /\ \A m \in Nodes : Exists(m)' <=> Exists(m) /\ m \notin removed
           /\ \A x \in Nodes, d \in Directions, y \in Nodes :
                 Edge(x, d, y)' <=> HasEdge(records[x], d, y)
           /\ \A x \in Nodes : Tags(x)' = TagsAt(records[x], records[x].version)
<1> DEFINE none == {}
<1>1. /\ \A m \in written : Exists(m) \/ m \in none
      /\ none \subseteq written /\ none \cap removed = {}
      /\ \A m \in none : records[m].version > 0 /\ ~Exists(m) /\ gversions[m] = Created(m)
      /\ \A m \in Nodes \ none : gversions[m] = gversions[m]
  OBVIOUS
<1> HIDE DEF none
<1>2. /\ Committed
      /\ \A m \in Nodes : Exists(m)' <=> m \in none \/ (Exists(m) /\ m \notin removed)
      /\ \A x \in Nodes, d \in Directions, y \in Nodes :
            Edge(x, d, y)' <=> HasEdge(records[x], d, y)
      /\ \A x \in Nodes : Tags(x)' = TagsAt(records[x], records[x].version)
  BY <1>1, CommitDoes
<1> QED
  BY <1>2 DEF none

LEMMA CommitNew ==
    ASSUME NEW records, NEW written \in SUBSET Nodes, NEW n \in written,
           Inv, ~Exists(n),
           records = [m \in Nodes |-> records[m]],
           \A m \in Nodes : Grown(info[m], records[m]),
           \A m \in Nodes \ written : records[m] = info[m],
           \A m \in written \ {n} : Exists(m),
           records[n].version > 0,
           Commit(records, [gversions EXCEPT ![n] = Created(n)], written, {})
    PROVE  /\ Committed
           /\ \A m \in Nodes : Exists(m)' <=> Exists(m) \/ m = n
           /\ \A x \in Nodes, d \in Directions, y \in Nodes :
                 Edge(x, d, y)' <=> HasEdge(records[x], d, y)
           /\ \A x \in Nodes : Tags(x)' = TagsAt(records[x], records[x].version)
<1> DEFINE new == {n}
           none == {}
           gvs == [gversions EXCEPT ![n] = Created(n)]
<1>0. gversions \in [Nodes -> SUBSET Nat]
  BY DEF Inv, TypeOK
<1>1. /\ \A m \in written : Exists(m) \/ m \in new
      /\ new \subseteq written /\ new \cap none = {}
      /\ \A m \in new : records[m].version > 0 /\ ~Exists(m) /\ gvs[m] = Created(m)
      /\ \A m \in Nodes \ new : gvs[m] = gversions[m]
      /\ Commit(records, gvs, written, none)
  BY <1>0
<1> HIDE DEF none, new, gvs
<1>2. /\ Committed
      /\ \A m \in Nodes : Exists(m)' <=> m \in new \/ (Exists(m) /\ m \notin none)
      /\ \A x \in Nodes, d \in Directions, y \in Nodes :
            Edge(x, d, y)' <=> HasEdge(records[x], d, y)
      /\ \A x \in Nodes : Tags(x)' = TagsAt(records[x], records[x].version)
  BY <1>1, CommitDoes
<1> QED
  BY <1>2 DEF none, new

\* Two nodes that exist: who is at the end of an edge.
LEMMA EndsExist ==
    ASSUME Inv, NEW x \in Nodes, NEW y \in Nodes, x # y
    PROVE  /\ Edge(x, "forward", y) <=> Edge(y, "reverse", x)
           /\ Edge(x, "forward", y) => Exists(x) /\ Exists(y)
  BY DEF Inv, EdgesAgree, Edge

LEMMA CreateDoes ==
    ASSUME Inv, NEW n \in Nodes, Create(n)
    PROVE  /\ Committed
           /\ ~Exists(n)
           /\ \A m \in Nodes : Exists(m)' <=> Exists(m) \/ m = n
           /\ \A x \in Nodes, d \in Directions, y \in Nodes : Edge(x, d, y)' <=> Edge(x, d, y)
           /\ \A x \in Nodes : Tags(x)' = Tags(x)
<1> DEFINE records == [info EXCEPT ![n] = Carry(info[n])]
           gvs == [gversions EXCEPT ![n] = Created(n)]
<1>0. /\ \A m \in Nodes : RecordOK(info[m]) /\ info[m].version \in Nat
      /\ HasVersionOrHigher(gversions[n], Version) <=> Exists(n)
      /\ info \in [Nodes -> Info] /\ gversions \in [Nodes -> SUBSET Nat]
  BY VersionsAreNumbers DEF Inv, TypeOK
<1>1. ~Exists(n) /\ Commit(records, gvs, {n}, {})
  BY <1>0 DEF Create
<1>2. /\ records = [m \in Nodes |-> records[m]]
      /\ \A m \in Nodes : records[m] = IF m = n THEN Carry(info[n]) ELSE info[m]
      /\ \A m \in Nodes : gvs[m] = IF m = n THEN Created(n) ELSE gversions[m]
  BY <1>0
<1>3. /\ Grown(info[n], Carry(info[n])) /\ SameTags(info[n], Carry(info[n]))
      /\ Carry(info[n]).version = info[n].version + 1
      /\ \A d \in Directions, m \in Nodes : HasEdge(Carry(info[n]), d, m) <=> HasEdge(info[n], d, m)
  BY <1>0, CarryEffect
<1> HIDE DEF records, gvs
<1>4. \A m \in Nodes : /\ Grown(info[m], records[m]) /\ SameTags(info[m], records[m])
                       /\ \A d \in Directions, y \in Nodes :
                             HasEdge(records[m], d, y) <=> HasEdge(info[m], d, y)
  BY <1>0, <1>2, <1>3, GrownByItself
<1>5. records[n].version > 0
  BY <1>0, <1>2, <1>3
<1>6. /\ Committed
      /\ \A m \in Nodes : Exists(m)' <=> Exists(m) \/ m = n
      /\ \A x \in Nodes, d \in Directions, y \in Nodes :
            Edge(x, d, y)' <=> HasEdge(records[x], d, y)
      /\ \A x \in Nodes : Tags(x)' = TagsAt(records[x], records[x].version)
  <2> DEFINE written == {n}
  <2>1. /\ written \in SUBSET Nodes /\ n \in written
        /\ \A m \in Nodes \ written : records[m] = info[m]
        /\ \A m \in written \ {n} : Exists(m)
        /\ records = [m \in Nodes |-> records[m]]
    BY <1>2
  <2>2. \A m \in Nodes : Grown(info[m], records[m])
    BY <1>4
  <2>3. Commit(records, [gversions EXCEPT ![n] = Created(n)], written, {})
    BY <1>1 DEF gvs
  <2> HIDE DEF written
  <2> QED
    BY <1>1, <1>5, <2>1, <2>2, <2>3, CommitNew
<1> QED
  BY <1>1, <1>4, <1>6 DEF Edge, Tags, SameTags

LEMMA KeyChangeDoes ==
    ASSUME Inv, NEW n \in Nodes, NEW c, Exists(n), Grown(info[n], c),
           \A d \in Directions, m \in Nodes : HasEdge(c, d, m) <=> HasEdge(info[n], d, m),
           Commit([info EXCEPT ![n] = c], gversions, {n}, {})
    PROVE  /\ Committed
           /\ \A m \in Nodes : Exists(m)' <=> Exists(m)
           /\ \A x \in Nodes, d \in Directions, y \in Nodes : Edge(x, d, y)' <=> Edge(x, d, y)
           /\ \A x \in Nodes : Tags(x)' = IF x = n THEN TagsAt(c, c.version) ELSE Tags(x)
<1> DEFINE records == [info EXCEPT ![n] = c]
<1>0. /\ \A m \in Nodes : RecordOK(info[m])
      /\ info \in [Nodes -> Info]
  BY VersionsAreNumbers DEF Inv, TypeOK
<1>1. Commit(records, gversions, {n}, {})
  OBVIOUS
<1>2. /\ records = [m \in Nodes |-> records[m]]
      /\ \A m \in Nodes : records[m] = IF m = n THEN c ELSE info[m]
  BY <1>0
<1> HIDE DEF records
<1>3. \A m \in Nodes : /\ Grown(info[m], records[m])
                       /\ \A d \in Directions, y \in Nodes :
                             HasEdge(records[m], d, y) <=> HasEdge(info[m], d, y)
  BY <1>0, <1>2, GrownByItself
<1>4. /\ Committed
      /\ \A m \in Nodes : Exists(m)' <=> Exists(m)
      /\ \A x \in Nodes, d \in Directions, y \in Nodes :
            Edge(x, d, y)' <=> HasEdge(records[x], d, y)
      /\ \A x \in Nodes : Tags(x)' = TagsAt(records[x], records[x].version)
  <2> DEFINE written == {n}
             none == {}
  <2>1. /\ written \in SUBSET Nodes
        /\ \A m \in Nodes \ written : records[m] = info[m]
        /\ \A m \in written : Exists(m)
        /\ records = [m \in Nodes |-> records[m]]
    BY <1>2
  <2>2. \A m \in Nodes : Grown(info[m], records[m])
    BY <1>3
  <2>3. Commit(records, gversions, written, none)
    BY <1>1
  <2> HIDE DEF written, none
  <2>4. /\ Committed
        /\ \A m \in Nodes : Exists(m)' <=> Exists(m) /\ m \notin none
        /\ \A x \in Nodes, d \in Directions, y \in Nodes :
              Edge(x, d, y)' <=> HasEdge(records[x], d, y)
        /\ \A x \in Nodes : Tags(x)' = TagsAt(records[x], records[x].version)
    BY <2>1, <2>2, <2>3, CommitExisting
  <2> QED
    BY <2>4 DEF none
<1> QED
  BY <1>2, <1>3, <1>4 DEF Edge, Tags

LEMMA RemoveKeyDoes ==
    ASSUME Inv, NEW n \in Nodes, NEW k \in Keys, RemoveKey(n, k)
    PROVE  /\ Committed
           /\ Exists(n) /\ \E t \in Tags(n) : t[1] = k
           /\ \A m \in Nodes : Exists(m)' <=> Exists(m)
           /\ \A x \in Nodes, d \in Directions, y \in Nodes : Edge(x, d, y)' <=> Edge(x, d, y)
           /\ \A x \in Nodes : Tags(x)' = IF x = n THEN {t \in Tags(n) : t[1] # k} ELSE Tags(x)
<1> DEFINE c == DeleteTag(info[n], k)
<1>0. RecordOK(info[n])
  BY VersionsAreNumbers
<1>1. /\ Exists(n) /\ HasKey(info[n], k)
      /\ Commit([info EXCEPT ![n] = c], gversions, {n}, {})
  BY DEF RemoveKey
<1>2. /\ Grown(info[n], c)
      /\ \A d \in Directions, m \in Nodes : HasEdge(c, d, m) <=> HasEdge(info[n], d, m)
      /\ TagsAt(c, c.version) = {t \in Tags(n) : t[1] # k}
  BY <1>0, <1>1, DeleteTagEffect DEF Tags
<1>3. \E t \in Tags(n) : t[1] = k
  BY <1>0, <1>1, KeyIsTag DEF Tags
<1> HIDE DEF c
<1>4. /\ Committed
      /\ \A m \in Nodes : Exists(m)' <=> Exists(m)
      /\ \A x \in Nodes, d \in Directions, y \in Nodes : Edge(x, d, y)' <=> Edge(x, d, y)
      /\ \A x \in Nodes : Tags(x)' = IF x = n THEN TagsAt(c, c.version) ELSE Tags(x)
  BY <1>1, <1>2, KeyChangeDoes
<1> QED
  BY <1>1, <1>2, <1>3, <1>4

LEMMA UpdateKeyDoes ==
    ASSUME Inv, NEW n \in Nodes, NEW k \in Keys, NEW v \in Values, UpdateKey(n, k, v)
    PROVE  /\ Committed
           /\ Exists(n)
           /\ \A m \in Nodes : Exists(m)' <=> Exists(m)
           /\ \A x \in Nodes, d \in Directions, y \in Nodes : Edge(x, d, y)' <=> Edge(x, d, y)
           /\ \E vals \in SUBSET Values :
                 /\ <<k, vals>> \notin Tags(n)
                 /\ \A x \in Nodes :
                       Tags(x)' = IF x = n THEN {t \in Tags(n) : t[1] # k} \cup {<<k, vals>>}
                                  ELSE Tags(x)
<1>0. RecordOK(info[n])
  BY VersionsAreNumbers
<1>1. PICK vals \in {Tagged(n, k) \cup {v}, Tagged(n, k) \ {v}} \ {Tagged(n, k)} :
         Commit([info EXCEPT ![n] = UpdateTag(@, k, vals)], gversions, {n}, {})
  BY DEF UpdateKey
<1>2. Exists(n)
  BY DEF UpdateKey
<1>3. \A t \in Tags(n) : t[1] \in Keys /\ t[2] \subseteq Values
  <2> TAKE t \in Tags(n)
  <2>1. PICK i \in DOMAIN info[n].keys : t = TagOf(info[n].keys[i], info[n].keys[i].key_version)
    BY <1>0, CurrentTags DEF Tags
  <2>2. info[n].keys[i].key \in Keys
    <3>1. info[n].keys[i] \in KeyValue
      BY <1>0, InfoFields DEF RecordOK
    <3> QED
      BY <3>1 DEF KeyValue
  <2> QED
    BY <2>1, <2>2 DEF TagOf
<1>4. vals \in SUBSET Values
  BY <1>3 DEF Tagged, Tags
\* A key is at most once among the tags, so the list that differs from the
\* current one is no tag.
<1>5. <<k, vals>> \notin Tags(n)
  <2> SUFFICES ASSUME <<k, vals>> \in Tags(n) PROVE FALSE
    OBVIOUS
  <2>1. ASSUME NEW t \in Tags(n), t[1] = k PROVE t = <<k, vals>>
    <3>1. PICK i \in DOMAIN info[n].keys : t = TagOf(info[n].keys[i], info[n].keys[i].key_version)
      BY <1>0, CurrentTags DEF Tags
    <3>2. PICK j \in DOMAIN info[n].keys :
             <<k, vals>> = TagOf(info[n].keys[j], info[n].keys[j].key_version)
      BY <1>0, CurrentTags DEF Tags
    <3>3. info[n].keys[i].key = info[n].keys[j].key
      BY <2>1, <3>1, <3>2 DEF TagOf
    <3>4. i = j
      BY <1>0, <3>3 DEF RecordOK
    <3> QED
      BY <3>1, <3>2, <3>4
  <2>2. {x \in Tags(n) : x[1] = k} = {<<k, vals>>}
    BY <2>1
  <2>3. Tagged(n, k) = UNION {t[2] : t \in {<<k, vals>>}}
    BY <2>2 DEF Tagged, Tags
  <2>4. Tagged(n, k) = vals
    BY <2>3
  <2> QED
    BY <1>1, <2>4
<1> DEFINE c == UpdateTag(info[n], k, vals)
<1>6. /\ Grown(info[n], c)
      /\ \A d \in Directions, m \in Nodes : HasEdge(c, d, m) <=> HasEdge(info[n], d, m)
      /\ TagsAt(c, c.version) = {t \in Tags(n) : t[1] # k} \cup {<<k, vals>>}
  BY <1>0, <1>4, UpdateTagEffect DEF Tags
<1>7. Commit([info EXCEPT ![n] = c], gversions, {n}, {})
  BY <1>1
<1> HIDE DEF c
<1>8. /\ Committed
      /\ \A m \in Nodes : Exists(m)' <=> Exists(m)
      /\ \A x \in Nodes, d \in Directions, y \in Nodes : Edge(x, d, y)' <=> Edge(x, d, y)
      /\ \A x \in Nodes : Tags(x)' = IF x = n THEN TagsAt(c, c.version) ELSE Tags(x)
  BY <1>2, <1>6, <1>7, KeyChangeDoes
<1>9. \A x \in Nodes : Tags(x)' = IF x = n THEN {t \in Tags(n) : t[1] # k} \cup {<<k, vals>>}
                                  ELSE Tags(x)
  BY <1>6, <1>8
<1> QED
  BY <1>2, <1>4, <1>5, <1>8, <1>9

\* Both ends of an edge between two nodes, written one after the other.
LEMMA LinkedEffect ==
    ASSUME NEW rs \in [Nodes -> Info], \A m \in Nodes : RecordOK(rs[m]),
           NEW p \in Nodes, NEW n \in Nodes, p # n
    PROVE  LET c == Linked(rs, p, n)
           IN  /\ c = [m \in Nodes |-> c[m]]
               /\ \A m \in Nodes \ {p, n} : c[m] = rs[m]
               /\ \A m \in Nodes : Grown(rs[m], c[m])
               /\ \A m \in Nodes : SameTags(rs[m], c[m])
               /\ \A x \in Nodes, d \in Directions, y \in Nodes :
                     HasEdge(c[x], d, y) <=> \/ HasEdge(rs[x], d, y)
                                             \/ x = p /\ d = "forward" /\ y = n
                                             \/ x = n /\ d = "reverse" /\ y = p
<1> DEFINE a == AddEdge(rs[p], "forward", n)
           b == IF HasEdge(rs[n], "reverse", p) THEN rs[n] ELSE AddEdge(rs[n], "reverse", p)
           c == Linked(rs, p, n)
<1>0. "forward" \in Directions /\ "reverse" \in Directions
  BY DEF Directions
<1>1. /\ c = [m \in Nodes |-> c[m]]
      /\ \A m \in Nodes \ {p, n} : c[m] = rs[m]
      /\ c[p] = a /\ c[n] = b
  BY DEF Linked
<1>2. /\ Grown(rs[p], a) /\ SameTags(rs[p], a)
      /\ \A d \in Directions, y \in Nodes :
            HasEdge(a, d, y) <=> HasEdge(rs[p], d, y) \/ (d = "forward" /\ y = n)
  BY <1>0, AddEdgeEffect
<1>3. /\ Grown(rs[n], b) /\ SameTags(rs[n], b)
      /\ \A d \in Directions, y \in Nodes :
            HasEdge(b, d, y) <=> HasEdge(rs[n], d, y) \/ (d = "reverse" /\ y = p)
  <2>1. CASE HasEdge(rs[n], "reverse", p)
    <3>1. b = rs[n]
      BY <2>1
    <3> HIDE DEF b
    <3> QED
      BY <2>1, <3>1, GrownByItself
  <2>2. CASE ~HasEdge(rs[n], "reverse", p)
    <3>1. b = AddEdge(rs[n], "reverse", p)
      BY <2>2
    <3> HIDE DEF b
    <3> QED
      BY <1>0, <3>1, AddEdgeEffect
  <2> QED
    BY <2>1, <2>2
<1> HIDE DEF a, b, c
<1>4. \A m \in Nodes \ {p, n} : Grown(rs[m], c[m]) /\ SameTags(rs[m], c[m])
  BY <1>1, GrownByItself
<1>5. \A m \in Nodes : Grown(rs[m], c[m]) /\ SameTags(rs[m], c[m])
  BY <1>1, <1>2, <1>3, <1>4
<1>6. ASSUME NEW x \in Nodes, NEW d \in Directions, NEW y \in Nodes
      PROVE  HasEdge(c[x], d, y) <=> \/ HasEdge(rs[x], d, y)
                                     \/ x = p /\ d = "forward" /\ y = n
                                     \/ x = n /\ d = "reverse" /\ y = p
  <2>1. CASE x = p
    BY <1>1, <1>2, <2>1
  <2>2. CASE x = n
    BY <1>1, <1>3, <2>2
  <2>3. CASE x \notin {p, n}
    BY <1>1, <2>3
  <2> QED
    BY <2>1, <2>2, <2>3
<1>7. /\ c = [m \in Nodes |-> c[m]]
      /\ \A m \in Nodes \ {p, n} : c[m] = rs[m]
      /\ \A m \in Nodes : Grown(rs[m], c[m])
      /\ \A m \in Nodes : SameTags(rs[m], c[m])
      /\ \A x \in Nodes, d \in Directions, y \in Nodes :
            HasEdge(c[x], d, y) <=> \/ HasEdge(rs[x], d, y)
                                    \/ x = p /\ d = "forward" /\ y = n
                                    \/ x = n /\ d = "reverse" /\ y = p
  BY <1>1, <1>5, <1>6
<1> QED
  BY <1>7 DEF c

\* A node linked to itself: the second write does not see the first, and one
\* end is added.
LEMMA LinkedLoop ==
    ASSUME NEW rs \in [Nodes -> Info], \A m \in Nodes : RecordOK(rs[m]),
           NEW n \in Nodes, ~HasEdge(rs[n], "forward", n)
    PROVE  \E d \in Directions :
              /\ ~HasEdge(rs[n], d, n)
              /\ Linked(rs, n, n) = [rs EXCEPT ![n] = AddEdge(rs[n], d, n)]
<1>0. "forward" \in Directions /\ "reverse" \in Directions
  BY DEF Directions
<1>1. CASE HasEdge(rs[n], "reverse", n)
  <2>1. Linked(rs, n, n) = [rs EXCEPT ![n] = AddEdge(rs[n], "forward", n)]
    BY <1>1 DEF Linked
  <2> QED
    BY <1>0, <2>1
<1>2. CASE ~HasEdge(rs[n], "reverse", n)
  <2>1. Linked(rs, n, n) = [rs EXCEPT ![n] = AddEdge(rs[n], "reverse", n)]
    BY <1>2 DEF Linked
  <2> QED
    BY <1>0, <1>2, <2>1
<1> QED
  BY <1>1, <1>2

LEMMA UnlinkedEffect ==
    ASSUME NEW rs \in [Nodes -> Info], \A m \in Nodes : RecordOK(rs[m]),
           NEW p \in Nodes, NEW n \in Nodes, p # n,
           HasEdge(rs[p], "forward", n), HasEdge(rs[n], "reverse", p)
    PROVE  LET c == Unlinked(rs, p, n)
           IN  /\ c = [m \in Nodes |-> c[m]]
               /\ \A m \in Nodes \ {p, n} : c[m] = rs[m]
               /\ \A m \in Nodes : Grown(rs[m], c[m])
               /\ \A m \in Nodes : SameTags(rs[m], c[m])
               /\ \A x \in Nodes, d \in Directions, y \in Nodes :
                     HasEdge(c[x], d, y) <=> /\ HasEdge(rs[x], d, y)
                                             /\ ~(x = p /\ d = "forward" /\ y = n)
                                             /\ ~(x = n /\ d = "reverse" /\ y = p)
<1> DEFINE a == RemoveEdge(rs[p], "forward", n)
           b == RemoveEdge(rs[n], "reverse", p)
           c == Unlinked(rs, p, n)
<1>0. "forward" \in Directions /\ "reverse" \in Directions
  BY DEF Directions
<1>1. /\ c = [m \in Nodes |-> c[m]]
      /\ \A m \in Nodes \ {p, n} : c[m] = rs[m]
      /\ c[p] = a /\ c[n] = b
  BY DEF Unlinked
<1>2. /\ Grown(rs[p], a) /\ SameTags(rs[p], a)
      /\ \A d \in Directions, y \in Nodes :
            HasEdge(a, d, y) <=> HasEdge(rs[p], d, y) /\ ~(d = "forward" /\ y = n)
  BY <1>0, RemoveEdgeEffect
<1>3. /\ Grown(rs[n], b) /\ SameTags(rs[n], b)
      /\ \A d \in Directions, y \in Nodes :
            HasEdge(b, d, y) <=> HasEdge(rs[n], d, y) /\ ~(d = "reverse" /\ y = p)
  BY <1>0, RemoveEdgeEffect
<1> HIDE DEF a, b, c
<1>4. \A m \in Nodes \ {p, n} : Grown(rs[m], c[m]) /\ SameTags(rs[m], c[m])
  BY <1>1, GrownByItself
<1>5. \A m \in Nodes : Grown(rs[m], c[m]) /\ SameTags(rs[m], c[m])
  BY <1>1, <1>2, <1>3, <1>4
<1>6. ASSUME NEW x \in Nodes, NEW d \in Directions, NEW y \in Nodes
      PROVE  HasEdge(c[x], d, y) <=> /\ HasEdge(rs[x], d, y)
                                     /\ ~(x = p /\ d = "forward" /\ y = n)
                                     /\ ~(x = n /\ d = "reverse" /\ y = p)
  <2>1. CASE x = p
    BY <1>1, <1>2, <2>1
  <2>2. CASE x = n
    BY <1>1, <1>3, <2>2
  <2>3. CASE x \notin {p, n}
    BY <1>1, <2>3
  <2> QED
    BY <2>1, <2>2, <2>3
<1>7. /\ c = [m \in Nodes |-> c[m]]
      /\ \A m \in Nodes \ {p, n} : c[m] = rs[m]
      /\ \A m \in Nodes : Grown(rs[m], c[m])
      /\ \A m \in Nodes : SameTags(rs[m], c[m])
      /\ \A x \in Nodes, d \in Directions, y \in Nodes :
            HasEdge(c[x], d, y) <=> /\ HasEdge(rs[x], d, y)
                                    /\ ~(x = p /\ d = "forward" /\ y = n)
                                    /\ ~(x = n /\ d = "reverse" /\ y = p)
  BY <1>1, <1>5, <1>6
<1> QED
  BY <1>7 DEF c

LEMMA UnlinkedLoop ==
    ASSUME NEW rs \in [Nodes -> Info], \A m \in Nodes : RecordOK(rs[m]),
           NEW n \in Nodes, HasEdge(rs[n], "forward", n)
    PROVE  \E d \in Directions :
              /\ HasEdge(rs[n], d, n)
              /\ Unlinked(rs, n, n) = [rs EXCEPT ![n] = RemoveEdge(rs[n], d, n)]
<1>0. "forward" \in Directions /\ "reverse" \in Directions
  BY DEF Directions
<1>1. CASE HasEdge(rs[n], "reverse", n)
  <2>1. Unlinked(rs, n, n) = [rs EXCEPT ![n] = RemoveEdge(rs[n], "reverse", n)]
    BY <1>1 DEF Unlinked
  <2> QED
    BY <1>0, <1>1, <2>1
<1>2. CASE ~HasEdge(rs[n], "reverse", n)
  <2>1. Unlinked(rs, n, n) = [rs EXCEPT ![n] = RemoveEdge(rs[n], "forward", n)]
    BY <1>2 DEF Unlinked
  <2> QED
    BY <1>0, <2>1
<1> QED
  BY <1>1, <1>2

\* One end of a loop changed, and nothing else.
LEMMA LoopChangeDoes ==
    ASSUME Inv, NEW n \in Nodes, NEW c, NEW d \in Directions, Exists(n),
           Grown(info[n], c), SameTags(info[n], c),
           \A d2 \in Directions, m \in Nodes :
              ~(d2 = d /\ m = n) => (HasEdge(c, d2, m) <=> HasEdge(info[n], d2, m)),
           HasEdge(c, d, n) <=> ~HasEdge(info[n], d, n),
           Commit([info EXCEPT ![n] = c], gversions, {n, n}, {})
    PROVE  /\ Committed
           /\ \A m \in Nodes : Exists(m)' <=> Exists(m)
           /\ \A x \in Nodes, d2 \in Directions, y \in Nodes :
                 ~(x = n /\ d2 = d /\ y = n) => (Edge(x, d2, y)' <=> Edge(x, d2, y))
           /\ Edge(n, d, n)' <=> ~Edge(n, d, n)
           /\ \A x \in Nodes : Tags(x)' = Tags(x)
<1> DEFINE records == [info EXCEPT ![n] = c]
           written == {n, n}
           none == {}
<1>0. /\ \A m \in Nodes : RecordOK(info[m])
      /\ info \in [Nodes -> Info]
  BY VersionsAreNumbers DEF Inv, TypeOK
<1>1. /\ records = [m \in Nodes |-> records[m]]
      /\ \A m \in Nodes : records[m] = IF m = n THEN c ELSE info[m]
  BY <1>0
<1>2. /\ written \in SUBSET Nodes
      /\ \A m \in Nodes \ written : records[m] = info[m]
      /\ \A m \in written : Exists(m)
      /\ Commit(records, gversions, written, none)
  BY <1>0
<1> HIDE DEF records, written, none
<1>3. \A m \in Nodes : Grown(info[m], records[m])
  BY <1>0, <1>1, GrownByItself
<1>4. \A m \in Nodes : SameTags(info[m], records[m])
  BY <1>0, <1>1, GrownByItself
<1>5. /\ Committed
      /\ \A m \in Nodes : Exists(m)' <=> Exists(m) /\ m \notin none
      /\ \A x \in Nodes, d2 \in Directions, y \in Nodes :
            Edge(x, d2, y)' <=> HasEdge(records[x], d2, y)
      /\ \A x \in Nodes : Tags(x)' = TagsAt(records[x], records[x].version)
  BY <1>1, <1>2, <1>3, CommitExisting
<1>6. \A x \in Nodes : Tags(x)' = Tags(x)
  BY <1>4, <1>5 DEF SameTags, Tags
<1>7. \A x \in Nodes, d2 \in Directions, y \in Nodes :
         ~(x = n /\ d2 = d /\ y = n) => (Edge(x, d2, y)' <=> Edge(x, d2, y))
  BY <1>1, <1>5 DEF Edge
<1>8. Edge(n, d, n)' <=> ~Edge(n, d, n)
  BY <1>1, <1>5 DEF Edge
<1> QED
  BY <1>5, <1>6, <1>7, <1>8 DEF none

\* One end of a loop changes, and no other edge.
LoopChanges(n) ==
    \E d \in Directions :
       /\ \A x \in Nodes, d2 \in Directions, y \in Nodes :
             ~(x = n /\ d2 = d /\ y = n) => (Edge(x, d2, y)' <=> Edge(x, d2, y))
       /\ Edge(n, d, n)' <=> ~Edge(n, d, n)

EdgeAdded(p, n) ==
    \A x \in Nodes, d \in Directions, y \in Nodes :
       Edge(x, d, y)' <=> \/ Edge(x, d, y)
                          \/ x = p /\ d = "forward" /\ y = n
                          \/ x = n /\ d = "reverse" /\ y = p

EdgeRemoved(p, n) ==
    \A x \in Nodes, d \in Directions, y \in Nodes :
       Edge(x, d, y)' <=> /\ Edge(x, d, y)
                          /\ ~(x = p /\ d = "forward" /\ y = n)
                          /\ ~(x = n /\ d = "reverse" /\ y = p)

LEMMA AddChildDoes ==
    ASSUME Inv, NEW p \in Nodes, NEW n \in Nodes, AddChild(p, n)
    PROVE  /\ Committed
           /\ Exists(p)
           /\ \A m \in Nodes : Exists(m)' <=> Exists(m) \/ m = n
           /\ p # n => ~Edge(p, "forward", n) /\ EdgeAdded(p, n)
           /\ p = n => LoopChanges(n)
           /\ \A x \in Nodes : Tags(x)' = Tags(x)
<1>0. /\ \A m \in Nodes : RecordOK(info[m]) /\ info[m].version \in Nat
      /\ \A m \in Nodes : HasVersionOrHigher(gversions[m], Version) <=> Exists(m)
      /\ info \in [Nodes -> Info]
      /\ Exists(p)
  BY VersionsAreNumbers DEF Inv, TypeOK, AddChild
<1>1. CASE /\ Exists(n) /\ ~HasEdge(info[p], "forward", n)
           /\ Commit(Linked(info, p, n), gversions, {p, n}, {})
  <2>1. CASE p = n
    <3>1. PICK d \in Directions :
              /\ ~HasEdge(info[n], d, n)
              /\ Linked(info, n, n) = [info EXCEPT ![n] = AddEdge(info[n], d, n)]
      BY <1>0, <1>1, <2>1, LinkedLoop
    <3> DEFINE c == AddEdge(info[n], d, n)
    <3>2. /\ Grown(info[n], c) /\ SameTags(info[n], c)
          /\ \A d2 \in Directions, m \in Nodes :
                HasEdge(c, d2, m) <=> HasEdge(info[n], d2, m) \/ (d2 = d /\ m = n)
      BY <1>0, AddEdgeEffect
    <3>3. Commit([info EXCEPT ![n] = c], gversions, {n, n}, {})
      BY <1>1, <2>1, <3>1
    <3> HIDE DEF c
    <3>4. /\ \A d2 \in Directions, m \in Nodes :
                ~(d2 = d /\ m = n) => (HasEdge(c, d2, m) <=> HasEdge(info[n], d2, m))
          /\ HasEdge(c, d, n) <=> ~HasEdge(info[n], d, n)
      BY <3>1, <3>2
    <3>5. /\ Committed
          /\ \A m \in Nodes : Exists(m)' <=> Exists(m)
          /\ \A x \in Nodes, d2 \in Directions, y \in Nodes :
                ~(x = n /\ d2 = d /\ y = n) => (Edge(x, d2, y)' <=> Edge(x, d2, y))
          /\ Edge(n, d, n)' <=> ~Edge(n, d, n)
          /\ \A x \in Nodes : Tags(x)' = Tags(x)
      BY <1>1, <3>2, <3>3, <3>4, LoopChangeDoes
    <3>6. LoopChanges(n)
      BY <3>5 DEF LoopChanges
    <3> QED
      BY <1>0, <1>1, <2>1, <3>5, <3>6
  <2>2. CASE p # n
    <3> DEFINE records == Linked(info, p, n)
               written == {p, n}
               none == {}
    <3>1. /\ records = [m \in Nodes |-> records[m]]
          /\ \A m \in Nodes \ {p, n} : records[m] = info[m]
          /\ \A m \in Nodes : Grown(info[m], records[m])
          /\ \A m \in Nodes : SameTags(info[m], records[m])
          /\ \A x \in Nodes, d \in Directions, y \in Nodes :
                HasEdge(records[x], d, y) <=> \/ HasEdge(info[x], d, y)
                                              \/ x = p /\ d = "forward" /\ y = n
                                              \/ x = n /\ d = "reverse" /\ y = p
      BY <1>0, <2>2, LinkedEffect
    <3>2. /\ written \in SUBSET Nodes
          /\ \A m \in Nodes \ written : records[m] = info[m]
          /\ \A m \in written : Exists(m)
          /\ Commit(records, gversions, written, none)
      BY <1>0, <1>1, <3>1
    <3> HIDE DEF records, written, none
    <3>3. /\ Committed
          /\ \A m \in Nodes : Exists(m)' <=> Exists(m) /\ m \notin none
          /\ \A x \in Nodes, d \in Directions, y \in Nodes :
                Edge(x, d, y)' <=> HasEdge(records[x], d, y)
          /\ \A x \in Nodes : Tags(x)' = TagsAt(records[x], records[x].version)
      BY <3>1, <3>2, CommitExisting
    <3>4. \A x \in Nodes : Tags(x)' = Tags(x)
      BY <3>1, <3>3 DEF SameTags, Tags
    <3>5. ~Edge(p, "forward", n) /\ EdgeAdded(p, n)
      BY <1>1, <3>1, <3>3 DEF EdgeAdded, Edge
    <3> QED
      BY <1>0, <1>1, <2>2, <3>3, <3>4, <3>5 DEF none
  <2> QED
    BY <2>1, <2>2
<1>2. CASE /\ ~Exists(n)
           /\ Commit(Linked([info EXCEPT ![n] = Carry(@)], p, n),
                     [gversions EXCEPT ![n] = Created(n)], {p, n}, {})
  <2>0. p # n
    BY <1>0, <1>2
  <2> DEFINE rs == [info EXCEPT ![n] = Carry(info[n])]
             records == Linked(rs, p, n)
             written == {p, n}
  <2>1. /\ Grown(info[n], Carry(info[n])) /\ SameTags(info[n], Carry(info[n]))
        /\ Carry(info[n]).version = info[n].version + 1
        /\ \A d \in Directions, m \in Nodes :
              HasEdge(Carry(info[n]), d, m) <=> HasEdge(info[n], d, m)
    BY <1>0, CarryEffect
  <2>2. \A m \in Nodes : rs[m] = IF m = n THEN Carry(info[n]) ELSE info[m]
    BY <1>0
  <2>3. \A m \in Nodes : /\ Grown(info[m], rs[m]) /\ SameTags(info[m], rs[m])
                         /\ \A d \in Directions, y \in Nodes :
                               HasEdge(rs[m], d, y) <=> HasEdge(info[m], d, y)
    <3> HIDE DEF rs
    <3> QED
      BY <1>0, <2>1, <2>2, GrownByItself
  <2>4. \A m \in Nodes : RecordOK(rs[m]) /\ rs[m] \in Info
    BY <2>3 DEF Grown, RecordOK
  <2>5. rs \in [Nodes -> Info]
    <3>1. rs = [m \in Nodes |-> rs[m]]
      BY <1>0
    <3> HIDE DEF rs
    <3> QED
      BY <2>4, <3>1
  <2>6. Commit(records, [gversions EXCEPT ![n] = Created(n)], written, {})
    BY <1>2
  <2> HIDE DEF rs
  <2>7. /\ records = [m \in Nodes |-> records[m]]
        /\ \A m \in Nodes \ {p, n} : records[m] = rs[m]
        /\ \A m \in Nodes : Grown(rs[m], records[m])
        /\ \A m \in Nodes : SameTags(rs[m], records[m])
        /\ \A x \in Nodes, d \in Directions, y \in Nodes :
              HasEdge(records[x], d, y) <=> \/ HasEdge(rs[x], d, y)
                                            \/ x = p /\ d = "forward" /\ y = n
                                            \/ x = n /\ d = "reverse" /\ y = p
    BY <2>0, <2>4, <2>5, LinkedEffect
  <2> HIDE DEF records
  <2>8. \A m \in Nodes : Grown(info[m], records[m])
    BY <1>0, <2>3, <2>7, GrownTwice
  <2>9. \A m \in Nodes : SameTags(info[m], records[m])
    BY <2>3, <2>7 DEF SameTags
  <2>10. records[n].version > 0
    <3>1. rs[n].version = info[n].version + 1 /\ rs[n].version <= records[n].version
      BY <2>1, <2>2, <2>7 DEF Grown
    <3>2. records[n].version \in Nat
      BY <2>8, VersionIsNumber DEF Grown
    <3> QED
      BY <1>0, <3>1, <3>2
  <2>11. /\ written \in SUBSET Nodes /\ n \in written
         /\ \A m \in Nodes \ written : records[m] = info[m]
         /\ \A m \in written \ {n} : Exists(m)
    BY <1>0, <2>2, <2>7
  <2> HIDE DEF written
  <2>12. /\ Committed
         /\ \A m \in Nodes : Exists(m)' <=> Exists(m) \/ m = n
         /\ \A x \in Nodes, d \in Directions, y \in Nodes :
               Edge(x, d, y)' <=> HasEdge(records[x], d, y)
         /\ \A x \in Nodes : Tags(x)' = TagsAt(records[x], records[x].version)
    BY <1>2, <2>6, <2>7, <2>8, <2>10, <2>11, CommitNew
  <2>13. ~Edge(p, "forward", n)
    BY <1>2, <2>0, EndsExist
  <2>14. EdgeAdded(p, n)
    BY <2>3, <2>7, <2>12 DEF EdgeAdded, Edge
  <2>15. \A x \in Nodes : Tags(x)' = Tags(x)
    BY <2>9, <2>12 DEF SameTags, Tags
  <2> QED
    BY <1>0, <2>0, <2>12, <2>13, <2>14, <2>15
<1> QED
  BY <1>1, <1>2 DEF AddChild

LEMMA RemoveChildDoes ==
    ASSUME Inv, NEW p \in Nodes, NEW n \in Nodes, RemoveChild(p, n)
    PROVE  /\ Committed
           /\ Exists(n)
           /\ \A m \in Nodes : Exists(m)' <=> Exists(m)
           /\ p # n => Edge(p, "forward", n) /\ EdgeRemoved(p, n)
           /\ p = n => LoopChanges(n)
           /\ \A x \in Nodes : Tags(x)' = Tags(x)
<1>0. /\ \A m \in Nodes : RecordOK(info[m])
      /\ info \in [Nodes -> Info]
  BY VersionsAreNumbers DEF Inv, TypeOK
<1>1. /\ Exists(p) /\ Exists(n) /\ HasEdge(info[p], "forward", n)
      /\ Commit(Unlinked(info, p, n), gversions, {p, n}, {})
  BY DEF RemoveChild
<1>2. CASE p = n
  <2>1. PICK d \in Directions :
            /\ HasEdge(info[n], d, n)
            /\ Unlinked(info, n, n) = [info EXCEPT ![n] = RemoveEdge(info[n], d, n)]
    BY <1>0, <1>1, <1>2, UnlinkedLoop
  <2> DEFINE c == RemoveEdge(info[n], d, n)
  <2>2. /\ Grown(info[n], c) /\ SameTags(info[n], c)
        /\ \A d2 \in Directions, m \in Nodes :
              HasEdge(c, d2, m) <=> HasEdge(info[n], d2, m) /\ ~(d2 = d /\ m = n)
    BY <1>0, <2>1, RemoveEdgeEffect
  <2>3. Commit([info EXCEPT ![n] = c], gversions, {n, n}, {})
    BY <1>1, <1>2, <2>1
  <2> HIDE DEF c
  <2>4. /\ \A d2 \in Directions, m \in Nodes :
              ~(d2 = d /\ m = n) => (HasEdge(c, d2, m) <=> HasEdge(info[n], d2, m))
        /\ HasEdge(c, d, n) <=> ~HasEdge(info[n], d, n)
    BY <2>1, <2>2
  <2>5. /\ Committed
        /\ \A m \in Nodes : Exists(m)' <=> Exists(m)
        /\ \A x \in Nodes, d2 \in Directions, y \in Nodes :
              ~(x = n /\ d2 = d /\ y = n) => (Edge(x, d2, y)' <=> Edge(x, d2, y))
        /\ Edge(n, d, n)' <=> ~Edge(n, d, n)
        /\ \A x \in Nodes : Tags(x)' = Tags(x)
    BY <1>1, <2>2, <2>3, <2>4, LoopChangeDoes
  <2>6. LoopChanges(n)
    BY <2>5 DEF LoopChanges
  <2> QED
    BY <1>1, <1>2, <2>5, <2>6
<1>3. CASE p # n
  <2>1. HasEdge(info[n], "reverse", p)
    BY <1>1, <1>3, EndsExist DEF Edge
  <2> DEFINE records == Unlinked(info, p, n)
             written == {p, n}
             none == {}
  <2>2. /\ records = [m \in Nodes |-> records[m]]
        /\ \A m \in Nodes \ {p, n} : records[m] = info[m]
        /\ \A m \in Nodes : Grown(info[m], records[m])
        /\ \A m \in Nodes : SameTags(info[m], records[m])
        /\ \A x \in Nodes, d \in Directions, y \in Nodes :
              HasEdge(records[x], d, y) <=> /\ HasEdge(info[x], d, y)
                                            /\ ~(x = p /\ d = "forward" /\ y = n)
                                            /\ ~(x = n /\ d = "reverse" /\ y = p)
    BY <1>0, <1>1, <1>3, <2>1, UnlinkedEffect
  <2>3. /\ written \in SUBSET Nodes
        /\ \A m \in Nodes \ written : records[m] = info[m]
        /\ \A m \in written : Exists(m)
        /\ Commit(records, gversions, written, none)
    BY <1>1, <2>2
  <2> HIDE DEF records, written, none
  <2>4. /\ Committed
        /\ \A m \in Nodes : Exists(m)' <=> Exists(m) /\ m \notin none
        /\ \A x \in Nodes, d \in Directions, y \in Nodes :
              Edge(x, d, y)' <=> HasEdge(records[x], d, y)
        /\ \A x \in Nodes : Tags(x)' = TagsAt(records[x], records[x].version)
    BY <2>2, <2>3, CommitExisting
  <2>5. \A x \in Nodes : Tags(x)' = Tags(x)
    BY <2>2, <2>4 DEF SameTags, Tags
  <2>6. Edge(p, "forward", n) /\ EdgeRemoved(p, n)
    BY <1>1, <2>2, <2>4 DEF EdgeRemoved, Edge
  <2> QED
    BY <1>1, <1>3, <2>4, <2>5, <2>6 DEF none
<1> QED
  BY <1>2, <1>3

\* remove finds every edge of the node through its own record, because the two
\* ends of an edge agree, and takes it from the other end as well.
LEMMA RemoveDoes ==
    ASSUME Inv, NEW n \in Nodes, Remove(n)
    PROVE  /\ Committed
           /\ Exists(n)
           /\ \A m \in Nodes : Exists(m)' <=> Exists(m) /\ m # n
           /\ \A x \in Nodes, d \in Directions, y \in Nodes :
                 Edge(x, d, y)' <=> Edge(x, d, y) /\ x # n /\ y # n
           /\ \A x \in Nodes : Tags(x)' = Tags(x)
<1> DEFINE looped == WithLoop(info[n], n)
           parents == EdgesAt(looped, "reverse", looped.version) \ {n}
           children == EdgesAt(looped, "forward", looped.version) \ {n}
           fromParents == [m \in Nodes |-> IF m \in parents
                              THEN Without(info[m], "forward", n) ELSE info[m]]
           others == [m \in Nodes |-> IF m \in children
                         THEN Without(fromParents[m], "reverse", n) ELSE fromParents[m]]
           half == WithoutEdges(looped, "reverse")
           own == WithoutEdges(half, "forward")
           records == [others EXCEPT ![n] = own]
           written == {n} \cup parents \cup children
           removed == {n}
<1>0. /\ \A m \in Nodes : RecordOK(info[m])
      /\ info \in [Nodes -> Info]
      /\ "forward" \in Directions /\ "reverse" \in Directions
      /\ \A d \in Directions : d = "forward" \/ d = "reverse"
  BY VersionsAreNumbers DEF Inv, TypeOK, Directions
<1>1. Exists(n) /\ Commit(records, gversions, written, removed)
  BY DEF Remove
<1>2. /\ Grown(info[n], looped) /\ SameTags(info[n], looped)
      /\ \A d \in Directions, m \in Nodes :
            m # n => (HasEdge(looped, d, m) <=> HasEdge(info[n], d, m))
  BY <1>0, WithLoopEffect
<1>3. /\ \A m \in Nodes : m \in parents <=> m # n /\ Edge(n, "reverse", m)
      /\ \A m \in Nodes : m \in children <=> m # n /\ Edge(n, "forward", m)
      /\ parents \subseteq Nodes /\ children \subseteq Nodes
      /\ n \notin parents /\ n \notin children
  BY <1>0, <1>2 DEF EdgesAt, HasEdge, Edge
<1>4. /\ \A m \in Nodes : m \in parents <=> m # n /\ Edge(m, "forward", n)
      /\ \A m \in Nodes : m \in children <=> m # n /\ Edge(m, "reverse", n)
      /\ \A m \in parents \cup children : Exists(m)
  BY <1>3, EndsExist
<1>5. /\ Grown(looped, half) /\ SameTags(looped, half)
      /\ \A d \in Directions, m \in Nodes :
            HasEdge(half, d, m) <=> HasEdge(looped, d, m) /\ d # "reverse"
  <2>1. RecordOK(looped)
    BY <1>2 DEF Grown
  <2> QED
    BY <1>0, <2>1, WithoutEdgesEffect
<1>6. /\ Grown(half, own) /\ SameTags(half, own)
      /\ \A d \in Directions, m \in Nodes :
            HasEdge(own, d, m) <=> HasEdge(half, d, m) /\ d # "forward"
  <2>1. RecordOK(half)
    BY <1>5 DEF Grown
  <2> QED
    BY <1>0, <2>1, WithoutEdgesEffect
<1> HIDE DEF looped, half, own, parents, children
<1>7. /\ Grown(info[n], own) /\ SameTags(info[n], own)
      /\ \A d \in Directions, m \in Nodes : ~HasEdge(own, d, m)
  <2>1. Grown(info[n], half)
    BY <1>0, <1>2, <1>5, GrownTwice
  <2>2. Grown(info[n], own)
    BY <1>0, <1>6, <2>1, GrownTwice
  <2>3. SameTags(info[n], own)
    BY <1>2, <1>5, <1>6 DEF SameTags
  <2>4. \A d \in Directions, m \in Nodes : ~HasEdge(own, d, m)
    BY <1>0, <1>5, <1>6
  <2> QED
    BY <2>2, <2>3, <2>4
<1>8. ASSUME NEW m \in Nodes, m # n
      PROVE  LET q == fromParents[m]
             IN  /\ Grown(info[m], q) /\ SameTags(info[m], q)
                 /\ \A d \in Directions, y \in Nodes :
                       HasEdge(q, d, y) <=> HasEdge(info[m], d, y) /\ ~(d = "forward" /\ y = n)
                 /\ m \notin parents => q = info[m]
  <2>1. CASE m \in parents
    <3>1. fromParents[m] = Without(info[m], "forward", n)
      BY <2>1
    <3> HIDE DEF fromParents
    <3> QED
      BY <1>0, <2>1, <3>1, WithoutEffect
  <2>2. CASE m \notin parents
    <3>1. fromParents[m] = info[m]
      BY <2>2
    <3>2. ~HasEdge(info[m], "forward", n)
      BY <1>4, <1>8, <2>2 DEF Edge
    <3> HIDE DEF fromParents
    <3> QED
      BY <1>0, <3>1, <3>2, GrownByItself
  <2> QED
    BY <2>1, <2>2
<1>9. \A m \in Nodes : others[m] = IF m \in children THEN Without(fromParents[m], "reverse", n)
                                                     ELSE fromParents[m]
  OBVIOUS
<1>10. /\ records = [m \in Nodes |-> records[m]]
       /\ \A m \in Nodes : records[m] = IF m = n THEN own ELSE others[m]
  OBVIOUS
<1> HIDE DEF fromParents, others, records
<1>11. ASSUME NEW m \in Nodes, m # n
       PROVE  /\ Grown(info[m], records[m]) /\ SameTags(info[m], records[m])
              /\ \A d \in Directions, y \in Nodes :
                    HasEdge(records[m], d, y) <=> HasEdge(info[m], d, y) /\ y # n
              /\ m \notin parents \cup children => records[m] = info[m]
  <2> DEFINE q == fromParents[m]
             c == records[m]
  <2>1. /\ Grown(info[m], q) /\ SameTags(info[m], q)
        /\ \A d \in Directions, y \in Nodes :
              HasEdge(q, d, y) <=> HasEdge(info[m], d, y) /\ ~(d = "forward" /\ y = n)
        /\ m \notin parents => q = info[m]
    BY <1>8, <1>11
  <2>2. RecordOK(q)
    BY <2>1 DEF Grown
  <2>3. c = IF m \in children THEN Without(q, "reverse", n) ELSE q
    BY <1>9, <1>10, <1>11
  <2> HIDE DEF q, c
  <2>4. CASE m \in children
    <3>1. c = Without(q, "reverse", n)
      BY <2>3, <2>4
    <3>2. /\ Grown(q, c) /\ SameTags(q, c)
          /\ \A d \in Directions, y \in Nodes :
                HasEdge(c, d, y) <=> HasEdge(q, d, y) /\ ~(d = "reverse" /\ y = n)
      BY <1>0, <2>2, <3>1, WithoutEffect
    <3>3. Grown(info[m], c)
      BY <1>0, <2>1, <3>2, GrownTwice
    <3>4. SameTags(info[m], c)
      BY <2>1, <3>2 DEF SameTags
    <3>5. \A d \in Directions, y \in Nodes : HasEdge(c, d, y) <=> HasEdge(info[m], d, y) /\ y # n
      BY <1>0, <2>1, <3>2
    <3> QED
      BY <2>4, <3>3, <3>4, <3>5 DEF c
  <2>5. CASE m \notin children
    <3>1. c = q
      BY <2>3, <2>5
    <3>2. ~HasEdge(info[m], "reverse", n)
      BY <1>4, <1>11, <2>5 DEF Edge
    <3>3. \A d \in Directions, y \in Nodes : HasEdge(c, d, y) <=> HasEdge(info[m], d, y) /\ y # n
      BY <1>0, <2>1, <3>1, <3>2
    <3> QED
      BY <2>1, <3>1, <3>3 DEF c
  <2> QED
    BY <2>4, <2>5
<1>12. records[n] = own
  BY <1>10
<1>13. \A m \in Nodes : Grown(info[m], records[m])
  BY <1>7, <1>11, <1>12
<1>14. /\ written \in SUBSET Nodes
       /\ \A m \in Nodes \ written : records[m] = info[m]
       /\ \A m \in written : Exists(m)
  BY <1>1, <1>3, <1>4, <1>11
<1> HIDE DEF written, removed
<1>15. /\ Committed
       /\ \A m \in Nodes : Exists(m)' <=> Exists(m) /\ m \notin removed
       /\ \A x \in Nodes, d \in Directions, y \in Nodes :
             Edge(x, d, y)' <=> HasEdge(records[x], d, y)
       /\ \A x \in Nodes : Tags(x)' = TagsAt(records[x], records[x].version)
  BY <1>1, <1>10, <1>13, <1>14, CommitExisting
<1>16. \A x \in Nodes, d \in Directions, y \in Nodes :
          Edge(x, d, y)' <=> Edge(x, d, y) /\ x # n /\ y # n
  BY <1>7, <1>11, <1>12, <1>15 DEF Edge
<1>17. \A x \in Nodes : Tags(x)' = Tags(x)
  BY <1>7, <1>11, <1>12, <1>15 DEF Tags, SameTags
<1> QED
  BY <1>1, <1>15, <1>16, <1>17 DEF removed

-----------------------------------------------------------------------------
(* The inductive invariant *)

LEMMA InitInv ==
    ASSUME Init
    PROVE  Inv
<1>1. NewInfo \in Info
  BY DEF NewInfo, Info
<1>2. RecordOK(NewInfo)
  <2>1. /\ NewInfo.version = 0 /\ NewInfo.keys = << >>
        /\ \A d \in Directions, m \in Nodes : NewInfo.edges[d][m] = {}
    BY DEF NewInfo
  <2>2. \A d \in Directions : EdgesAt(NewInfo, d, 0) = {}
    BY <2>1 DEF EdgesAt
  <2>3. \A d \in Directions : IsFiniteSet(EdgesAt(NewInfo, d, NewInfo.version))
    BY <2>1, <2>2, FS_EmptySet
  <2>4. DOMAIN NewInfo.keys = {}
    BY <2>1
  <2> QED
    BY <1>1, <2>1, <2>3, <2>4 DEF RecordOK
<1>3. \A n \in Nodes : info[n] = NewInfo /\ gversions[n] = {}
  BY DEF Init
<1>4. Version = 0 /\ DOMAIN changes = {}
  BY DEF Init, Version
<1>5. TypeOK
  BY <1>1, <1>4 DEF Init, TypeOK
<1>6. ListsLead
  <2>1. \A n \in Nodes : info[n].version = 0 /\ ~Exists(n)
    BY <1>3 DEF NewInfo, Exists
  <2> QED
    BY <1>3, <1>4, <2>1 DEF ListsLead
<1>7. EdgesAgree
  <2>1. \A n \in Nodes, m \in Nodes, d \in Directions : ~HasEdge(info[n], d, m)
    BY <1>3 DEF NewInfo, HasEdge
  <2> QED
    BY <2>1 DEF EdgesAgree, Directions
<1> QED
  BY <1>2, <1>3, <1>5, <1>6, <1>7 DEF Inv

\* EdgesAgree, of the next state.
LEMMA EdgesAgreeNext ==
    ASSUME \A x, y \in Nodes : x # y =>
              /\ Edge(x, "forward", y)' <=> Edge(y, "reverse", x)'
              /\ Edge(x, "forward", y)' => Exists(x)' /\ Exists(y)'
    PROVE  EdgesAgree'
  BY DEF EdgesAgree, Edge

LEMMA NextInv ==
    ASSUME Inv, Next
    PROVE  Inv' /\ PastKept
<1>0. "forward" \in Directions /\ "reverse" \in Directions /\ "forward" # "reverse"
  BY DEF Directions
<1>1. ASSUME Committed, EdgesAgree' PROVE Inv' /\ PastKept
  BY <1>1 DEF Committed, Inv
<1>2. ASSUME NEW n \in Nodes, Create(n) PROVE Inv' /\ PastKept
  <2>1. EdgesAgree'
    BY <1>0, <1>2, CreateDoes, EndsExist, EdgesAgreeNext
  <2> QED
    BY <1>1, <1>2, <2>1, CreateDoes
<1>3. ASSUME NEW n \in Nodes, Remove(n) PROVE Inv' /\ PastKept
  <2>1. EdgesAgree'
    BY <1>0, <1>3, RemoveDoes, EndsExist, EdgesAgreeNext
  <2> QED
    BY <1>1, <1>3, <2>1, RemoveDoes
<1>4. ASSUME NEW p \in Nodes, NEW n \in Nodes, AddChild(p, n) PROVE Inv' /\ PastKept
  <2>0. /\ Committed /\ Exists(p)
        /\ \A m \in Nodes : Exists(m)' <=> Exists(m) \/ m = n
        /\ p # n => EdgeAdded(p, n)
        /\ p = n => LoopChanges(n)
    BY <1>4, AddChildDoes
  <2>1. CASE p = n
    <3>1. \A x, y \in Nodes, d \in Directions : x # y => (Edge(x, d, y)' <=> Edge(x, d, y))
      BY <2>0, <2>1 DEF LoopChanges
    <3>2. EdgesAgree'
      BY <1>0, <2>0, <3>1, EndsExist, EdgesAgreeNext
    <3> QED
      BY <1>1, <2>0, <3>2
  <2>2. CASE p # n
    <3>1. EdgesAgree'
      BY <1>0, <2>0, <2>2, EndsExist, EdgesAgreeNext DEF EdgeAdded
    <3> QED
      BY <1>1, <2>0, <3>1
  <2> QED
    BY <2>1, <2>2
<1>5. ASSUME NEW p \in Nodes, NEW n \in Nodes, RemoveChild(p, n) PROVE Inv' /\ PastKept
  <2>0. /\ Committed
        /\ \A m \in Nodes : Exists(m)' <=> Exists(m)
        /\ p # n => EdgeRemoved(p, n)
        /\ p = n => LoopChanges(n)
    BY <1>5, RemoveChildDoes
  <2>1. CASE p = n
    <3>1. \A x, y \in Nodes, d \in Directions : x # y => (Edge(x, d, y)' <=> Edge(x, d, y))
      BY <2>0, <2>1 DEF LoopChanges
    <3>2. EdgesAgree'
      BY <1>0, <2>0, <3>1, EndsExist, EdgesAgreeNext
    <3> QED
      BY <1>1, <2>0, <3>2
  <2>2. CASE p # n
    <3>1. EdgesAgree'
      BY <1>0, <2>0, <2>2, EndsExist, EdgesAgreeNext DEF EdgeRemoved
    <3> QED
      BY <1>1, <2>0, <3>1
  <2> QED
    BY <2>1, <2>2
<1>6. ASSUME NEW n \in Nodes, NEW k \in Keys, RemoveKey(n, k) PROVE Inv' /\ PastKept
  <2>1. EdgesAgree'
    BY <1>0, <1>6, RemoveKeyDoes, EndsExist, EdgesAgreeNext
  <2> QED
    BY <1>1, <1>6, <2>1, RemoveKeyDoes
<1>7. ASSUME NEW n \in Nodes, NEW k \in Keys, NEW v \in Values, UpdateKey(n, k, v)
      PROVE  Inv' /\ PastKept
  <2>1. EdgesAgree'
    BY <1>0, <1>7, UpdateKeyDoes, EndsExist, EdgesAgreeNext
  <2> QED
    BY <1>1, <1>7, <2>1, UpdateKeyDoes
<1> QED
  BY <1>2, <1>3, <1>4, <1>5, <1>6, <1>7 DEF Next

\* The records, the change list and the graph versions stay in step, and the
\* two ends of every edge agree, in every reachable state (every transaction of
\* graphdb.cpp with its end in berkeley_dbcxx_txn.cpp).
THEOREM Invariance == Spec => []Inv
<1>1. Init => Inv
  BY InitInv
<1>2. Inv /\ [Next]_vars => Inv'
  <2>1. ASSUME Inv, Next PROVE Inv'
    BY <2>1, NextInv
  <2>2. ASSUME Inv, UNCHANGED vars PROVE Inv'
    <3>1. info' = info /\ gversions' = gversions /\ changes' = changes
      BY <2>2 DEF vars
    <3>2. TypeOK'
      BY <2>2, <3>1 DEF Inv, TypeOK
    <3>3. (\A n \in Nodes : RecordOK(info[n]))'
      BY <2>2, <3>1 DEF Inv, RecordOK, KeyConsistent, EdgesAt
    <3>4. ListsLead'
      BY <2>2, <3>1 DEF Inv, ListsLead, Exists, Version
    <3>5. EdgesAgree'
      BY <2>2, <3>1 DEF Inv, EdgesAgree, HasEdge, Exists, Version
    <3> QED
      BY <3>2, <3>3, <3>4, <3>5 DEF Inv
  <2> QED
    BY <2>1, <2>2
<1> QED
  BY <1>1, <1>2, PTL DEF Spec

\* No version list of a record runs ahead of it, the change list names only
\* versions that exist and never takes one back, and edges have two ends
\* (pbuff_node.cpp raises list_version with every change; remove visits both
\* ends).
THEOREM RecordsAreConsistent == Spec => []Consistent
<1>1. ASSUME Inv PROVE Consistent
  <2>1. ASSUME NEW n \in Nodes
        PROVE  LET r == info[n]
               IN  /\ \A d \in Directions, m \in Nodes : r.edges[d][m] \subseteq 1..r.version
                   /\ \A i \in DOMAIN r.keys : KeyConsistent(r.keys[i], r.version)
    BY <1>1 DEF Inv, RecordOK
  <2>2. \A v \in 1..Version : \A n \in DOMAIN changes[v] :
           /\ changes[v][n] \in 1..info[n].version
           /\ \A w \in v..Version : n \in DOMAIN changes[w] => changes[v][n] <= changes[w][n]
    BY <1>1 DEF Inv, ListsLead
  <2> QED
    BY <1>1, <2>1, <2>2 DEF Inv, Consistent
<1> QED
  BY <1>1, Invariance, PTL

\* A transaction changes nothing that a past version shows; what it adds to one
\* is a node created again, in the version right before it (commit lists every
\* node of the version, and set_wanted_version finds it there).
THEOREM PastIsRetained == Spec => PastRetained
<1>1. ASSUME Inv, [Next]_vars
      PROVE  [PastKept]_vars
  BY <1>1, NextInv
<1>2. Spec => [][PastKept]_vars
  BY <1>1, Invariance, PTL DEF Spec
<1> QED
  BY <1>2 DEF PastRetained, PastKept

-----------------------------------------------------------------------------
(* The graph without versions *)

Live == {n \in Nodes : Exists(n)}

EdgeSet == {e \in Nodes \X Nodes : e[1] # e[2] /\ HasEdge(info[e[1]], "forward", e[2])}

LoopSet == {l \in Nodes \X Directions : HasEdge(info[l[1]], l[2], l[1])}

TagMap == [n \in Nodes |-> TagsAt(info[n], info[n].version)]

LEMMA GraphPrimes ==
    /\ Live' = {n \in Nodes : Exists(n)'}
    /\ EdgeSet = {e \in Nodes \X Nodes : e[1] # e[2] /\ Edge(e[1], "forward", e[2])}
    /\ EdgeSet' = {e \in Nodes \X Nodes : e[1] # e[2] /\ Edge(e[1], "forward", e[2])'}
    /\ LoopSet = {l \in Nodes \X Directions : Edge(l[1], l[2], l[1])}
    /\ LoopSet' = {l \in Nodes \X Directions : Edge(l[1], l[2], l[1])'}
    /\ TagMap = [n \in Nodes |-> Tags(n)]
    /\ TagMap' = [n \in Nodes |-> Tags(n)']
  BY DEF Live, EdgeSet, LoopSet, TagMap, Edge, Tags

\* Steps that leave the edges or the tags alone.
LEMMA SameEdges ==
    ASSUME \A x \in Nodes, d \in Directions, y \in Nodes : Edge(x, d, y)' <=> Edge(x, d, y)
    PROVE  EdgeSet' = EdgeSet /\ LoopSet' = LoopSet
<1>1. "forward" \in Directions
  BY DEF Directions
<1>2. \A e \in Nodes \X Nodes : Edge(e[1], "forward", e[2])' <=> Edge(e[1], "forward", e[2])
  BY <1>1
<1>3. \A l \in Nodes \X Directions : Edge(l[1], l[2], l[1])' <=> Edge(l[1], l[2], l[1])
  OBVIOUS
<1> QED
  BY <1>2, <1>3, GraphPrimes

LEMMA SameTagMap ==
    ASSUME \A x \in Nodes : Tags(x)' = Tags(x)
    PROVE  TagMap' = TagMap
  BY GraphPrimes

LEMMA CreateStep ==
    ASSUME Inv, NEW n \in Nodes, Create(n)
    PROVE  G!CreateNode(n)
<1>1. /\ ~Exists(n)
      /\ \A m \in Nodes : Exists(m)' <=> Exists(m) \/ m = n
      /\ \A x \in Nodes, d \in Directions, y \in Nodes : Edge(x, d, y)' <=> Edge(x, d, y)
      /\ \A x \in Nodes : Tags(x)' = Tags(x)
  BY CreateDoes
<1>2. n \notin Live /\ Live' = Live \cup {n}
  BY <1>1, GraphPrimes DEF Live
<1>3. EdgeSet' = EdgeSet /\ LoopSet' = LoopSet
  BY <1>1, SameEdges
<1>4. TagMap' = TagMap
  BY <1>1, SameTagMap
<1> QED
  BY <1>2, <1>3, <1>4 DEF G!CreateNode, Live, EdgeSet, LoopSet, TagMap

LEMMA RemoveStep ==
    ASSUME Inv, NEW n \in Nodes, Remove(n)
    PROVE  G!Delete(n)
<1>0. "forward" \in Directions
  BY DEF Directions
<1>1. /\ Exists(n)
      /\ \A m \in Nodes : Exists(m)' <=> Exists(m) /\ m # n
      /\ \A x \in Nodes, d \in Directions, y \in Nodes :
            Edge(x, d, y)' <=> Edge(x, d, y) /\ x # n /\ y # n
      /\ \A x \in Nodes : Tags(x)' = Tags(x)
  BY RemoveDoes
<1>2. n \in Live /\ Live' = Live \ {n}
  BY <1>1, GraphPrimes DEF Live
<1>3. EdgeSet' = {e \in EdgeSet : n \notin {e[1], e[2]}}
  <2>1. \A e \in Nodes \X Nodes :
           Edge(e[1], "forward", e[2])' <=>
              Edge(e[1], "forward", e[2]) /\ n \notin {e[1], e[2]}
    BY <1>0, <1>1
  <2> QED
    BY <2>1, GraphPrimes
<1>4. LoopSet' = {l \in LoopSet : l[1] # n}
  <2>1. \A l \in Nodes \X Directions :
           Edge(l[1], l[2], l[1])' <=> Edge(l[1], l[2], l[1]) /\ l[1] # n
    BY <1>1
  <2> QED
    BY <2>1, GraphPrimes
<1>5. TagMap' = TagMap
  BY <1>1, SameTagMap
<1> QED
  BY <1>2, <1>3, <1>4, <1>5 DEF G!Delete, Live, EdgeSet, LoopSet, TagMap

\* A loop that changes at one end.
LEMMA LoopStep ==
    ASSUME NEW n \in Nodes, Exists(n), LoopChanges(n),
           \A m \in Nodes : Exists(m)' <=> Exists(m),
           \A x \in Nodes : Tags(x)' = Tags(x)
    PROVE  G!Loop(n)
<1>1. PICK d \in Directions :
       /\ \A x \in Nodes, d2 \in Directions, y \in Nodes :
             ~(x = n /\ d2 = d /\ y = n) => (Edge(x, d2, y)' <=> Edge(x, d2, y))
       /\ Edge(n, d, n)' <=> ~Edge(n, d, n)
  BY DEF LoopChanges
<1>2. n \in Live /\ Live' = Live
  BY GraphPrimes DEF Live
<1>3. EdgeSet' = EdgeSet
  <2>1. \A e \in Nodes \X Nodes : e[1] # e[2] =>
           (Edge(e[1], "forward", e[2])' <=> Edge(e[1], "forward", e[2]))
    BY <1>1 DEF Directions
  <2> QED
    BY <2>1, GraphPrimes
<1>4. LoopSet' \in {LoopSet \cup {<<n, d>>}, LoopSet \ {<<n, d>>}} \ {LoopSet}
  <2>1. \A l \in Nodes \X Directions : l # <<n, d>> =>
           (Edge(l[1], l[2], l[1])' <=> Edge(l[1], l[2], l[1]))
    BY <1>1
  <2>2. \A l \in Nodes \X Directions : l # <<n, d>> => (l \in LoopSet' <=> l \in LoopSet)
    BY <2>1, GraphPrimes
  <2>3. /\ <<n, d>> \in LoopSet <=> Edge(n, d, n)
        /\ <<n, d>> \in LoopSet' <=> Edge(n, d, n)'
    BY GraphPrimes
  <2>4. LoopSet \subseteq Nodes \X Directions /\ LoopSet' \subseteq Nodes \X Directions
    BY GraphPrimes
  <2>5. CASE Edge(n, d, n)
    <3>1. LoopSet' = LoopSet \ {<<n, d>>}
      BY <1>1, <2>2, <2>3, <2>4, <2>5
    <3>2. LoopSet' # LoopSet
      BY <1>1, <2>3, <2>5
    <3> QED
      BY <3>1, <3>2
  <2>6. CASE ~Edge(n, d, n)
    <3>1. LoopSet' = LoopSet \cup {<<n, d>>}
      BY <1>1, <2>2, <2>3, <2>4, <2>6
    <3>2. LoopSet' # LoopSet
      BY <1>1, <2>3, <2>6
    <3> QED
      BY <3>1, <3>2
  <2> QED
    BY <2>5, <2>6
<1>5. TagMap' = TagMap
  BY SameTagMap
<1>6. d \in {"forward", "reverse"}
  BY DEF Directions
<1> QED
  BY <1>2, <1>3, <1>4, <1>5, <1>6 DEF G!Loop, Live, EdgeSet, LoopSet, TagMap

LEMMA AddChildStep ==
    ASSUME Inv, NEW p \in Nodes, NEW n \in Nodes, AddChild(p, n)
    PROVE  G!Loop(n) \/ G!Link(p, n)
<1>0. "forward" \in Directions /\ "forward" # "reverse"
  BY DEF Directions
<1>1. /\ Exists(p)
      /\ \A m \in Nodes : Exists(m)' <=> Exists(m) \/ m = n
      /\ p # n => ~Edge(p, "forward", n) /\ EdgeAdded(p, n)
      /\ p = n => LoopChanges(n)
      /\ \A x \in Nodes : Tags(x)' = Tags(x)
  BY AddChildDoes
<1>2. CASE p = n
  BY <1>1, <1>2, LoopStep
<1>3. CASE p # n
  <2>1. p \in Live /\ Live' = Live \cup {n}
    BY <1>1, GraphPrimes DEF Live
  <2>2. <<p, n>> \notin EdgeSet
    BY <1>1, <1>3, GraphPrimes
  <2>3. EdgeSet' = EdgeSet \cup {<<p, n>>}
    <3>1. \A e \in Nodes \X Nodes :
             Edge(e[1], "forward", e[2])' <=> Edge(e[1], "forward", e[2]) \/ e = <<p, n>>
      BY <1>0, <1>1, <1>3 DEF EdgeAdded
    <3> QED
      BY <1>3, <3>1, GraphPrimes
  <2>4. LoopSet' = LoopSet
    <3>1. \A l \in Nodes \X Directions : Edge(l[1], l[2], l[1])' <=> Edge(l[1], l[2], l[1])
      BY <1>1, <1>3 DEF EdgeAdded
    <3> QED
      BY <3>1, GraphPrimes
  <2>5. TagMap' = TagMap
    BY <1>1, SameTagMap
  <2>6. G!Link(p, n)
    BY <1>3, <2>1, <2>2, <2>3, <2>4, <2>5 DEF G!Link, Live, EdgeSet, LoopSet, TagMap
  <2> QED
    BY <2>6
<1> QED
  BY <1>2, <1>3

LEMMA RemoveChildStep ==
    ASSUME Inv, NEW p \in Nodes, NEW n \in Nodes, RemoveChild(p, n)
    PROVE  G!Loop(n) \/ G!Unlink(p, n)
<1>0. "forward" \in Directions /\ "forward" # "reverse"
  BY DEF Directions
<1>1. /\ Exists(n)
      /\ \A m \in Nodes : Exists(m)' <=> Exists(m)
      /\ p # n => Edge(p, "forward", n) /\ EdgeRemoved(p, n)
      /\ p = n => LoopChanges(n)
      /\ \A x \in Nodes : Tags(x)' = Tags(x)
  BY RemoveChildDoes
<1>2. CASE p = n
  BY <1>1, <1>2, LoopStep
<1>3. CASE p # n
  <2>1. Live' = Live
    BY <1>1, GraphPrimes DEF Live
  <2>2. <<p, n>> \in EdgeSet
    BY <1>1, <1>3, GraphPrimes
  <2>3. EdgeSet' = EdgeSet \ {<<p, n>>}
    <3>1. \A e \in Nodes \X Nodes :
             Edge(e[1], "forward", e[2])' <=> Edge(e[1], "forward", e[2]) /\ e # <<p, n>>
      BY <1>0, <1>1, <1>3 DEF EdgeRemoved
    <3> QED
      BY <1>3, <3>1, GraphPrimes
  <2>4. LoopSet' = LoopSet
    <3>1. \A l \in Nodes \X Directions : Edge(l[1], l[2], l[1])' <=> Edge(l[1], l[2], l[1])
      BY <1>1, <1>3 DEF EdgeRemoved
    <3> QED
      BY <3>1, GraphPrimes
  <2>5. TagMap' = TagMap
    BY <1>1, SameTagMap
  <2>6. G!Unlink(p, n)
    BY <2>1, <2>2, <2>3, <2>4, <2>5 DEF G!Unlink, Live, EdgeSet, LoopSet, TagMap
  <2> QED
    BY <2>6
<1> QED
  BY <1>2, <1>3

LEMMA RemoveKeyStep ==
    ASSUME Inv, NEW n \in Nodes, NEW k \in Keys, RemoveKey(n, k)
    PROVE  G!DropTag(n, k)
<1>1. /\ Exists(n) /\ \E t \in Tags(n) : t[1] = k
      /\ \A m \in Nodes : Exists(m)' <=> Exists(m)
      /\ \A x \in Nodes, d \in Directions, y \in Nodes : Edge(x, d, y)' <=> Edge(x, d, y)
      /\ \A x \in Nodes : Tags(x)' = IF x = n THEN {t \in Tags(n) : t[1] # k} ELSE Tags(x)
  BY RemoveKeyDoes
<1>2. n \in Live /\ Live' = Live
  BY <1>1, GraphPrimes DEF Live
<1>3. EdgeSet' = EdgeSet /\ LoopSet' = LoopSet
  BY <1>1, SameEdges
<1>4. \E t \in TagMap[n] : t[1] = k
  BY <1>1, GraphPrimes
<1>5. TagMap' = [TagMap EXCEPT ![n] = {t \in @ : t[1] # k}]
  BY <1>1, GraphPrimes
<1> QED
  BY <1>2, <1>3, <1>4, <1>5 DEF G!DropTag, Live, EdgeSet, LoopSet, TagMap

LEMMA UpdateKeyStep ==
    ASSUME Inv, NEW n \in Nodes, NEW k \in Keys, NEW v \in Values, UpdateKey(n, k, v)
    PROVE  \E vals \in SUBSET Values : G!SetTag(n, k, vals)
<1>1. /\ Exists(n)
      /\ \A m \in Nodes : Exists(m)' <=> Exists(m)
      /\ \A x \in Nodes, d \in Directions, y \in Nodes : Edge(x, d, y)' <=> Edge(x, d, y)
      /\ \E vals \in SUBSET Values :
            /\ <<k, vals>> \notin Tags(n)
            /\ \A x \in Nodes :
                  Tags(x)' = IF x = n THEN {t \in Tags(n) : t[1] # k} \cup {<<k, vals>>}
                             ELSE Tags(x)
  BY UpdateKeyDoes
<1>2. PICK vals \in SUBSET Values :
            /\ <<k, vals>> \notin Tags(n)
            /\ \A x \in Nodes :
                  Tags(x)' = IF x = n THEN {t \in Tags(n) : t[1] # k} \cup {<<k, vals>>}
                             ELSE Tags(x)
  BY <1>1
<1>3. n \in Live /\ Live' = Live
  BY <1>1, GraphPrimes DEF Live
<1>4. EdgeSet' = EdgeSet /\ LoopSet' = LoopSet
  BY <1>1, SameEdges
<1>5. <<k, vals>> \notin TagMap[n]
  BY <1>2, GraphPrimes
<1>6. TagMap' = [TagMap EXCEPT ![n] = {t \in @ : t[1] # k} \cup {<<k, vals>>}]
  BY <1>2, GraphPrimes
<1>7. G!SetTag(n, k, vals)
  BY <1>3, <1>4, <1>5, <1>6 DEF G!SetTag, Live, EdgeSet, LoopSet, TagMap
<1> QED
  BY <1>7

\* Read at its current version, the versioned graph is a graph without versions:
\* every transaction is one operation of PropertyGraph (an edge or a tag that
\* is taken away can come back, and a removed node leaves no edge behind).
THEOREM GraphIsImplemented == Spec => ImplementsGraph
<1>1. Init => G!GraphInit
  <2> SUFFICES ASSUME Init PROVE G!GraphInit
    OBVIOUS
  <2>1. \A n \in Nodes : info[n] = NewInfo /\ gversions[n] = {}
    BY DEF Init
  <2>2. \A n \in Nodes, m \in Nodes, d \in Directions : ~HasEdge(info[n], d, m)
    BY <2>1 DEF NewInfo, HasEdge
  <2>3. \A n \in Nodes : ~Exists(n) /\ TagsAt(info[n], info[n].version) = {}
    BY <2>1 DEF NewInfo, Exists, TagsAt
  <2>4. Version = 0
    BY DEF Init, Version
  <2> QED
    BY <2>2, <2>3, <2>4 DEF G!GraphInit, Directions
<1>2. ASSUME Inv, Next PROVE G!GraphNext
  <2>1. Committed /\
        \E n \in Nodes :
          \/ G!CreateNode(n) \/ G!Delete(n) \/ G!Loop(n)
          \/ \E p \in Nodes : G!Link(p, n) \/ G!Unlink(p, n)
          \/ \E k \in Keys : G!DropTag(n, k) \/ \E vals \in SUBSET Values : G!SetTag(n, k, vals)
    <3>1. ASSUME NEW n \in Nodes, Create(n) PROVE Committed /\ G!CreateNode(n)
      BY <1>2, <3>1, CreateDoes, CreateStep
    <3>2. ASSUME NEW n \in Nodes, Remove(n) PROVE Committed /\ G!Delete(n)
      BY <1>2, <3>2, RemoveDoes, RemoveStep
    <3>3. ASSUME NEW p \in Nodes, NEW n \in Nodes, AddChild(p, n)
          PROVE  Committed /\ (G!Loop(n) \/ G!Link(p, n))
      BY <1>2, <3>3, AddChildDoes, AddChildStep
    <3>4. ASSUME NEW p \in Nodes, NEW n \in Nodes, RemoveChild(p, n)
          PROVE  Committed /\ (G!Loop(n) \/ G!Unlink(p, n))
      BY <1>2, <3>4, RemoveChildDoes, RemoveChildStep
    <3>5. ASSUME NEW n \in Nodes, NEW k \in Keys, RemoveKey(n, k)
          PROVE  Committed /\ G!DropTag(n, k)
      BY <1>2, <3>5, RemoveKeyDoes, RemoveKeyStep
    <3>6. ASSUME NEW n \in Nodes, NEW k \in Keys, NEW v \in Values, UpdateKey(n, k, v)
          PROVE  Committed /\ \E vals \in SUBSET Values : G!SetTag(n, k, vals)
      BY <1>2, <3>6, UpdateKeyDoes, UpdateKeyStep
    <3> QED
      BY <1>2, <3>1, <3>2, <3>3, <3>4, <3>5, <3>6 DEF Next
  <2>2. Version' = Version + 1
    BY <2>1 DEF Committed
  <2> QED
    BY <2>1, <2>2 DEF G!GraphNext
<1>3. ASSUME UNCHANGED vars PROVE UNCHANGED G!graphVars
  BY <1>3 DEF vars, G!graphVars, Exists, Version, HasEdge, TagsAt
<1>4. Spec => [][G!GraphNext]_(G!graphVars)
  <2>1. Inv /\ [Next]_vars => [G!GraphNext]_(G!graphVars)
    BY <1>2, <1>3
  <2> QED
    BY <2>1, Invariance, PTL DEF Spec
<1> QED
  BY <1>1, <1>4, PTL DEF Spec, ImplementsGraph, G!GraphSpec

=============================================================================
