------------------------ MODULE RangeVersionsProofs ------------------------
(***************************************************************************)
(* The invariant of RangeVersions, for any number of calls, crashes and    *)
(* readers; and the versions in the records of the transaction log, for    *)
(* any number of appends and prunings.                                     *)
(***************************************************************************)
EXTENDS RangeVersions, NaturalsInduction, WellFoundedInduction, TLAPS

USE VersionsAssumption

LEMMA Initially == Init => Inv
<1> SUFFICES ASSUME Init PROVE Inv
  OBVIOUS
<1>1. IdleReader \in Reader /\ Nothing \in Wanted
  BY DEF IdleReader, Reader, Nothing, Wanted
<1>2. TypeOK
  <2>1. reader \in [Readers -> Reader] /\ wanted \in Wanted
    BY <1>1 DEF Init
  <2>2. /\ primary \in Nat /\ dependency \in Nat /\ step \in Steps
        /\ calls \in 0..MaxCalls /\ crashes \in 0..MaxCrashes /\ clock \in 0..MaxTime
    BY DEF Init, Steps
  <2>3. txlog \in Seq(1..MaxCalls) /\ changes \in Seq(Change)
    BY DEF Init
  <2>4. brokeOff \in BOOLEAN
    BY Zenon DEF Init
  <2> QED
    BY <2>1, <2>2, <2>3, <2>4 DEF TypeOK
<1>3. Seen
  BY DEF Init, Seen, IdleReader
<1>4. /\ LagIsBreak /\ LogAheadByCrashes /\ Running /\ FirstCall /\ ZeroIsCrash
      /\ TimesInOrder
  BY DEF Init, LagIsBreak, LogAheadByCrashes, Running, FirstCall, ZeroIsCrash, TimesInOrder
<1> QED
  BY <1>2, <1>3, <1>4 DEF Inv

-----------------------------------------------------------------------------
(* The list of changes only grows. *)

\* A change that is appended is the newest, and the others keep their places.
LEMMA ChangeAppended ==
    ASSUME TypeOK, NEW p \in Nat, NEW d \in Nat, add_new_range_version(p, d)
    PROVE  /\ changes' \in Seq(Change)
           /\ Len(changes') = Len(changes) + 1
           /\ changes' # <<>>
           /\ changes'[Len(changes')].primary = p
           /\ changes'[Len(changes')].dependency = d
           /\ changes'[Len(changes')].time = clock
           /\ \A i \in DOMAIN changes : changes'[i] = changes[i]
           /\ \A i \in DOMAIN changes' : i \in DOMAIN changes \/ i = Len(changes')
<1> DEFINE c == [primary |-> p, dependency |-> d, time |-> clock]
<1>1. c \in Change
  BY DEF TypeOK, Change
<1>2. changes' = Append(changes, c) /\ changes \in Seq(Change)
  BY DEF add_new_range_version, TypeOK
<1> HIDE DEF c
<1>3. /\ changes' \in Seq(Change) /\ Len(changes') = Len(changes) + 1
      /\ changes'[Len(changes')] = c
      /\ \A i \in DOMAIN changes : changes'[i] = changes[i]
      /\ \A i \in DOMAIN changes' : i \in DOMAIN changes \/ i = Len(changes')
  BY <1>1, <1>2
<1>4. changes' # <<>>
  BY <1>3, <1>2
<1> QED
  BY <1>3, <1>4 DEF c

\* A reader that was right before stays so when the list only grows.
LEMMA SeenWhenGrown ==
    ASSUME TypeOK, Seen, UNCHANGED reading,
           Len(changes') \in Nat, Len(changes') >= Len(changes),
           \A i \in DOMAIN changes : changes'[i] = changes[i]
    PROVE  Seen'
<1> SUFFICES ASSUME NEW r \in Readers, reader[r].pc # "idle", reader[r].there,
                    ~ reader[r].disturbed
             PROVE  LET q == reader[r] IN
                    /\ q.version < Len(changes')
                    /\ q.pc \in {"get_primary", "get_dependency"} => wanted = At(q.version)'
                    /\ q.pc \in {"set_dependency", "get_dependency", "done"} =>
                          q.got.primary = At(q.version)'.primary
                    /\ q.pc = "done" => q.got.dependency = At(q.version)'.dependency
  BY DEF Seen, reading, At
<1>1. reader[r] \in Reader /\ Len(changes) \in Nat
  BY DEF TypeOK
<1>2. reader[r].version \in Nat /\ reader[r].version < Len(changes)
  BY <1>1 DEF Seen, Reader
<1>3. changes'[reader[r].version + 1] = changes[reader[r].version + 1]
  BY <1>2 DEF TypeOK
<1>4. At(reader[r].version)' = At(reader[r].version)
  BY <1>3 DEF At, reading
<1> QED
  BY <1>2, <1>4 DEF Seen

\* When the newest range version has the versions of the graphs and the log
\* has as many calls as the crashes allow, all is well between two calls.
LEMMA CallReturned ==
    ASSUME Inv, primary' \in Nat, dependency' \in Nat, crashes' = crashes,
           clock' = clock,
           primary' > 0, crashes = 0 => dependency' > 0,
           add_new_range_version(primary', dependency'), step' = "idle"
    PROVE  /\ changes' \in Seq(Change) /\ Len(changes') = Len(changes) + 1
           /\ LagIsBreak' /\ Running' /\ FirstCall' /\ ZeroIsCrash' /\ TimesInOrder'
           /\ UNCHANGED reading => Seen'
<1>1. TypeOK
  BY DEF Inv
<1>2. /\ changes' \in Seq(Change)
      /\ Len(changes') = Len(changes) + 1
      /\ changes' # <<>>
      /\ changes'[Len(changes')].primary = primary'
      /\ changes'[Len(changes')].dependency = dependency'
      /\ changes'[Len(changes')].time = clock
      /\ \A i \in DOMAIN changes : changes'[i] = changes[i]
      /\ \A i \in DOMAIN changes' : i \in DOMAIN changes \/ i = Len(changes')
  BY <1>1, ChangeAppended
<1>3. LagIsBreak'
  BY <1>2 DEF LagIsBreak
<1>4. Running' /\ FirstCall'
  BY DEF Running, FirstCall
<1>5. ZeroIsCrash'
  BY <1>2 DEF ZeroIsCrash, Inv
<1>6. UNCHANGED reading => Seen'
  BY <1>1, <1>2, SeenWhenGrown DEF TypeOK, Inv
<1>7. TimesInOrder'
  <2>1. ASSUME NEW i \in DOMAIN changes'
        PROVE  /\ changes'[i].time <= clock
               /\ \A j \in 1..i : changes'[j].time <= changes'[i].time
    <3>1. CASE i \in DOMAIN changes
      <4>1. \A j \in 1..i : j \in DOMAIN changes
        BY <1>1, <3>1 DEF TypeOK
      <4> QED
        BY <1>2, <3>1, <4>1 DEF TimesInOrder, Inv
    <3>2. CASE i = Len(changes')
      <4>1. \A j \in 1..i : j \in DOMAIN changes \/ j = i
        BY <1>1, <1>2, <3>2 DEF TypeOK
      <4>2. clock \in Int
        BY <1>1 DEF TypeOK
      <4> QED
        BY <1>2, <3>2, <4>1, <4>2 DEF TimesInOrder, Inv
    <3> QED
      BY <1>2, <3>1, <3>2
  <2> QED
    BY <2>1 DEF TimesInOrder
<1> QED
  BY <1>2, <1>3, <1>4, <1>5, <1>6, <1>7

-----------------------------------------------------------------------------
(* Writing *)

LEMMA TimesAreNumbers ==
    ASSUME TypeOK
    PROVE  clock \in Int /\ \A i \in DOMAIN changes : changes[i].time \in Int
<1>1. \A i \in DOMAIN changes : changes[i] \in Change
  BY DEF TypeOK
<1>2. \A c \in Change : c.time \in Int
  BY DEF Change
<1> QED
  BY <1>1, <1>2 DEF TypeOK

LEMMA StepsOfCalls ==
    ASSUME Inv,
           \/ \E p, d \in {0, 1} : Call(p, d)
           \/ CommitPrimary \/ CommitDependency \/ ThrowInDependency
           \/ CommitLog \/ CommitVersion \/ Crash \/ Tick
    PROVE  Inv'
<1> USE DEF Inv
<1>1. ASSUME NEW p \in {0, 1}, NEW d \in {0, 1}, Call(p, d)
      PROVE  Inv'
  <2>1. /\ primary' \in Nat /\ dependency' \in Nat /\ primary' > 0
        /\ crashes = 0 => dependency' > 0
    BY <1>1 DEF Call, Begins, TypeOK, FirstCall
  <2>2. /\ changes' \in Seq(Change) /\ Len(changes') = Len(changes) + 1
        /\ LagIsBreak' /\ Running' /\ FirstCall' /\ ZeroIsCrash' /\ Seen' /\ TimesInOrder'
    BY <1>1, <2>1, CallReturned DEF Call, Begins
  <2>3. txlog' \in Seq(1..MaxCalls) /\ Len(txlog') = Len(txlog) + 1
    <3>1. calls' \in 1..MaxCalls
      BY <1>1 DEF Call, Begins, TypeOK
    <3> QED
      BY <1>1, <3>1 DEF Call, append_txn, TypeOK
  <2>4. TypeOK'
    <3>1. calls' \in 0..MaxCalls /\ step' \in Steps
      BY <1>1 DEF Call, Begins, TypeOK, Steps
    <3>2. brokeOff' \in BOOLEAN
      BY <1>1, Zenon DEF Call
    <3> QED
      BY <1>1, <2>1, <2>2, <2>3, <3>1, <3>2 DEF Call, TypeOK, reading
  <2>5. LogAheadByCrashes'
    BY <1>1, <2>2, <2>3 DEF Call, Begins, LogAheadByCrashes, TypeOK
  <2> QED
    BY <2>2, <2>4, <2>5
<1>2. ASSUME CommitPrimary
      PROVE  Inv'
  <2>1. TypeOK'
    BY <1>2 DEF CommitPrimary, Begins, TypeOK, reading, Steps
  <2>2. /\ LagIsBreak' /\ LogAheadByCrashes' /\ Running' /\ FirstCall' /\ ZeroIsCrash'
        /\ TimesInOrder'
    BY <1>2 DEF CommitPrimary, Begins, TypeOK, LagIsBreak, LogAheadByCrashes, Running,
                FirstCall, ZeroIsCrash, TimesInOrder
  <2>3. Seen'
    BY <1>2, SeenWhenGrown DEF CommitPrimary, TypeOK
  <2> QED
    BY <2>1, <2>2, <2>3
<1>3. ASSUME CommitDependency
      PROVE  Inv'
  <2>1. TypeOK'
    BY <1>3 DEF CommitDependency, TypeOK, reading, Steps
  <2>2. /\ LagIsBreak' /\ LogAheadByCrashes' /\ Running' /\ FirstCall' /\ ZeroIsCrash'
        /\ TimesInOrder'
    BY <1>3 DEF CommitDependency, TypeOK, LagIsBreak, LogAheadByCrashes, Running,
                FirstCall, ZeroIsCrash, TimesInOrder
  <2>3. Seen'
    BY <1>3, SeenWhenGrown DEF CommitDependency, TypeOK
  <2> QED
    BY <2>1, <2>2, <2>3
<1>4. ASSUME ThrowInDependency
      PROVE  Inv'
  <2>1. TypeOK'
    BY <1>4 DEF ThrowInDependency, TypeOK, reading, Steps
  <2>2. /\ LagIsBreak' /\ LogAheadByCrashes' /\ Running' /\ FirstCall' /\ ZeroIsCrash'
        /\ TimesInOrder'
    BY <1>4 DEF ThrowInDependency, TypeOK, LagIsBreak, LogAheadByCrashes, Running,
                FirstCall, ZeroIsCrash, TimesInOrder
  <2>3. Seen'
    BY <1>4, SeenWhenGrown DEF ThrowInDependency, TypeOK
  <2> QED
    BY <2>1, <2>2, <2>3
<1>5. ASSUME CommitLog
      PROVE  Inv'
  <2>1. calls \in 1..MaxCalls
    BY <1>5 DEF CommitLog, Running, TypeOK
  <2>2. txlog' \in Seq(1..MaxCalls) /\ Len(txlog') = Len(txlog) + 1
    BY <1>5, <2>1 DEF CommitLog, append_txn, TypeOK
  <2>3. TypeOK'
    BY <1>5, <2>2 DEF CommitLog, TypeOK, reading, Steps
  <2>4. /\ LagIsBreak' /\ LogAheadByCrashes' /\ Running' /\ FirstCall' /\ ZeroIsCrash'
        /\ TimesInOrder'
    BY <1>5, <2>2 DEF CommitLog, TypeOK, LagIsBreak, LogAheadByCrashes, Running,
                      FirstCall, ZeroIsCrash, TimesInOrder
  <2>5. Seen'
    BY <1>5, SeenWhenGrown DEF CommitLog, TypeOK
  <2> QED
    BY <2>3, <2>4, <2>5
<1>6. ASSUME CommitVersion
      PROVE  Inv'
  <2>1. /\ primary' = primary /\ dependency' = dependency /\ primary > 0
        /\ crashes = 0 => dependency > 0
    BY <1>6 DEF CommitVersion, TypeOK, FirstCall, Running
  <2>2. /\ changes' \in Seq(Change) /\ Len(changes') = Len(changes) + 1
        /\ LagIsBreak' /\ Running' /\ FirstCall' /\ ZeroIsCrash' /\ Seen' /\ TimesInOrder'
    BY <1>6, <2>1, CallReturned DEF CommitVersion, TypeOK
  <2>3. TypeOK'
    BY <1>6, <2>2 DEF CommitVersion, TypeOK, reading, Steps
  <2>4. LogAheadByCrashes'
    BY <1>6, <2>2 DEF CommitVersion, LogAheadByCrashes, TypeOK
  <2> QED
    BY <2>2, <2>3, <2>4
<1>7. ASSUME Crash
      PROVE  Inv'
  <2>1. TypeOK'
    BY <1>7 DEF Crash, TypeOK, reading, Steps
  <2>2. /\ LagIsBreak' /\ LogAheadByCrashes' /\ Running' /\ FirstCall' /\ ZeroIsCrash'
        /\ TimesInOrder'
    BY <1>7 DEF Crash, TypeOK, LagIsBreak, LogAheadByCrashes, Running, FirstCall,
                ZeroIsCrash, TimesInOrder
  <2>3. Seen'
    BY <1>7, SeenWhenGrown DEF Crash, TypeOK
  <2> QED
    BY <2>1, <2>2, <2>3
<1>8. ASSUME Tick
      PROVE  Inv'
  <2>1. TypeOK'
    BY <1>8 DEF Tick, TypeOK, reading, Steps
  <2>2. LagIsBreak' /\ LogAheadByCrashes' /\ Running' /\ FirstCall' /\ ZeroIsCrash'
    BY <1>8 DEF Tick, LagIsBreak, LogAheadByCrashes, Running, FirstCall, ZeroIsCrash
  <2>4. TimesInOrder'
    <3>1. clock \in Int /\ \A i \in DOMAIN changes : changes[i].time \in Int
      BY TimesAreNumbers
    <3> QED
      BY <1>8, <3>1 DEF Tick, TimesInOrder
  <2>3. Seen'
    BY <1>8, SeenWhenGrown DEF Tick, TypeOK
  <2> QED
    BY <2>1, <2>2, <2>3, <2>4
<1> QED
  BY <1>1, <1>2, <1>3, <1>4, <1>5, <1>6, <1>7, <1>8
-----------------------------------------------------------------------------
(* Reading *)

\* Nothing that is stored changes when a reader takes a step.
LEMMA StepsOfReaders ==
    ASSUME Inv, NEW r \in Readers, Read(r)
    PROVE  Inv'
<1> USE DEF Inv
<1> reader[r] \in Reader
  BY DEF TypeOK
<1>1. UNCHANGED stored
  BY DEF Read, Ask, SetWanted, GetPrimary, GetDependency, Answer
<1>2. /\ LagIsBreak' /\ LogAheadByCrashes' /\ Running' /\ FirstCall' /\ ZeroIsCrash'
      /\ TimesInOrder'
  BY <1>1 DEF stored, LagIsBreak, LogAheadByCrashes, Running, FirstCall, ZeroIsCrash, TimesInOrder
<1>3. (wanted' \in Wanted /\ reader' \in [Readers -> Reader]) => TypeOK'
  BY <1>1 DEF stored, TypeOK
<1>4. \A v \in Nat : At(v)' = At(v)
  BY <1>1 DEF stored, At
<1>5. ASSUME NEW v \in 1..MaxCalls, Ask(r, v)
      PROVE  TypeOK' /\ Seen'
  <2> DEFINE q == [IdleReader EXCEPT !.pc = "set_primary", !.version = v,
                                     !.there = v < Len(changes)]
  <2>1. reader' = [reader EXCEPT ![r] = q] /\ wanted' = wanted
    BY <1>5 DEF Ask
  <2>2. q.pc = "set_primary" /\ q.version = v
    BY DEF IdleReader
  <2>3. q.there <=> v < Len(changes)
    BY DEF IdleReader
  <2>4. q \in Reader
    <3>1. ASSUME NEW b \in BOOLEAN
          PROVE  [IdleReader EXCEPT !.pc = "set_primary", !.version = v, !.there = b]
                    \in Reader
      <4>1. IdleReader \in Reader
        BY DEF IdleReader, Nothing, Reader, Wanted
      <4>2. v \in Nat
        OBVIOUS
      <4>3. [IdleReader EXCEPT !.there = b] \in Reader
        BY <4>1 DEF Reader
      <4> QED
        BY <4>1, <4>2, <4>3 DEF Reader
    <3>2. (v < Len(changes)) \in BOOLEAN
      OBVIOUS
    <3> QED
      BY <3>1, <3>2, Zenon
  <2> HIDE DEF q
  <2>5. TypeOK'
    BY <1>3, <2>1, <2>4 DEF TypeOK
  <2>6. Seen'
    BY <1>1, <1>4, <2>1, <2>2, <2>3 DEF Seen, TypeOK, stored, Reader
  <2> QED
    BY <2>5, <2>6
\* The reader sets the map for itself, and disturbs all others that read.
<1>6. ASSUME NEW pc \in {"set_primary", "set_dependency"},
             NEW next \in {"get_primary", "get_dependency"},
             pc = "set_primary" <=> next = "get_primary", SetWanted(r, pc, next)
      PROVE  TypeOK' /\ Seen'
  <2>1. /\ reader[r].pc = pc
        /\ wanted' = set_wanted_version(reader[r].version)
        /\ reader' = [q \in Readers |->
                        IF q = r THEN [reader[q] EXCEPT !.pc = next]
                        ELSE IF reader[q].pc \in {"idle", "done"} THEN reader[q]
                        ELSE [reader[q] EXCEPT !.disturbed = TRUE]]
    BY <1>6 DEF SetWanted
  <2>2. /\ wanted' \in Wanted
        /\ reader[r].version < Len(changes) => wanted' = At(reader[r].version)
    <3> DEFINE v == reader[r].version
    <3>1. v \in Nat
      BY DEF Reader
    <3>2. CASE v < Len(changes)
      <4>1. changes[v + 1] \in Change
        BY <3>1, <3>2 DEF TypeOK
      <4>2. wanted' = At(v)
        BY <2>1, <3>2 DEF set_wanted_version, At
      <4> QED
        BY <4>1, <4>2 DEF At, Wanted, Change
    <3>3. CASE ~ (v < Len(changes))
      BY <2>1, <3>3 DEF set_wanted_version, TypeOK
    <3> QED
      BY <3>2, <3>3
  <2>3. ASSUME NEW q \in Readers
        PROVE  reader'[q] \in Reader
    <3>1. reader[q] \in Reader
      BY DEF TypeOK
    <3>2. ASSUME NEW b \in BOOLEAN
          PROVE  [reader[q] EXCEPT !.disturbed = b] \in Reader
      BY <3>1 DEF Reader
    <3>3. [reader[q] EXCEPT !.disturbed = TRUE] \in Reader
      BY <3>2, Zenon
    <3>4. [reader[q] EXCEPT !.pc = next] \in Reader
      BY <3>1, <1>6 DEF Reader
    <3> QED
      BY <2>1, <3>1, <3>3, <3>4
  <2>4. TypeOK'
    BY <1>3, <2>1, <2>2, <2>3
  <2>5. Seen'
    <3> SUFFICES ASSUME NEW q \in Readers, reader'[q].pc # "idle", reader'[q].there,
                        ~ reader'[q].disturbed
                 PROVE  /\ reader'[q].version < Len(changes)
                        /\ reader'[q].pc \in {"get_primary", "get_dependency"} =>
                              wanted' = At(reader'[q].version)
                        /\ reader'[q].pc \in {"set_dependency", "get_dependency", "done"} =>
                              reader'[q].got.primary = At(reader'[q].version).primary
                        /\ reader'[q].pc = "done" =>
                              reader'[q].got.dependency = At(reader'[q].version).dependency
      BY <1>1, <1>4, <2>3 DEF Seen, stored, Reader
    <3>1. CASE q = r
      <4>1. reader'[q] = [reader[r] EXCEPT !.pc = next]
        BY <2>1, <3>1
      <4>2. /\ reader'[q].pc = next /\ reader'[q].version = reader[r].version
            /\ reader'[q].got = reader[r].got
            /\ reader[r].there /\ ~ reader[r].disturbed
        BY <4>1 DEF Reader
      <4> QED
        BY <4>2, <2>1, <2>2, <1>6 DEF Seen
    <3>2. CASE q # r /\ reader[q].pc = "done"
      <4>1. reader'[q] = reader[q]
        BY <2>1, <3>2
      <4> QED
        BY <4>1, <3>2 DEF Seen
    <3>3. CASE q # r /\ reader[q].pc = "idle"
      BY <2>1, <3>3
    <3>4. CASE q # r /\ reader[q].pc \notin {"idle", "done"}
      <4>1. reader'[q] = [reader[q] EXCEPT !.disturbed = TRUE] /\ reader[q] \in Reader
        BY <2>1, <3>4 DEF TypeOK
      <4> QED
        BY <4>1 DEF Reader
    <3> QED
      BY <3>1, <3>2, <3>3, <3>4
  <2> QED
    BY <2>4, <2>5
<1>7. ASSUME GetPrimary(r)
      PROVE  TypeOK' /\ Seen'
  <2> DEFINE n == [reader[r] EXCEPT !.pc = "set_dependency", !.got.primary = wanted.primary]
  <2>1. reader' = [reader EXCEPT ![r] = n] /\ wanted' = wanted /\ reader[r].pc = "get_primary"
    BY <1>7 DEF GetPrimary, TypeOK
  <2>2. /\ n \in Reader /\ n.pc = "set_dependency" /\ n.version = reader[r].version
        /\ n.got.primary = wanted.primary
        /\ n.there = reader[r].there /\ n.disturbed = reader[r].disturbed
    BY DEF TypeOK, Reader, Wanted
  <2> HIDE DEF n
  <2>3. TypeOK'
    BY <1>3, <2>1, <2>2 DEF TypeOK
  <2>4. Seen'
    BY <1>1, <1>4, <2>1, <2>2 DEF Seen, TypeOK, stored, Reader
  <2> QED
    BY <2>3, <2>4
<1>8. ASSUME GetDependency(r)
      PROVE  TypeOK' /\ Seen'
  <2> DEFINE n == [reader[r] EXCEPT !.pc = "done", !.got.dependency = wanted.dependency]
  <2>1. reader' = [reader EXCEPT ![r] = n] /\ wanted' = wanted
        /\ reader[r].pc = "get_dependency"
    BY <1>8 DEF GetDependency, TypeOK
  <2>2. /\ n \in Reader /\ n.pc = "done" /\ n.version = reader[r].version
        /\ n.got.primary = reader[r].got.primary
        /\ n.got.dependency = wanted.dependency
        /\ n.there = reader[r].there /\ n.disturbed = reader[r].disturbed
    BY DEF TypeOK, Reader, Wanted
  <2> HIDE DEF n
  <2>3. TypeOK'
    BY <1>3, <2>1, <2>2 DEF TypeOK
  <2>4. Seen'
    BY <1>1, <1>4, <2>1, <2>2 DEF Seen, TypeOK, stored, Reader
  <2> QED
    BY <2>3, <2>4
<1>9. ASSUME Answer(r)
      PROVE  TypeOK' /\ Seen'
  <2>1. reader' = [reader EXCEPT ![r] = IdleReader] /\ wanted' = wanted
    BY <1>9 DEF Answer
  <2>2. IdleReader \in Reader /\ IdleReader.pc = "idle"
    BY DEF IdleReader, Nothing, Reader, Wanted
  <2>3. TypeOK'
    BY <1>3, <2>1, <2>2 DEF TypeOK
  <2>4. Seen'
    BY <1>1, <1>4, <2>1, <2>2 DEF Seen, TypeOK, stored, Reader
  <2> QED
    BY <2>3, <2>4
<1> QED
  BY <1>2, <1>5, <1>6, <1>7, <1>8, <1>9 DEF Read

-----------------------------------------------------------------------------
(***************************************************************************)
(* The invariant holds, however many calls, crashes and readers there are. *)
(***************************************************************************)
THEOREM Invariance == Spec => []Inv
<1>1. Inv /\ [Next]_vars => Inv'
  <2> SUFFICES ASSUME Inv, [Next]_vars PROVE Inv'
    OBVIOUS
  <2>1. CASE UNCHANGED vars
    BY <2>1 DEF vars, stored, reading, Inv, TypeOK, LagIsBreak, LogAheadByCrashes, Running,
                FirstCall, ZeroIsCrash, TimesInOrder, Seen, At
  <2>2. CASE Next
    BY <2>2, StepsOfCalls, StepsOfReaders DEF Next
  <2> QED
    BY <2>1, <2>2
<1> QED
  BY Initially, <1>1, PTL DEF Spec

(***************************************************************************)
(* Between two calls the newest range version has the versions of both     *)
(* graphs, unless the last call broke off between two of its commits       *)
(* (create_env, remove_env and add_host).                                  *)
(***************************************************************************)
THEOREM NewestIsCurrent == Spec => []LagIsBreak
<1>1. Inv => LagIsBreak
  BY DEF Inv
<1> QED
  BY Invariance, <1>1, PTL

(***************************************************************************)
(* Only crashes part the transaction log from the list of range versions   *)
(* (append_txn and add_new_range_version).                                 *)
(***************************************************************************)
THEOREM LogAhead == Spec => []LogAheadByCrashes
<1>1. Inv => LogAheadByCrashes
  BY DEF Inv
<1> QED
  BY Invariance, <1>1, PTL

(***************************************************************************)
(* Version 0 of a graph is asked for after a crash only                    *)
(* (GraphDB::set_wanted_version).                                          *)
(***************************************************************************)
THEOREM ZeroAfterCrash == Spec => []ZeroIsCrash
<1>1. Inv => ZeroIsCrash
  BY DEF Inv
<1> QED
  BY Invariance, <1>1, PTL

(***************************************************************************)
(* A time finds the current range version, when a change is before it, or  *)
(* none: never an older one (get_range_version of the read API).           *)
(***************************************************************************)
THEOREM TimesFindCurrent == Spec => []TimeFindsCurrent
<1>1. Inv => TimeFindsCurrent
  <2> SUFFICES ASSUME Inv, NEW t \in 0..MaxTime
               PROVE  /\ get_range_version(t) \in {Null, Len(changes)}
                      /\ (\A i \in DOMAIN changes : t <= changes[i].time)
                            <=> get_range_version(t) = Null
                      /\ (changes # <<>> /\ \A i \in DOMAIN changes : t > changes[i].time)
                            => get_range_version(t) = Len(changes)
    BY DEF TimeFindsCurrent
  <2>1. /\ changes \in Seq(Change) /\ Len(changes) \in Nat /\ t \in Int
        /\ \A i \in DOMAIN changes : changes[i].time \in Int
    BY TimesAreNumbers DEF Inv, TypeOK
  <2>2. CASE Earlier(t) = {}
    <3>1. \A i \in DOMAIN changes : ~ (t > changes[i].time)
      BY <2>2 DEF Earlier
    <3>2. changes # <<>> => 1 \in DOMAIN changes
      BY <2>1
    <3> QED
      BY <2>1, <2>2, <3>1, <3>2 DEF get_range_version, Null
  \* The first change in the list is before t when any is.
  <2>3. CASE Earlier(t) # {}
    <3>1. PICK e \in DOMAIN changes : t > changes[e].time
      BY <2>3 DEF Earlier
    <3>2. 1 \in DOMAIN changes /\ 1 \in 1..e
      BY <2>1, <3>1
    <3>3. 1 \in Earlier(t)
      BY <2>1, <3>1, <3>2 DEF Earlier, Inv, TimesInOrder
    <3>4. \A j \in Earlier(t) : j \in Int /\ 1 <= j
      BY <2>1 DEF Earlier
    <3>5. (CHOOSE i \in Earlier(t) : \A j \in Earlier(t) : i <= j) = 1
      BY <3>3, <3>4
    <3>6. get_range_version(t) = Len(changes)
      BY <2>3, <3>5 DEF get_range_version
    <3> QED
      BY <2>1, <3>1, <3>6 DEF Null
  <2> QED
    BY <2>2, <2>3
<1> QED
  BY Invariance, <1>1, PTL

(***************************************************************************)
(* A reader of the past that no other thread disturbs gets the versions    *)
(* that both graphs had (BerkeleyDB::set_wanted_version).                  *)
(***************************************************************************)
THEOREM ReadersGetOwn == Spec => []OwnVersions
<1>1. Inv => OwnVersions
  BY DEF Inv, Seen, OwnVersions, At
<1> QED
  BY Invariance, <1>1, PTL

-----------------------------------------------------------------------------
(* The transaction log by its records. *)

T == INSTANCE TxLog

\* A set of numbers has a least one.
LEMMA Least ==
    ASSUME NEW S, S \subseteq Nat, S # {}
    PROVE  \E m \in S : \A k \in S : m <= k
<1>1. PICK m \in S : \A k \in S : <<k, m>> \notin OpToRel(<, Nat)
  BY NatLessThanWellFounded, WFMin
<1>2. \A k \in S : ~ (k < m)
  BY <1>1 DEF OpToRel
<1> QED
  BY <1>2

\* Counting from 0 to N stays in S.
LEMMA UpTo ==
    ASSUME NEW N \in Nat, NEW S, 0 \in S, \A k \in 0..(N - 1) : k \in S => k + 1 \in S
    PROVE  \A k \in 0..N : k \in S
<1> DEFINE Bad == {k \in 0..N : k \notin S}
<1>1. Bad \subseteq Nat
  OBVIOUS
<1>2. ASSUME Bad # {} PROVE FALSE
  <2>1. PICK m \in Bad : \A k \in Bad : m <= k
    <3> HIDE DEF Bad
    <3> QED
      BY <1>1, <1>2, Least
  <2>2. m # 0 /\ m - 1 \in 0..(N - 1)
    OBVIOUS
  <2>3. m - 1 \notin Bad
    BY <2>1, <2>2
  <2> QED
    BY <2>2, <2>3
<1> QED
  BY <1>2

\* f is the function that Run defines, up to k.
RunsTo(f, history, k) ==
    f = [i \in 0..k |-> IF i = 0 THEN [log |-> << >>, calls |-> << >>]
                        ELSE T!After(f[i - 1], history[i], i)]

\* There is such a function.
LEMMA SomeRun ==
    ASSUME NEW history, NEW N \in Nat
    PROVE  \E f : RunsTo(f, history, N)
<1> DEFINE Good == {k \in 0..N : \E f : RunsTo(f, history, k)}
           Empty == [log |-> << >>, calls |-> << >>]
<1>1. 0 \in Good
  <2> DEFINE f == [i \in 0..0 |-> Empty]
  <2>1. RunsTo(f, history, 0)
    BY DEF RunsTo
  <2> QED
    BY <2>1
<1>2. ASSUME NEW k \in 0..(N - 1), k \in Good PROVE k + 1 \in Good
  <2>1. PICK f : RunsTo(f, history, k)
    BY <1>2
  <2> DEFINE h == [j \in 0..(k + 1) |-> IF j = 0 THEN Empty ELSE T!After(f[j - 1], history[j], j)]
  <2>2. \A j \in 0..k : f[j] = IF j = 0 THEN Empty ELSE T!After(f[j - 1], history[j], j)
    BY <2>1, Zenon DEF RunsTo
  <2>3. \A j \in 0..k : h[j] = f[j]
    <3>1. 0..k \subseteq 0..(k + 1)
      OBVIOUS
    <3>2. \A j \in 0..k : h[j] = IF j = 0 THEN Empty ELSE T!After(f[j - 1], history[j], j)
      BY <3>1, Zenon
    <3> QED
      BY <2>2, <3>2, Zenon
  <2>4. \A j \in 0..(k + 1) : j # 0 => j - 1 \in 0..k
    OBVIOUS
  <2>5. h = [j \in 0..(k + 1) |-> IF j = 0 THEN Empty ELSE T!After(h[j - 1], history[j], j)]
    <3>1. \A j \in 0..(k + 1) : (IF j = 0 THEN Empty ELSE T!After(f[j - 1], history[j], j))
                                 = (IF j = 0 THEN Empty ELSE T!After(h[j - 1], history[j], j))
      BY <2>3, <2>4, Zenon
    <3> QED
      BY <3>1, Zenon
  <2>6. RunsTo(h, history, k + 1)
    BY <2>5, Zenon DEF RunsTo
  <2>7. k + 1 \in 0..N
    OBVIOUS
  <2> QED
    BY <2>6, <2>7
<1> HIDE DEF Good
<1>3. \A k \in 0..N : k \in Good
  BY <1>1, <1>2, UpTo
<1>4. N \in Good
  BY <1>3
<1> QED
  BY <1>4 DEF Good

\* Run is one.
LEMMA RunIs ==
    ASSUME NEW history \in Seq(Nat)
    PROVE  /\ T!Run(history)[0] = [log |-> << >>, calls |-> << >>]
           /\ \A i \in 1..Len(history) :
                 T!Run(history)[i] = T!After(T!Run(history)[i - 1], history[i], i)
<1> DEFINE N == Len(history)
           f == CHOOSE f : RunsTo(f, history, N)
<1>1. N \in Nat
  OBVIOUS
<1>2. RunsTo(f, history, N)
  BY <1>1, SomeRun
<1>3. T!Run(history) = f
  BY DEF T!Run, RunsTo
<1> HIDE DEF f, N
<1>4. \A i \in 0..N : f[i] = IF i = 0 THEN [log |-> << >>, calls |-> << >>]
                             ELSE T!After(f[i - 1], history[i], i)
  BY <1>2, Zenon DEF RunsTo
<1>5. 0 \in 0..N /\ \A i \in 1..N : i \in 0..N /\ i # 0
  BY <1>1
<1> QED
  BY <1>3, <1>4, <1>5 DEF N

\* The largest number of a set.
LEMMA MaxIs ==
    ASSUME NEW S, NEW m \in S, \A x \in S : x \in Int /\ x <= m
    PROVE  T!Max(S) = m
<1>1. \A y \in S : m >= y
  OBVIOUS
<1>2. \A x \in S : (\A y \in S : x >= y) => x = m
  OBVIOUS
<1> QED
  BY <1>1, <1>2, Zenon DEF T!Max

-----------------------------------------------------------------------------
\* The log holds the calls from version o on, each at its place.
Fits(s, o) ==
    /\ s.calls \in Seq(Nat)
    /\ o \in Nat \ {0} /\ (o <= Len(s.calls) \/ o = 1)
    /\ DOMAIN s.log = o..Len(s.calls)
    /\ \A v \in o..Len(s.calls) : s.log[v].version = v /\ s.log[v].call = s.calls[v]

\* The last record is the last call.
LEMMA LastFits ==
    ASSUME NEW s, NEW o, Fits(s, o)
    PROVE  T!last(s.log) = Len(s.calls)
<1> DEFINE n == Len(s.calls)
<1>1. n \in Nat /\ o \in Nat \ {0} /\ (o <= n \/ o = 1) /\ DOMAIN s.log = o..n
  BY DEF Fits
<1> HIDE DEF n
<1>2. CASE n = 0
  <2>1. DOMAIN s.log = {}
    BY <1>1, <1>2
  <2> QED
    BY <1>2, <2>1 DEF T!last, T!None, n
<1>3. CASE n # 0
  <2>1. n \in o..n /\ \A x \in o..n : n >= x
    BY <1>1, <1>3
  <2>2. T!Max(o..n) = n
    BY <1>1, <2>1 DEF T!Max
  <2>3. T!last(s.log) = T!Max(o..n)
    BY <1>1, <2>1 DEF T!last
  <2> QED
    BY <2>2, <2>3 DEF n
<1> QED
  BY <1>2, <1>3

\* append_txn gives the next version.
LEMMA AppendFits ==
    ASSUME NEW s, NEW o, Fits(s, o), NEW i \in Nat
    PROVE  /\ Fits(T!After(s, 0, i), o)
           /\ Len(T!After(s, 0, i).calls) = Len(s.calls) + 1
<1> DEFINE n == Len(s.calls)
           log == T!append_txn(s.log, i)
           all == Append(s.calls, i)
<1>1. /\ s.calls \in Seq(Nat) /\ n \in Nat /\ o \in Nat \ {0} /\ (o <= n \/ o = 1)
      /\ DOMAIN s.log = o..n
      /\ \A v \in o..n : s.log[v].version = v /\ s.log[v].call = s.calls[v]
  BY DEF Fits
<1>2. T!last(s.log) = n
  BY LastFits
<1>3. log = [r \in DOMAIN s.log \cup {n + 1} |->
               IF r = n + 1 THEN [version |-> n + 1, call |-> i] ELSE s.log[r]]
  <2> HIDE DEF n
  <2> DEFINE key == IF T!last(s.log) = T!None THEN 1 ELSE s.log[T!last(s.log)].version + 1
  <2>1. key = n + 1
    <3>1. CASE n = 0
      BY <1>2, <3>1 DEF T!None
    <3>2. CASE n # 0
      <4>1. n \in o..n
        BY <1>1, <3>2
      <4> QED
        BY <1>1, <1>2, <3>2, <4>1 DEF T!None
    <3> QED
      BY <3>1, <3>2
  <2>2. log = [r \in DOMAIN s.log \cup {key} |->
                 IF r = key THEN [version |-> key, call |-> i] ELSE s.log[r]]
    BY DEF T!append_txn
  <2> HIDE DEF key, log
  <2> QED
    BY <2>1, <2>2
<1>4. all \in Seq(Nat) /\ Len(all) = n + 1 /\ all[n + 1] = i
      /\ \A v \in 1..n : all[v] = s.calls[v]
  BY <1>1
<1>5. T!After(s, 0, i) = [log |-> log, calls |-> all]
  BY DEF T!After
<1> HIDE DEF n, log, all
<1>6. DOMAIN log = o..(n + 1)
  BY <1>1, <1>3
<1>7. ASSUME NEW v \in o..(n + 1) PROVE log[v].version = v /\ log[v].call = all[v]
  <2>1. CASE v = n + 1
    BY <1>1, <1>3, <1>4, <2>1
  <2>2. CASE v # n + 1
    <3>1. v \in o..n /\ v \in 1..n
      BY <1>1, <2>2
    <3>2. log[v] = s.log[v]
      BY <1>1, <1>3, <2>2, <3>1
    <3> QED
      BY <1>1, <1>4, <3>1, <3>2
  <2> QED
    BY <2>1, <2>2
<1>8. Fits([log |-> log, calls |-> all], o)
  BY <1>1, <1>4, <1>6, <1>7 DEF Fits
<1> QED
  BY <1>4, <1>5, <1>8 DEF n

\* prune_txns_prior_to leaves the calls from version h on.
LEMMA PruneFits ==
    ASSUME NEW s, NEW o, Fits(s, o), NEW h \in Nat \ {0}, h <= Len(s.calls), NEW i \in Nat
    PROVE  /\ Fits(T!After(s, h, i), IF o < h THEN h ELSE o)
           /\ T!After(s, h, i).calls = s.calls
<1> DEFINE n == Len(s.calls)
           m == IF o < h THEN h ELSE o
           gone == {r \in DOMAIN s.log : \A q \in DOMAIN s.log : q <= r => s.log[q].version < h}
           log == T!prune_txns_prior_to(s.log, h)
<1>1. /\ s.calls \in Seq(Nat) /\ n \in Nat /\ o \in Nat \ {0} /\ (o <= n \/ o = 1)
      /\ DOMAIN s.log = o..n
      /\ \A v \in o..n : s.log[v].version = v /\ s.log[v].call = s.calls[v]
  BY DEF Fits
<1>2. log = [r \in DOMAIN s.log \ gone |-> s.log[r]]
  BY DEF T!prune_txns_prior_to
<1>3. T!After(s, h, i) = [log |-> log, calls |-> s.calls]
  BY DEF T!After
<1>4. h <= n
  BY DEF n
<1> HIDE DEF n, log
<1>5. \A r \in o..n : r \in gone <=> r < h
  <2>1. ASSUME NEW r \in o..n, r \in gone PROVE r < h
    <3>1. r <= r /\ r \in DOMAIN s.log
      BY <1>1
    <3>2. s.log[r].version < h
      BY <2>1, <3>1
    <3> QED
      BY <1>1, <3>2
  <2>2. ASSUME NEW r \in o..n, r < h PROVE r \in gone
    <3>1. ASSUME NEW q \in DOMAIN s.log, q <= r PROVE s.log[q].version < h
      <4>1. q \in o..n /\ s.log[q].version = q
        BY <1>1, <3>1
      <4> QED
        BY <1>1, <2>2, <3>1, <4>1
    <3>2. r \in DOMAIN s.log
      BY <1>1
    <3> QED
      BY <3>1, <3>2
  <2> QED
    BY <2>1, <2>2
<1> HIDE DEF gone
<1>6. m <= n \/ m = 1
  BY <1>1, <1>4
<1>7. DOMAIN s.log \ gone = m..n
  BY <1>1, <1>5
<1>8. DOMAIN log = m..n /\ \A v \in m..n : log[v] = s.log[v] /\ v \in o..n
  BY <1>1, <1>2, <1>7
<1>9. m \in Nat \ {0}
  BY <1>1
<1> HIDE DEF m
<1>10. Fits([log |-> log, calls |-> s.calls], m)
  BY <1>1, <1>6, <1>8, <1>9 DEF Fits, n
<1> QED
  BY <1>3, <1>10 DEF m

\* What the iterators find in such a log.
LEMMA FitsIsPlaces ==
    ASSUME NEW s, NEW o, Fits(s, o), Len(s.calls) # 0
    PROVE  /\ T!first(s.log) = o /\ T!last(s.log) = Len(s.calls)
           /\ \A v \in DOMAIN s.calls :
                IF v < o THEN T!get(s.log, v) = T!None
                ELSE /\ T!get(s.log, v) = v /\ s.log[v].call = s.calls[v]
                     /\ T!increment(s.log, v) = IF v = Len(s.calls) THEN T!None ELSE v + 1
                     /\ T!decrement(s.log, v) = IF v = o THEN T!None ELSE v - 1
                     /\ \A q \in DOMAIN s.log : T!advance(s.log, v, T!distance_to(s.log, v, q)) = q
<1> DEFINE n == Len(s.calls)
           log == s.log
<1>1. /\ s.calls \in Seq(Nat) /\ n \in Nat /\ o \in Nat \ {0} /\ o <= n
      /\ DOMAIN log = o..n /\ DOMAIN s.calls = 1..n
      /\ \A v \in o..n : log[v].version = v /\ log[v].call = s.calls[v]
  BY DEF Fits
<1>2. T!last(s.log) = n
  BY LastFits
<1> HIDE DEF n, log
<1>3. ASSUME NEW a \in 0..n, a < n, a + 1 >= o
      PROVE  T!next(log, a) = a + 1
  <2> DEFINE later == {r \in DOMAIN log : r > a}
  <2>1. later = (a + 1)..n
    BY <1>1, <1>3
  <2>2. a + 1 \in later /\ \A x \in later : a + 1 <= x
    BY <1>1, <1>3, <2>1
  <2>3. T!next(log, a) = T!Min(later)
    BY <2>2 DEF T!next
  <2>4. T!Min(later) = a + 1
    <3>1. \A x \in later : x \in Int
      BY <1>1
    <3> HIDE DEF later
    <3> QED
      BY <2>2, <3>1 DEF T!Min
  <2> QED
    BY <2>3, <2>4
<1>4. T!next(log, n) = T!None
  <2>1. {r \in DOMAIN log : r > n} = {}
    BY <1>1
  <2> QED
    BY <2>1 DEF T!next
<1>5. ASSUME NEW a \in o..n, a # o
      PROVE  T!prev(log, a) = a - 1
  <2> DEFINE earlier == {r \in DOMAIN log : r < a}
  <2>1. earlier = o..(a - 1)
    BY <1>1, <1>5
  <2>2. a - 1 \in earlier /\ \A x \in earlier : a - 1 >= x
    BY <1>1, <1>5, <2>1
  <2>3. T!prev(log, a) = T!Max(earlier)
    BY <2>2 DEF T!prev
  <2>4. T!Max(earlier) = a - 1
    <3>1. \A x \in earlier : x \in Int
      BY <1>1
    <3> HIDE DEF earlier
    <3> QED
      BY <2>2, <3>1 DEF T!Max
  <2> QED
    BY <2>3, <2>4
<1>6. T!prev(log, o) = T!None
  <2>1. {r \in DOMAIN log : r < o} = {}
    BY <1>1
  <2> QED
    BY <2>1 DEF T!prev
<1>7. T!first(log) = o
  <2> DEFINE later == {r \in DOMAIN log : r > 0}
  <2>1. later = o..n
    BY <1>1
  <2>2. o \in later /\ \A x \in later : o <= x
    BY <1>1, <2>1
  <2>3. T!first(log) = T!Min(later)
    BY <2>2 DEF T!first, T!next
  <2>4. T!Min(later) = o
    <3>1. \A x \in later : x \in Int
      BY <1>1
    <3> HIDE DEF later
    <3> QED
      BY <2>2, <3>1 DEF T!Min
  <2> QED
    BY <2>3, <2>4
<1>8. ASSUME NEW v \in o..n
      PROVE  /\ T!get(log, v) = v /\ log[v].call = s.calls[v]
             /\ T!increment(log, v) = IF v = n THEN T!None ELSE v + 1
             /\ T!decrement(log, v) = IF v = o THEN T!None ELSE v - 1
             /\ \A q \in DOMAIN log : T!advance(log, v, T!distance_to(log, v, q)) = q
  <2>1. T!get(log, v) = v /\ log[v].call = s.calls[v]
    BY <1>1 DEF T!get
  <2>2. T!increment(log, v) = IF v = n THEN T!None ELSE v + 1
    <3>1. CASE v = n
      BY <1>4, <3>1 DEF T!increment
    <3>2. CASE v # n
      <4>1. v \in 0..n /\ v < n /\ v + 1 >= o
        BY <1>1, <3>2
      <4> QED
        BY <1>3, <3>2, <4>1 DEF T!increment
    <3> QED
      BY <3>1, <3>2
  <2>3. T!decrement(log, v) = IF v = o THEN T!None ELSE v - 1
    BY <1>5, <1>6 DEF T!decrement
  <2>4. ASSUME NEW q \in DOMAIN log PROVE T!advance(log, v, T!distance_to(log, v, q)) = q
    <3>1. log[q].version = q /\ log[v].version = v /\ q \in Nat /\ v \in Nat
      BY <1>1, <2>4
    <3>2. v + (q - v) = q
      BY <3>1
    <3> QED
      BY <2>4, <3>1, <3>2 DEF T!advance, T!distance_to, T!get
  <2> QED
    BY <2>1, <2>2, <2>3, <2>4
<1>9. \A v \in 1..n : v < o => T!get(log, v) = T!None
  BY <1>1 DEF T!get
<1>10. \A v \in 1..n : ~(v < o) => v \in o..n
  BY <1>1
<1> QED
  BY <1>1, <1>2, <1>7, <1>8, <1>9, <1>10 DEF n, log

(***************************************************************************)
(* The version of a logged call is its place among all calls that were     *)
(* ever logged, find() finds the calls that are left by it, and the        *)
(* iterators meet them one by one and count them right, after any number   *)
(* of appends and prunings that leave a record (append_txn,                *)
(* prune_txns_prior_to, txlog_iterator.cpp).                               *)
(***************************************************************************)
THEOREM LogVersionsArePlaces == T!VersionsArePlaces(Seq(Nat))
<1> SUFFICES ASSUME NEW history \in Seq(Nat),
                    \A i \in DOMAIN history : history[i] <= T!last(T!Run(history)[i - 1].log),
                    NEW i \in DOMAIN history
             PROVE  LET log == T!Run(history)[i].log
                        all == T!Run(history)[i].calls
                        oldest == T!Max({1} \cup {history[j] : j \in 1 .. i})
                    IN /\ T!first(log) = oldest /\ T!last(log) = Len(all)
                       /\ \A v \in DOMAIN all :
                            IF v < oldest THEN T!get(log, v) = T!None
                            ELSE /\ T!get(log, v) = v /\ log[v].call = all[v]
                                 /\ T!increment(log, v) = IF v = Len(all) THEN T!None ELSE v + 1
                                 /\ T!decrement(log, v) = IF v = oldest THEN T!None ELSE v - 1
                                 /\ \A q \in DOMAIN log :
                                       T!advance(log, v, T!distance_to(log, v, q)) = q
  BY DEF T!VersionsArePlaces
<1> DEFINE N == Len(history)
           run == T!Run(history)
           P(k) == {1} \cup {history[j] : j \in 1..k}
           Good == {k \in 0..N : \E o \in Nat : /\ Fits(run[k], o)
                                                /\ o \in P(k) /\ \A x \in P(k) : x <= o
                                                /\ k # 0 => Len(run[k].calls) # 0}
<1>1. N \in Nat /\ DOMAIN history = 1..N /\ \A k \in 1..N : history[k] \in Nat
  OBVIOUS
<1>2. /\ run[0] = [log |-> << >>, calls |-> << >>]
      /\ \A k \in 1..N : run[k] = T!After(run[k - 1], history[k], k)
  BY RunIs
<1>3. \A k \in 1..N : history[k] <= T!last(run[k - 1].log)
  BY <1>1
<1> HIDE DEF N, run
<1>4. 0 \in Good
  <2>1. Fits(run[0], 1)
    BY <1>2 DEF Fits
  <2>2. P(0) = {1}
    OBVIOUS
  <2> HIDE DEF P
  <2> QED
    BY <1>1, <2>1, <2>2
<1>5. ASSUME NEW k \in 0..(N - 1), k \in Good PROVE k + 1 \in Good
  <2> DEFINE s == run[k]
             h == history[k + 1]
  <2>1. k + 1 \in 1..N /\ k + 1 \in 0..N /\ k + 1 # 0 /\ (k + 1) - 1 = k /\ k \in Nat
    BY <1>1
  <2>2. run[k + 1] = T!After(s, h, k + 1) /\ h <= T!last(s.log) /\ h \in Nat
    BY <1>1, <1>2, <1>3, <2>1
  <2>3. PICK o \in Nat : Fits(s, o) /\ o \in P(k) /\ \A x \in P(k) : x <= o
    BY <1>5
  <2>4. P(k + 1) = P(k) \cup {h}
    BY <2>1
  <2>5. T!last(s.log) = Len(s.calls) /\ Len(s.calls) \in Nat
    <3> HIDE DEF s, P
    <3>1. T!last(s.log) = Len(s.calls)
      BY <2>3, LastFits
    <3> QED
      BY <2>3, <3>1 DEF Fits
  <2> SUFFICES \E p \in Nat : /\ Fits(run[k + 1], p)
                              /\ p \in P(k + 1) /\ \A x \in P(k + 1) : x <= p
                              /\ Len(run[k + 1].calls) # 0
    BY <2>1
  <2> HIDE DEF P, s, h
  <2>6. CASE h = 0
    <3>1. Fits(T!After(s, 0, k + 1), o) /\ Len(T!After(s, 0, k + 1).calls) = Len(s.calls) + 1
      BY <2>1, <2>3, AppendFits
    <3>2. Fits(run[k + 1], o) /\ Len(run[k + 1].calls) # 0
      BY <2>2, <2>5, <2>6, <3>1
    <3>3. o \in P(k + 1) /\ \A x \in P(k + 1) : x <= o
      BY <2>3, <2>4, <2>6
    <3> QED
      BY <3>2, <3>3
  <2>7. CASE h # 0
    <3> DEFINE p == IF o < h THEN h ELSE o
    <3>1. h \in Nat \ {0} /\ h <= Len(s.calls)
      BY <2>2, <2>5, <2>7
    <3>2. Fits(T!After(s, h, k + 1), p) /\ T!After(s, h, k + 1).calls = s.calls
      BY <2>1, <2>3, <3>1, PruneFits
    <3>3. Fits(run[k + 1], p) /\ Len(run[k + 1].calls) # 0
      BY <2>2, <2>5, <3>1, <3>2
    <3>4. \A x \in P(k) : x \in Int
      BY <1>1, <2>1 DEF P
    <3>5. p \in Nat /\ p \in P(k + 1) /\ \A x \in P(k + 1) : x <= p
      BY <2>2, <2>3, <2>4, <3>4
    <3> QED
      BY <3>3, <3>5
  <2> QED
    BY <2>6, <2>7
<1> HIDE DEF Good
<1>6. \A k \in 0..N : k \in Good
  BY <1>1, <1>4, <1>5, UpTo
<1>7. i \in 0..N /\ i # 0 /\ i \in Nat /\ i <= N
  BY <1>1
<1>8. PICK o \in Nat : /\ Fits(run[i], o)
                       /\ o \in P(i) /\ \A x \in P(i) : x <= o
                       /\ Len(run[i].calls) # 0
  BY <1>6, <1>7 DEF Good
<1>9. T!Max(P(i)) = o
  <2>1. \A x \in P(i) : x \in Int
    BY <1>1, <1>7
  <2> DEFINE S == P(i)
  <2>2. o \in S /\ \A x \in S : x \in Int /\ x <= o
    BY <1>8, <2>1
  <2> HIDE DEF S
  <2>3. T!Max(S) = o
    BY <2>2, MaxIs
  <2> QED
    BY <2>3 DEF S
<1> DEFINE s == run[i]
<1>10. /\ T!first(s.log) = o /\ T!last(s.log) = Len(s.calls)
       /\ \A v \in DOMAIN s.calls :
            IF v < o THEN T!get(s.log, v) = T!None
            ELSE /\ T!get(s.log, v) = v /\ s.log[v].call = s.calls[v]
                 /\ T!increment(s.log, v) = IF v = Len(s.calls) THEN T!None ELSE v + 1
                 /\ T!decrement(s.log, v) = IF v = o THEN T!None ELSE v - 1
                 /\ \A q \in DOMAIN s.log : T!advance(s.log, v, T!distance_to(s.log, v, q)) = q
  <2> HIDE DEF s
  <2>1. Fits(s, o) /\ Len(s.calls) # 0
    BY <1>8 DEF s
  <2> QED
    BY <2>1, FitsIsPlaces
<1> QED
  BY <1>9, <1>10 DEF run
=============================================================================
