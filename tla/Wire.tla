-------------------------------- MODULE Wire --------------------------------
(***************************************************************************)
(* What the protocol buffer code of a message class does, for any class    *)
(* (the *.pb.cpp files).  A class is the sequence of its fields, in the    *)
(* order of their numbers; a message is a record with, for every field, the*)
(* sequence of its values: empty when the has-bit of a singular field is   *)
(* not set.  What was read and not understood is kept under "unknown".     *)
(* Bytes are left out: a wire is a sequence of tagged values, and a nested *)
(* message in it is a wire.                                                *)
(***************************************************************************)
EXTENDS Integers, Sequences, TLC

Field(name, label, kind, sub) == [name |-> name, label |-> label, kind |-> kind, sub |-> sub]

\* The kinds of fields.  "sub" is the class of a message, or the valid values
\* of an enumeration.
Number(name, label)       == Field(name, label, "number", << >>)
Bytes(name, label)        == Field(name, label, "bytes", << >>)
Enum(name, label, valid)  == Field(name, label, "enum", valid)
Sub(name, label, class)   == Field(name, label, "message", class)

\* The constructor, and Clear().
Cleared(class) ==
    [name \in {class[i].name : i \in DOMAIN class} |-> << >>] @@ [unknown |-> << >>]

\* WIRETYPE_VARINT and WIRETYPE_LENGTH_DELIMITED.
WireType(field) == IF field.kind \in {"number", "enum"} THEN "varint" ELSE "delimited"

Token(number, wiretype, value) == [number |-> number, type |-> wiretype, value |-> value]

-----------------------------------------------------------------------------
(* MergePartialFromCodedStream *)

\* A tag that the class has no field for, of another wire type than the field,
\* or an enumeration value that is not valid.  A repeated number may also come
\* packed into one delimited token.
Understood(class, t) ==
    /\ t.number \in DOMAIN class
    /\ LET f == class[t.number]
       IN /\ \/ t.type = WireType(f)
             \/ f.label = "repeated" /\ f.kind = "number"
          /\ f.kind = "enum" => t.value \in f.sub

\* A repeated field grows, a singular one is set again, and a singular message
\* is merged into the one that is there.
RECURSIVE Merged(_, _, _)
Merged(class, m, wire) ==
    IF wire = << >> THEN m
    ELSE
      LET t == Head(wire)
          f == class[t.number]
          old == m[f.name]
          value == IF f.kind # "message" THEN t.value
                   ELSE Merged(f.sub, IF f.label = "repeated" \/ old = << >>
                                        THEN Cleared(f.sub) ELSE old[1], t.value)
          new == IF f.label # "repeated" THEN <<value>>
                 ELSE IF t.type # WireType(f) THEN old \o value
                 ELSE Append(old, value)
      IN Merged(class,
                IF Understood(class, t) THEN [m EXCEPT ![f.name] = new]
                                        ELSE [m EXCEPT !.unknown = Append(@, t)],
                Tail(wire))

\* ParseFromString clears the message first.
Parse(class, wire) == Merged(class, Cleared(class), wire)

-----------------------------------------------------------------------------
(* SerializeWithCachedSizes *)

\* The fields in the order of their numbers, then what was not understood.
RECURSIVE Serialized(_, _)
Serialized(class, m) ==
    LET token(i, value) ==
            Token(i, WireType(class[i]),
                  IF class[i].kind = "message" THEN Serialized(class[i].sub, value)
                                               ELSE value)
        upTo[i \in 0 .. Len(class)] ==
            IF i = 0 THEN << >>
            ELSE LET values == m[class[i].name]
                 IN upTo[i - 1] \o [j \in DOMAIN values |-> token(i, values[j])]
    IN upTo[Len(class)] \o m.unknown

-----------------------------------------------------------------------------
(* IsInitialized, MergeFrom *)

RECURSIVE IsInitialized(_, _)
IsInitialized(class, m) ==
    \A i \in DOMAIN class :
        LET f == class[i]
        IN /\ f.label = "required" => m[f.name] # << >>
           /\ f.kind = "message" =>
                 \A j \in DOMAIN m[f.name] : IsInitialized(f.sub, m[f.name][j])

RECURSIVE MergedFrom(_, _, _)
MergedFrom(class, m, from) ==
    [name \in DOMAIN m |->
        IF name = "unknown" THEN m.unknown \o from.unknown
        ELSE LET f == class[CHOOSE i \in DOMAIN class : class[i].name = name]
             IN IF f.label = "repeated" THEN m[name] \o from[name]
                ELSE IF from[name] = << >> THEN m[name]
                ELSE IF f.kind = "message" /\ m[name] # << >>
                  THEN <<MergedFrom(f.sub, m[name][1], from[name][1])>>
                ELSE from[name]]
=============================================================================
