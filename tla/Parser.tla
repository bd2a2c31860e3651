------------------------------- MODULE Parser --------------------------------
(***************************************************************************)
(* The parser of range expressions as it was generated                     *)
(* (librange/compiler/RangeParser_v1.cpp): a stack of states, one state's  *)
(* table for every lookup, and the actions that build the tree.  A token   *)
(* is its type and the text that the scanner matched.                      *)
(***************************************************************************)
EXTENDS Ast, Integers, Sequences, SequencesExt, FiniteSets, TLC

\* s_productionInfo
Productions ==
    <<<<"keyexpand", 3>>, <<"union", 3>>, <<"difference", 3>>, <<"intersection", 3>>,
      <<"sequence", 3>>, <<"expand", 2>>, <<"get_cluster", 2>>, <<"admin", 2>>,
      <<"group", 3>>, <<"braceexpand", 5>>, <<"function_arguments", 1>>,
      <<"function_arguments", 3>>, <<"function_name", 1>>, <<"function", 4>>,
      <<"word", 1>>, <<"literal", 1>>, <<"literal", 1>>, <<"regex", 1>>, <<"regex", 2>>,
      <<"null", 0>>>>
    \o [i \in 1 .. 16 |-> <<"expr", 1>>] \o <<<<"start", 1>>>>

-----------------------------------------------------------------------------
(* The states: "on" is the next state for a symbol, and default the action *)
(* for all others, to reduce by a production or, without one, to throw     *)
(* UNEXPECTED_TOKEN__.  Only a state with "req" asks for a token.          *)

NoDefault == 0
Shift(on, default) == [req |-> TRUE, on |-> on, default |-> default]
Reduce(production) == [req |-> FALSE, on |-> << >>, default |-> production]

\* An expression may start here; without one there is the empty expression.
Expecting(on) ==
    Shift(on @@ [regex |-> 3, literal |-> 4, function_name |-> 5, word |-> 6, sequence |-> 7,
                 group |-> 8, union |-> 9, difference |-> 10, intersection |-> 11,
                 braceexpand |-> 12, keyexpand |-> 13, expand |-> 14, admin |-> 15,
                 get_cluster |-> 16, function |-> 17, null |-> 18, REGEX |-> 19,
                 SINGLEQUOTED |-> 21, DOUBLEQUOTED |-> 22, FUNCTION |-> 23, BAREWORD |-> 24]
             @@ ("!" :> 20) @@ ("(" :> 25) @@ ("%" :> 26) @@ ("^" :> 27) @@ ("*" :> 28), 20)

Tight == ("{" :> 32) @@ (":" :> 33)
Operators == ("," :> 29) @@ ("-" :> 30) @@ ("&" :> 31) @@ Tight

\* s_0 to s_2
Outermost(q) ==
    CASE q = 0 -> Expecting([start |-> 1, expr |-> 2])
      [] q = 1 -> Shift([EOF |-> 0], NoDefault)
      [] q = 2 -> Shift(Operators, 37)

\* s_3 to s_18: what is an expression by itself.
Complete(q) ==
    CASE q = 5 -> Shift("(" :> 34, 23)
      [] q = 6 -> Shift([SEQUENCE |-> 35], 24)
      [] OTHER -> Reduce(q + 18)

\* s_19 to s_24
Terminal(q) ==
    CASE q = 19 -> Reduce(18)
      [] q = 20 -> Shift([REGEX |-> 36], NoDefault)
      [] q = 21 -> Reduce(16)
      [] q = 22 -> Reduce(17)
      [] q = 23 -> Reduce(13)
      [] q = 24 -> Reduce(15)

\* s_25 to s_32: after an opening bracket, a prefix or an operator.
Operand(q) == Expecting([expr |-> q + 12])

\* s_33 to s_36
Nested(q) ==
    CASE q = 33 -> Shift([word |-> 45, BAREWORD |-> 24], NoDefault)
      [] q = 34 -> Expecting([function_arguments |-> 46, expr |-> 47])
      [] q = 35 -> Shift([word |-> 48, BAREWORD |-> 24], NoDefault)
      [] q = 36 -> Reduce(19)

\* A variant: a prefix takes all that follows.
OperationLoose(q) ==
    CASE q = 37 -> Shift((")" :> 49) @@ Operators, NoDefault)
      [] q = 44 -> Shift(("}" :> 50) @@ Operators, NoDefault)
      [] q \in 38 .. 40 -> Shift(Operators, <<6, 8, 7>>[q - 37])
      [] OTHER -> Shift(Tight, <<2, 3, 4>>[q - 40])

\* s_37 to s_44: the operand was read.
Operation(q) ==
    CASE q = 37 -> Shift((")" :> 49) @@ Operators, NoDefault)
      [] q = 44 -> Shift(("}" :> 50) @@ Operators, NoDefault)
      [] OTHER -> Shift(Tight, <<6, 8, 7, 2, 3, 4>>[q - 37])

\* s_45 to s_54
Closing(q) ==
    CASE q = 45 -> Reduce(1)
      [] q = 46 -> Shift((")" :> 51) @@ (";" :> 52), NoDefault)
      [] q = 47 -> Shift(Operators, 11)
      [] q = 48 -> Reduce(5)
      [] q = 49 -> Reduce(9)
      [] q = 50 -> Expecting([expr |-> 53])
      [] q = 51 -> Reduce(14)
      [] q = 52 -> Expecting([expr |-> 54])
      [] q = 53 -> Shift(<< >>, 10)
      [] q = 54 -> Shift(Operators, 12)

s_state(q) ==
    CASE q \in 0 .. 2   -> Outermost(q)
      [] q \in 3 .. 18  -> Complete(q)
      [] q \in 19 .. 24 -> Terminal(q)
      [] q \in 25 .. 32 -> Operand(q)
      [] q \in 33 .. 36 -> Nested(q)
      [] q \in 37 .. 44 -> Operation(q)
      [] q \in 45 .. 54 -> Closing(q)

-----------------------------------------------------------------------------
(* The parser p: the stack of states and their values, the token in hand   *)
(* and the one put back behind it with the value each has, the tokens that *)
(* are left, and the text of the last one that was read.                   *)

Undetermined == "undetermined"

\* STYPE__(): the empty word.
NoValue == Word(<< >>)

Pushed(p, q) == [p EXCEPT !.stack = Append(@, q), !.vals = Append(@, p.val)]

\* pop__, reduce__: the token in hand is what was reduced to.
Reduced(p, production) ==
    LET lhs == Productions[production][1]
        size == Productions[production][2]
    IN [p EXCEPT !.token = lhs,
                 !.stack = SubSeq(@, 1, Len(@) - size), !.vals = SubSeq(@, 1, Len(@) - size)]

\* popToken__
TokenPopped(p) == [p EXCEPT !.token = p.nextToken, !.val = p.nextVal,
                            !.nextToken = Undetermined, !.nextVal = NoValue]

\* pushToken__
TokenSaved(p) ==
    IF p.token = Undetermined THEN p ELSE [p EXCEPT !.nextToken = p.token, !.nextVal = p.val]

\* lex() gives a new token and leaves d_val__ as it was.
nextToken(p) ==
    IF p.token # Undetermined THEN p
    ELSE IF p.nextToken # Undetermined THEN TokenPopped(p)
    ELSE IF p.input = << >> THEN [p EXCEPT !.token = "EOF", !.matched = << >>]
    ELSE [p EXCEPT !.token = Head(p.input).type, !.matched = Head(p.input).text,
                   !.input = Tail(@)]

\* executeAction: the value of the production.  A single-quoted literal has no
\* action, and takes the value that its token was pushed with.
Value(p, production) ==
    LET n == Len(p.vals)
        v(i) == p.vals[n - i]
    IN CASE production = 1 -> KeyExpand(v(2), v(0))
         [] production = 2 -> Union(v(2), v(0))
         [] production = 3 -> Difference(v(2), v(0))
         [] production = 4 -> Intersection(v(2), v(0))
         [] production = 5 -> Sequence(v(2), v(0))
         [] production = 6 -> Expand(v(0))
         [] production = 7 -> GetCluster(v(0))
         [] production = 8 -> Admin(v(0))
         [] production = 9 -> Group(v(1))
         [] production = 10 -> BraceExpand(v(4), v(2), v(0))
         [] production = 11 -> Arguments(<<v(0)>>)
         [] production = 12 -> Arguments(Append(v(2).args, v(0)))
         [] production \in {13, 15} -> Word(p.matched)
         [] production = 14 -> Function(v(3).w, v(1).args)
         [] production = 17 -> Literal(p.matched)
         [] production \in {18, 19} -> Regex(p.matched, production = 18)
         [] production = 20 -> Null
         [] OTHER -> v(0)

\* lookup(): TRUE with the next state, or FALSE with the default.
Found(p, table) == p.token \in DOMAIN table.on

\* The loop of parse(), to ACCEPT or ABORT: no state can recover from an error.
RECURSIVE Loop(_)
Loop(p0) ==
    LET table == s_state(Last(p0.stack))
        p == IF table.req THEN nextToken(p0) ELSE p0
        reduced == Reduced([TokenSaved(p) EXCEPT !.val = Value(p, table.default)], table.default)
    IN IF ~Found(p, table)
         THEN IF table.default = NoDefault THEN [ok |-> FALSE] ELSE Loop(reduced)
       ELSE IF table.on[p.token] = 0 THEN [ok |-> TRUE, ast |-> Last(p.vals)]
       ELSE Loop(TokenPopped(Pushed(p, table.on[p.token])))

parse(tokens) ==
    Loop([stack |-> <<0>>, vals |-> <<NoValue>>, token |-> Undetermined, val |-> NoValue,
          nextToken |-> Undetermined, nextVal |-> NoValue, input |-> tokens,
          matched |-> << >>])

-----------------------------------------------------------------------------
(* The grammar (librange/compiler/grammar.ycpp), as the reference.         *)

OneToken(s, type) == Len(s) = 1 /\ s[1].type = type

WordOf(s) == IF OneToken(s, "BAREWORD") THEN {Word(s[1].text)} ELSE {}

\* The three parts of s around the token i.
Before(s, i) == SubSeq(s, 1, i - 1)
After(s, i) == SubSeq(s, i + 1, Len(s))

\* All trees that the rules for expr give to the tokens s, in whichever order
\* the operators are applied.  (A single-quoted literal is left out.)
RECURSIVE Trees(_)
Trees(s) ==
    LET ops(type) == {i \in DOMAIN s : s[i].type = type}
        prefixed(type) == IF s # << >> /\ s[1].type = type THEN Trees(Tail(s)) ELSE {}
        enclosed == IF Len(s) > 1 /\ s[1].type = "(" /\ Last(s).type = ")"
                      THEN Trees(SubSeq(s, 2, Len(s) - 1)) ELSE {}
        pairs(type) == UNION {Trees(Before(s, i)) \X Trees(After(s, i)) : i \in ops(type)}
    IN (IF s = << >> THEN {Null} ELSE {})
       \cup WordOf(s)
       \cup (IF OneToken(s, "FUNCTION") THEN {Word(s[1].text)} ELSE {})
       \cup (IF OneToken(s, "DOUBLEQUOTED") THEN {Literal(s[1].text)} ELSE {})
       \cup (IF OneToken(s, "REGEX") THEN {Regex(s[1].text, TRUE)} ELSE {})
       \cup (IF Len(s) = 2 /\ s[1].type = "!" /\ s[2].type = "REGEX"
               THEN {Regex(s[2].text, FALSE)} ELSE {})
       \cup {Sequence(l, r) : l \in UNION {WordOf(Before(s, i)) : i \in ops("SEQUENCE")},
                              r \in UNION {WordOf(After(s, i)) : i \in ops("SEQUENCE")}}
       \cup {Group(a) : a \in enclosed}
       \cup {Expand(a) : a \in prefixed("%")}
       \cup {GetCluster(a) : a \in prefixed("*")}
       \cup {Admin(a) : a \in prefixed("^")}
       \cup {Union(p[1], p[2]) : p \in pairs(",")}
       \cup {Difference(p[1], p[2]) : p \in pairs("-")}
       \cup {Intersection(p[1], p[2]) : p \in pairs("&")}
       \cup UNION {{KeyExpand(l, r) : l \in Trees(Before(s, i)), r \in WordOf(After(s, i))} :
                     i \in ops(":")}
       \cup UNION {{BraceExpand(l, c, r) : l \in Trees(Before(s, i)),
                                           c \in Trees(SubSeq(s, i + 1, j - 1)),
                                           r \in Trees(After(s, j))} :
                     i \in ops("{"), j \in ops("}")}
       \cup (IF Len(s) > 2 /\ s[1].type = "FUNCTION" /\ s[2].type = "(" /\ Last(s).type = ")"
               THEN LET inner == SubSeq(s, 3, Len(s) - 1)
                        \* function_arguments
                        lists[n \in 0 .. Len(inner)] ==
                            {<<a>> : a \in Trees(SubSeq(inner, 1, n))}
                            \cup UNION {{Append(l, a) : l \in lists[i - 1],
                                                        a \in Trees(SubSeq(inner, i + 1, n))} :
                                          i \in {i \in 1 .. n : inner[i].type = ";"}}
                    IN {Function(s[1].text, args) : args \in lists[Len(inner)]}
               ELSE {})

-----------------------------------------------------------------------------
(* %left: the later the line, the tighter the operator; operators of one   *)
(* line from left to right.                                                *)

SetOps == {"union", "difference", "intersection"}
PrefixOps == {"expand", "get_cluster", "admin"}

\* A tree whose last operand is that of a prefix.
RECURSIVE EndsInPrefix(_)
EndsInPrefix(t) == t.op \in PrefixOps \/ (t.op = "braceexpand" /\ EndsInPrefix(t.r))

\* A tree in which every operator has taken the operands that its line gives
\* it.
RECURSIVE Binds(_)
Binds(t) ==
    CASE t.op \in SetOps -> Binds(t.l) /\ Binds(t.r) /\ t.r.op \notin SetOps
      [] t.op \in PrefixOps -> Binds(t.a) /\ t.a.op \notin SetOps
      [] t.op = "group" -> Binds(t.a)
      [] t.op = "keyexpand" -> Binds(t.l) /\ t.l.op \notin SetOps /\ ~EndsInPrefix(t.l)
      [] t.op = "braceexpand" ->
            /\ Binds(t.l) /\ Binds(t.c) /\ Binds(t.r)
            /\ t.l.op \notin SetOps /\ ~EndsInPrefix(t.l)
            /\ t.r.op \notin SetOps \cup {"keyexpand", "braceexpand"}
      [] t.op = "function" -> \A i \in DOMAIN t.args : Binds(t.args[i])
      [] OTHER -> TRUE

(***************************************************************************)
(* The generated parser accepts just the sentences of the grammar, and     *)
(* builds the one tree in which the operators bind as the %left lines of   *)
(* grammar.ycpp say: set operators from left to right, then the prefixes,  *)
(* then ':' and the braces.                                                *)
(***************************************************************************)
ParsesGrammar(sentences) ==
    \A s \in sentences :
        LET r == parse(s)
            trees == {t \in Trees(s) : Binds(t)}
        IN IF trees = {} THEN ~r.ok ELSE r.ok /\ trees = {r.ast}
=============================================================================
