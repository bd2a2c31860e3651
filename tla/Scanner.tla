------------------------------ MODULE Scanner -------------------------------
(***************************************************************************)
(* The scanner of range expressions as it was generated                    *)
(* (librange/compiler/RangeScanner_v1.cpp) from lexer.lcpp.  A text is a   *)
(* sequence of characters, of which a few stand for all: the scanner tells *)
(* no others apart.  What it echoes goes to /dev/null.  No rule is bound   *)
(* to the beginning of a line, so that is not followed.                    *)
(***************************************************************************)
EXTENDS Integers, Sequences, SequencesExt, FiniteSets, FiniteSetsExt, TLC

\* s_ranges__: the characters that the rules tell apart; "NUL" stands for
\* those that no rule matches, "=" for those that only "." matches, and "f"
\* is a letter that is also the name of a function.
Blank == {" ", "\t", "\r", "\n"}
Digit == {"0", "1", "2", "3", "4", "5", "6", "7", "8", "9"}
WordChar == {"a", "b", "f"} \cup Digit
Single == {"!", "%", "&", "(", ")", "*", "-", ":", ";", "^", "{", "}"}
Quote == {"/", "'", "\""}
Char == Blank \cup WordChar \cup Single \cup Quote \cup {",", ".", "\\", "=", "NUL"}
Dot == Char \ {"\n", "NUL"}
EOF == "EOF"

\* function_st_
FunctionName == {<<"f">>}

-----------------------------------------------------------------------------
(* The automaton of each start condition: where a character leads from a   *)
(* state, and the rule that a state has matched.                           *)

NoRule == -1

To(q, chars) == [ch \in chars |-> q]

\* The rows that continue; in all others there is no transition.
InitialRows ==
    (0 :> (To(1, Blank) @@ To(2, Single) @@ To(3, {"\""}) @@ To(4, WordChar) @@ To(5, {"'"})
           @@ To(6, {","}) @@ To(7, {"."}) @@ To(8, {"/"})))
    @@ (1 :> To(1, Blank)) @@ (7 :> To(9, {"."}))

QuotedRows(quote) == 0 :> (To(2, {quote}) @@ To(3, {"\\"}) @@ To(1, Dot))

SetRows == 0 :> (To(2, {"&"}) @@ To(3, {"-"}) @@ To(1, Dot))

WordRows ==
    (0 :> (To(2, WordChar \cup {"-"}) @@ To(3, {"."}) @@ To(4, {EOF}) @@ To(1, Dot)))
    @@ (3 :> To(5, {"."}))

s_dfa ==
    [INITIAL |-> InitialRows, squotedstring |-> QuotedRows("'"),
     dquotedstring |-> QuotedRows("\""), regex |-> QuotedRows("/"),
     escape |-> 0 :> To(1, Dot), setoperation |-> SetRows, bareword |-> WordRows]

\* The column s_finIdx__ of the rows, from state 0 on.
s_final ==
    [INITIAL |-> <<NoRule, 0, 25, 6, 19, 10, 14, NoRule, 2, 18>>,
     squotedstring |-> <<NoRule, 13, 12, 11>>, dquotedstring |-> <<NoRule, 9, 8, 7>>,
     regex |-> <<NoRule, 5, 4, 3>>, escape |-> <<NoRule, 1>>,
     setoperation |-> <<NoRule, 17, 16, 15>>, bareword |-> <<NoRule, 23, 20, 22, 24, 21>>]

-----------------------------------------------------------------------------
(* The scanner p: its start condition and statestack, the text to be read  *)
(* (what was put back included), d_matched, d_more, and the token that the *)
(* last action returned.                                                   *)

NoToken == "none"

begin(p, sc) == [p EXCEPT !.sc = sc]
more(p) == [p EXCEPT !.more = TRUE]
returns(p, token) == [p EXCEPT !.token = token]

\* discard: it also sets d_more.
discard(p) == more([p EXCEPT !.matched = Front(@)])

\* redo, setMatchedSize: put back all but the first n matched characters.
PutBack(p, n) == [p EXCEPT !.input = SubSeq(p.matched, n + 1, Len(p.matched)) \o @,
                           !.matched = SubSeq(@, 1, n)]

redo(p, n) == PutBack(p, IF n >= Len(p.matched) THEN 0 ELSE Len(p.matched) - n)

\* The rules within quotes.
QuotedAction(p, rule) ==
    CASE rule \in {3, 7, 11} -> begin([discard(p) EXCEPT !.stack = Append(@, p.sc)], "escape")
      [] rule \in {4, 8, 12} ->
            returns(begin(discard(p), "INITIAL"),
                    CASE rule = 4 -> "REGEX" [] rule = 8 -> "DOUBLEQUOTED"
                      [] rule = 12 -> "SINGLEQUOTED")
      [] rule \in {5, 9, 13} -> more(p)
      [] rule = 1 -> begin([more(p) EXCEPT !.stack = Front(@)], Last(p.stack))

\* The rules after a comma.
SetAction(p, rule) ==
    CASE rule = 15 -> returns(begin(p, "INITIAL"), "-")
      [] rule = 16 -> returns(begin(p, "INITIAL"), "&")
      [] rule = 17 -> returns(begin(redo(p, 1), "INITIAL"), ",")

\* A word has ended with p.
WordReturned(p) ==
    returns(begin(p, "INITIAL"), IF p.matched \in FunctionName THEN "FUNCTION" ELSE "BAREWORD")

\* The rules within a word.
WordAction(p, rule) ==
    CASE rule \in {20, 22} -> more(p)
      [] rule = 21 -> WordReturned(redo(p, 2))
      [] rule = 23 -> WordReturned(redo(p, 1))
      [] rule = 24 -> WordReturned(p)

executeAction(p, rule) ==
    CASE rule = 2 -> begin(p, "regex")
      [] rule = 6 -> begin(p, "dquotedstring")
      [] rule = 10 -> begin(p, "squotedstring")
      [] rule = 14 -> begin(p, "setoperation")
      [] rule = 18 -> returns(p, "SEQUENCE")
      [] rule = 19 -> begin(more(p), "bareword")
      [] rule = 25 -> returns(p, p.matched[1])
      [] rule = 0 -> p
      [] rule \in {1, 3, 4, 5, 7, 8, 9, 11, 12, 13} -> QuotedAction(p, rule)
      [] rule \in 15 .. 17 -> SetAction(p, rule)
      [] rule \in 20 .. 24 -> WordAction(p, rule)

-----------------------------------------------------------------------------
\* reset__
reset(p) == [p EXCEPT !.matched = IF p.more THEN @ ELSE << >>, !.more = FALSE,
                      !.token = NoToken]

\* updateFinals__: the last rule matched on the way, and the length it had.
updateFinals(p, q, final) ==
    LET rule == s_final[p.sc][q + 1]
    IN IF rule # NoRule THEN [rule |-> rule, length |-> Len(p.matched)] ELSE final

Transitions(p, q) == IF q \in DOMAIN s_dfa[p.sc] THEN s_dfa[p.sc][q] ELSE << >>

continue(p, ch) ==
    IF ch = EOF THEN p ELSE [p EXCEPT !.matched = Append(@, ch), !.input = Tail(@)]

\* echoFirst__, and the reset__ after it: the first character is lost.
echoFirst(p) == [p EXCEPT !.input = Tail(p.matched) \o @, !.matched = << >>]

(***************************************************************************)
(* lex__ from state q: the character at hand leads on (CONTINUE), the last *)
(* rule met is matched (MATCH), or without one a character is echoed       *)
(* (ECHO_FIRST, ECHO_CH) or the text has ended (RETURN).                   *)
(***************************************************************************)
RECURSIVE lex(_, _, _)
lex(p, q, final0) ==
    LET ch == IF p.input = << >> THEN EOF ELSE Head(p.input)
        final == updateFinals(p, q, final0)
        on == Transitions(p, q)
        none == [rule |-> NoRule, length |-> 0]
        done == executeAction(PutBack(p, final.length), final.rule)
    IN IF ch \in DOMAIN on THEN lex(continue(p, ch), on[ch], final)
       ELSE IF final.rule # NoRule
         THEN IF done.token # NoToken THEN done ELSE lex(reset(done), 0, none)
       ELSE IF p.matched # << >> THEN lex(reset(echoFirst(p)), 0, none)
       ELSE IF ch # EOF THEN lex(reset([p EXCEPT !.input = Tail(@)]), 0, none)
       ELSE returns(p, EOF)

\* All tokens of a text, with matched() as it was when each was returned.
RECURSIVE TokensFrom(_)
TokensFrom(p0) ==
    LET p == lex(reset(p0), 0, [rule |-> NoRule, length |-> 0])
    IN IF p.token = EOF THEN << >>
       ELSE <<[type |-> p.token, text |-> p.matched]>> \o TokensFrom(p)

scan(text) ==
    TokensFrom([sc |-> "INITIAL", stack |-> << >>, input |-> text, matched |-> << >>,
                more |-> FALSE, token |-> NoToken])

-----------------------------------------------------------------------------
(* The patterns (librange/compiler/lexer.lcpp), as the reference.          *)

\* Whether the character at i is escaped: an odd number of backslashes before.
Escaped(s, i) ==
    LET others == {j \in 1 .. i - 1 : s[j] # "\\"}
    IN (i - 1 - Max(others \cup {0})) % 2 = 1

QuoteEnds(s) == {i \in 2 .. Len(s) : s[i] = s[1] /\ ~Escaped(s, i)}

\* What stands between the quotes, without the backslashes that escape.
QuotedText(s, end) ==
    LET kept == {i \in 2 .. end - 1 : s[i] # "\\" \/ Escaped(s, i)}
    IN [k \in 1 .. Cardinality(kept) |->
          s[CHOOSE i \in kept : Cardinality({j \in kept : j <= i}) = k]]

\* A word has letters, digits, '-' and single dots.
WordEnd(s) ==
    Max({n \in 1 .. Len(s) :
           \A i \in 1 .. n : /\ s[i] \in WordChar \cup {"-", "."}
                             /\ ~(s[i] = "." /\ i < Len(s) /\ s[i + 1] = ".")})

From(s, i) == SubSeq(s, i, Len(s))
At(s, i) == IF i \in DOMAIN s THEN s[i] ELSE EOF

\* No rule of the scanner matches these in or after a word, a quote or a comma.
Breaks == {"\n", "NUL"}

\* The first token of s (or none, for what is skipped), where the rest starts,
\* and whether s is such that the scanner reads it so.
First(s) ==
    LET plain == [type |-> s[1], text |-> <<s[1]>>]
        result(token, rest, clean) == [token |-> token, rest |-> rest, clean |-> clean]
    IN CASE s[1] \in Quote /\ QuoteEnds(s) = {} ->
              result(<< >>, Len(s) + 1, \A i \in DOMAIN s : s[i] \notin Breaks \cup {"\\"})
         [] s[1] \in Quote /\ QuoteEnds(s) # {} ->
              LET end == Min(QuoteEnds(s))
                  text == QuotedText(s, end)
                  type == CASE s[1] = "/" -> "REGEX" [] s[1] = "'" -> "SINGLEQUOTED"
                            [] s[1] = "\"" -> "DOUBLEQUOTED"
              IN result(<<[type |-> type, text |-> text]>>, end + 1,
                        /\ \A i \in 2 .. end - 1 : s[i] \notin Breaks
                        /\ \/ text = << >>
                           \/ At(s, end + 1) \in Blank \cup Quote \cup {","}
                           \/ Len(text) = 1 /\ end = Len(s))
         [] s[1] = "," ->
              IF At(s, 2) \in {"-", "&"}
                THEN result(<<[type |-> s[2], text |-> <<s[2]>>]>>, 3, TRUE)
                ELSE result(<<[type |-> ",", text |-> << >>]>>, 2,
                            At(s, 2) \notin Breaks \cup {EOF})
         [] s[1] = "." ->
              IF At(s, 2) = "."
                THEN result(<<[type |-> "SEQUENCE", text |-> <<".", ".">>]>>, 3, TRUE)
                ELSE result(<< >>, 2, TRUE)
         [] s[1] \in WordChar ->
              LET text == SubSeq(s, 1, WordEnd(s))
                  type == IF text \in FunctionName THEN "FUNCTION" ELSE "BAREWORD"
              IN result(<<[type |-> type, text |-> text]>>, WordEnd(s) + 1,
                        At(s, WordEnd(s) + 1) \notin Breaks)
         [] s[1] \in Single -> result(<<plain>>, 2, TRUE)
         [] OTHER -> result(<< >>, 2, TRUE)

RECURSIVE Lexed(_)
Lexed(s) ==
    IF s = << >> THEN [tokens |-> << >>, clean |-> TRUE]
    ELSE LET first == First(s)
             rest == Lexed(From(s, first.rest))
         IN [tokens |-> first.token \o rest.tokens, clean |-> first.clean /\ rest.clean]

(***************************************************************************)
(* The generated scanner, with its automata, the characters it puts back   *)
(* and the texts it keeps for more(), finds the tokens that the patterns   *)
(* of lexer.lcpp describe, and of a quote that is not closed and all that  *)
(* follows it makes nothing, in silence.  The exceptions: a quoted text    *)
(* that is followed by neither a blank, a comma nor a quote (discard()     *)
(* also sets d_more, and the text stands before what is matched next: /ab/ *)
(* at the end of an expression is a regex and the word b), a backslash in  *)
(* a quote that is not closed, a line that ends in a quoted text or right  *)
(* after a word or a comma, and a comma at the end.                        *)
(***************************************************************************)
ScansLexer(texts) == \A s \in texts : Lexed(s).clean => scan(s) = Lexed(s).tokens
=============================================================================
