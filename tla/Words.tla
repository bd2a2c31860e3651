------------------------------- MODULE Words --------------------------------
(***************************************************************************)
(* The words that an expression spells out: sequences (node1..9) and       *)
(* braces (node{1,3}), from the text to the words (librange/compiler/      *)
(* RangeScanner_v1.cpp, RangeParser_v1.cpp, expanding_visitor.cpp).  A     *)
(* word is the sequence of its characters, since this is about them.  Of   *)
(* the children of a node only which words are among them is kept.         *)
(***************************************************************************)
EXTENDS Integers, Sequences, FiniteSets, FiniteSetsExt, SequencesExt
S == INSTANCE Scanner
P == INSTANCE Parser

CONSTANT Uint32  \* one more than the largest uint32_t: 2^32 in the code

Letter == {"a", "b", "f"}

DigitValue == [ch \in S!Digit |->
    CASE ch = "0" -> 0 [] ch = "1" -> 1 [] ch = "2" -> 2 [] ch = "3" -> 3 [] ch = "4" -> 4
      [] ch = "5" -> 5 [] ch = "6" -> 6 [] ch = "7" -> 7 [] ch = "8" -> 8 [] ch = "9" -> 9]

AllDigits(w) == \A i \in DOMAIN w : w[i] \in S!Digit

ValueOf(w) == FoldLeft(LAMBDA n, ch : 10 * n + DigitValue[ch], 0, w)

-----------------------------------------------------------------------------
(* Numbers to and from words *)

BadCast == -1

\* lexical_cast<uint32_t>: it takes a minus sign, and the number from the end.
lexical_cast(w) ==
    LET minus == w # << >> /\ w[1] = "-"
        digits == IF minus THEN Tail(w) ELSE w
    IN IF digits = << >> \/ ~AllDigits(digits) THEN BadCast
       ELSE IF ValueOf(digits) >= Uint32 THEN BadCast
       ELSE IF minus THEN (Uint32 - ValueOf(digits)) % Uint32 ELSE ValueOf(digits)

RECURSIVE Decimal(_)
Decimal(n) ==
    LET last == <<CHOOSE ch \in S!Digit : DigitValue[ch] = n % 10>>
    IN IF n < 10 THEN last ELSE Decimal(n \div 10) \o last

\* snprintf with "%0*d", which takes the number for a signed one.
printf(pad, n) ==
    LET negative == n >= Uint32 \div 2
        digits == Decimal(IF negative THEN Uint32 - n ELSE n)
        sign == IF negative THEN <<"-">> ELSE << >>
        zeros == [i \in 1 .. pad - Len(sign) - Len(digits) |-> "0"]
    IN sign \o zeros \o digits

Result(out, list) == [out |-> out, list |-> list]

\* ASTSequence: what is before the number is taken from the left word, and what
\* is after it from the right one.
\* The conversion of a larger number than there are is undefined, and a loop up
\* to the largest does not end.
SequenceOf(l, r) ==
    LET lpad == Max({n \in 0 .. Len(l) : AllDigits(SubSeq(l, Len(l) - n + 1, Len(l)))})
        lprefix == SubSeq(l, 1, Len(l) - lpad)
        rest == IF IsPrefix(lprefix, r) THEN SubSeq(r, Len(lprefix) + 1, Len(r)) ELSE r
        rpad == Min({i \in DOMAIN rest : rest[i] \in Letter} \cup {Len(rest) + 1}) - 1
        rsuffix == SubSeq(rest, rpad + 1, Len(rest))
        lnum == ValueOf(SubSeq(l, Len(lprefix) + 1, Len(l)))
        rnum == lexical_cast(SubSeq(rest, 1, rpad))
        to == IF rnum < lnum THEN (rnum + lnum) % Uint32 ELSE rnum
    IN IF rnum = BadCast \/ lpad = 0 THEN Result("threw", << >>)
       ELSE IF lnum >= Uint32 THEN Result("undefined", << >>)
       ELSE IF to = Uint32 - 1 THEN Result("endless", << >>)
       ELSE Result("list", [i \in 1 .. to - lnum + 1 |->
                              lprefix \o printf(Max({lpad, rpad}), lnum + i - 1) \o rsuffix])

Joined(A, B) == {a \o b : a \in A, b \in B}

\* A variant: nothing on the left leaves nothing.
BraceOfAll(left, center, right) == Joined(Joined(left, center), right)

\* ASTBraceExpand: a side without children is as if it were not there.
BraceOf(left, center, right) ==
    LET tmp == IF left # {} THEN Joined(left, center) ELSE center
    IN IF right # {} THEN Joined(tmp, right) ELSE tmp

-----------------------------------------------------------------------------
(* From the text to the words *)

RECURSIVE Spelled(_)
Spelled(t) ==
    CASE t.op \in {"word", "literal"} -> Result("list", {t.w})
      [] t.op = "null" -> Result("list", {})
      [] t.op = "group" -> Spelled(t.a)
      [] t.op = "union" ->
            LET l == Spelled(t.l)
                r == Spelled(t.r)
            IN IF l.out # "list" THEN l ELSE IF r.out # "list" THEN r
               ELSE Result("list", l.list \cup r.list)
      [] t.op = "sequence" ->
            LET q == SequenceOf(t.l.w, t.r.w) IN Result(q.out, ToSet(q.list))
      [] t.op = "braceexpand" ->
            LET l == Spelled(t.l)
                mid == Spelled(t.c)
                r == Spelled(t.r)
            IN IF l.out # "list" THEN l ELSE IF mid.out # "list" THEN mid
               ELSE IF r.out # "list" THEN r
               ELSE Result("list", BraceOf(l.list, mid.list, r.list))

\* A text that is no sentence throws as well.
Spell(text) ==
    LET r == P!parse(S!scan(text))
    IN IF r.ok THEN Spelled(r.ast) ELSE Result("threw", {})

-----------------------------------------------------------------------------
(* What they should be *)

\* The words before and after each of the numbers from..to, and no digit more
\* than it takes.
Counts(list, before, from, to, pad, after) ==
    /\ Len(list) = to - from + 1
    /\ \A i \in DOMAIN list : \E k \in 1 .. Len(list[i]) :
          LET digits == SubSeq(list[i], Len(before) + 1, Len(before) + k)
          IN /\ list[i] = before \o digits \o after
             /\ AllDigits(digits) /\ ValueOf(digits) = from + i - 1
             /\ k >= pad /\ (k > pad /\ k > 1 => digits[1] # "0")

(***************************************************************************)
(* "node1..node4 == node1..4" and "node1000..1099 == node1000..99"         *)
(* (README.md:31-32): a sequence counts from the left number to the right  *)
(* one, or as far again if that is smaller, with the digits of the longer  *)
(* of the two, and fails when one has no number or something else than a   *)
(* letter comes after it, such as the dot of a domain.  The exceptions are *)
(* at the ends of the integers: from half of them on the names have a      *)
(* minus sign, up to the last the loop never ends, beyond it the sequence  *)
(* is empty, and a minus sign before the right number counts from there.   *)
(***************************************************************************)
SequencesCount(ls, rs) ==
    \A l \in ls, r \in rs :
        LET q == SequenceOf(l, r)
            ns == {n \in 1 .. Len(l) : AllDigits(SubSeq(l, n, Len(l)))}
            before == SubSeq(l, 1, Min(ns) - 1)
            from == ValueOf(SubSeq(l, Min(ns), Len(l)))
            own == IF IsPrefix(before, r) THEN SubSeq(r, Len(before) + 1, Len(r)) ELSE r
            ks == {k \in 1 .. Len(own) : /\ AllDigits(SubSeq(own, 1, k))
                                         /\ k < Len(own) => own[k + 1] \in Letter}
            right == ValueOf(SubSeq(own, 1, Min(ks)))
            to == IF right < from THEN from + right ELSE right
            after == SubSeq(own, Min(ks) + 1, Len(own))
        IN IF ns = {} THEN q.out = "threw"
           ELSE IF ks = {} THEN q.out = "threw" \/ (own # << >> /\ own[1] = "-")
           ELSE IF from < Uint32 /\ to < Uint32 \div 2
             THEN /\ q.out = "list"
                  /\ Counts(q.list, before, from, to, Max({Len(l) - Min(ns) + 1, Min(ks)}), after)
           ELSE IF right >= Uint32 THEN q.out = "threw"
           ELSE from < Uint32 => /\ (q.out = "endless") = (to = Uint32 - 1)
                                 /\ to >= Uint32 => q.list = << >>

(***************************************************************************)
(* "foo{1,3,5} == foo1,foo3,foo5" (README.md:54): braces spell out just    *)
(* the words of the comma list that has one for every choice, and foo{1..3}*)
(* those of foo1..3 and foo1..foo3, from the scanner to the visitor.  The  *)
(* exceptions: a word that ends in a digit before the brace, and one that  *)
(* does not start with a letter after it, of which a sequence would make   *)
(* something else.                                                         *)
(***************************************************************************)
BracesSpellLists(befores, numbers, afters) ==
    \A b \in befores, m \in numbers, n \in numbers, a \in afters :
        LET or(v, w) == v \o <<",">> \o w
            braced(w) == <<"{">> \o w \o <<"}">>
            brace == Spell(b \o braced(m \o <<".", ".">> \o n) \o a)
            word(w) == b \o w \o a
        IN /\ Spell(b \o braced(or(m, n)) \o a) = Spell(or(word(m), word(n)))
           /\ Spell(b \o braced(or(m, n)) \o braced(or(n, m)) \o a) =
                Spell(or(or(word(m \o n), word(n \o n)), or(word(m \o m), word(n \o m))))
           /\ brace.out = "list"
           /\ (b = << >> \/ Last(b) \notin S!Digit) /\ (a = << >> \/ a[1] \in Letter) =>
                 /\ brace = Spell(b \o m \o <<".", ".">> \o n \o a)
                 /\ brace = Spell(b \o m \o <<".", ".">> \o b \o n \o a)
=============================================================================
