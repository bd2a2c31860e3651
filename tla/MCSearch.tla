------------------------------ MODULE MCSearch ------------------------------
EXTENDS Search, Expressions
CONSTANTS x, h, c, Uint32

\* A cluster of x has the name of the host.
MCPlain == {x, h}
MCCluster == {<<x, c>>, <<x, h>>}

\* Between two searches, range expressions are what sets of nodes say.  The
\* operators compute sets (SetAlgebra); expand_hosts of a cluster or environment
\* finds every host below it (HostsFound); clusters() and all_clusters() find
\* what the operator * and the environments lead to (ClustersFound); the
\* operator ':' and the calls of the read API read the same keys (KeysRead); the
\* operator ^ finds the nearest admins of every node (AdminsFound).
ExpressionsAreSets ==
    reader.pc = "idle" =>
        SetAlgebra /\ HostsFound /\ ClustersFound /\ KeysRead /\ AdminsFound

-----------------------------------------------------------------------------
(* Sentences for the parser: the text of a token is its place. *)

G == INSTANCE Parser

TokenTypes == {"BAREWORD", "FUNCTION", "REGEX", "DOUBLEQUOTED", "SEQUENCE", ",", "-", "&", "!",
               "%", "*", "^", ":", ";", "(", ")", "{", "}"}

Sentences(types, n) ==
    {[i \in 1 .. n |-> [type |-> f[i], text |-> i]] : f \in [1 .. n -> types]}

MCSentences ==
    UNION {Sentences(TokenTypes, n) : n \in 0 .. 3}
    \cup Sentences({"BAREWORD", ",", "%", ":", "(", ")", "{", "}"}, 5)
    \cup Sentences({"BAREWORD", "FUNCTION", ";", "(", ")"}, 6)

-----------------------------------------------------------------------------
(* Texts for the scanner. *)

L == INSTANCE Scanner

Texts(chars, n) == UNION {[1 .. k -> chars] : k \in 0 .. n}

MCTexts ==
    Texts({"a", "f", "-", ".", ",", "/", "\\", " ", "\n", "&", ")", "="}, 4)
    \cup Texts({"a", "\"", "\\", ",", " "}, 6)
    \cup Texts({"a", ".", "-", "'", "\n"}, 6)

\* The generated code does what it was generated from.  The parser
\* RangeParser_v1.cpp accepts the sentences of grammar.ycpp and gives them the
\* tree that its precedences say (ParsesGrammar); the scanner
\* RangeScanner_v1.cpp finds the tokens of lexer.lcpp (ScansLexer, which names
\* the texts of which it makes something else).  It does not depend on the
\* graphs, so this is checked once, in the first state.
GeneratedIsSpecified ==
    SearchInit => G!ParsesGrammar(MCSentences) /\ L!ScansLexer(MCTexts)

-----------------------------------------------------------------------------
(* Words for sequences and braces. *)

W == INSTANCE Words

\* What is written short is spelled out in full.  A sequence of words counts
\* from one number to the other (SequencesCount, expanding_visitor.cpp:184-254);
\* braces are short for lists and sequences (BracesSpellLists,
\* expanding_visitor.cpp:379-420).
WordsAreSpelled ==
    SearchInit =>
        /\ W!SequencesCount(Texts({"a", "0", "1", "9"}, 3), Texts({"a", "-", "0", "1", "9"}, 3))
        /\ W!BracesSpellLists({<< >>, <<"a">>, <<"f">>, <<"b", "-">>, <<"a", "1">>},
                              Texts({"0", "1", "3"}, 2) \ {<< >>},
                              {<< >>, <<"b">>, <<"f">>, <<"a", ".">>, <<"1">>})
=============================================================================
