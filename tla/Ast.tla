-------------------------------- MODULE Ast ---------------------------------
(***************************************************************************)
(* The tree of a range expression (librange/compiler/ast.h).               *)
(***************************************************************************)
Null == [op |-> "null"]
Word(w) == [op |-> "word", w |-> w]
Literal(w) == [op |-> "literal", w |-> w]
Regex(re, positive) == [op |-> "regex", re |-> re, positive |-> positive]
Group(a) == [op |-> "group", a |-> a]
Expand(a) == [op |-> "expand", a |-> a]
GetCluster(a) == [op |-> "get_cluster", a |-> a]
Admin(a) == [op |-> "admin", a |-> a]
Union(l, r) == [op |-> "union", l |-> l, r |-> r]
Difference(l, r) == [op |-> "difference", l |-> l, r |-> r]
Intersection(l, r) == [op |-> "intersection", l |-> l, r |-> r]
Sequence(l, r) == [op |-> "sequence", l |-> l, r |-> r]
KeyExpand(l, r) == [op |-> "keyexpand", l |-> l, r |-> r]
BraceExpand(l, c, r) == [op |-> "braceexpand", l |-> l, c |-> c, r |-> r]
Arguments(args) == [op |-> "arguments", args |-> args]
Function(fn, args) == [op |-> "function", fn |-> fn, args |-> args]
=============================================================================
