-------------------------- MODULE MCConstantFolding --------------------------
(***************************************************************************)
(* Integers of five bits of which those up to six are exact in both        *)
(* targets, so that products wrap into the exact range; expressions of up  *)
(* to two operators, and of three, over integers, a real, truth values and *)
(* a variable.                                                             *)
(***************************************************************************)
EXTENDS ConstantFolding

Node(kind, op, type, value, lazy) ==
  [kind |-> kind, op |-> op, children |-> <<>>, type |-> type, value |-> value, lazy |-> lazy]

Integer(n) == <<Node("number", "none", "integer", n, FALSE)>>
Real(n) == <<Node("number", "none", "real", n, FALSE)>>
TrueLiteral == <<Node("boolean", "none", "boolean", TRUE, FALSE)>>
Variable == <<Node("other", "x", "integer", 0, FALSE)>>

(* A tree is an arena whose first expression is its root.                  *)
Shifted(tree, n) ==
  [i \in DOMAIN tree |->
     [tree[i] EXCEPT !.children = [k \in DOMAIN tree[i].children |-> tree[i].children[k] + n]]]

Unary(op, a) ==
  <<[Node("unary", op, "integer", 0, FALSE) EXCEPT !.children = <<2>>]>> \o Shifted(a, 1)

Over(node, a, b) ==
  <<[node EXCEPT !.children = <<2, Len(a) + 2>>]>> \o Shifted(a, 1) \o Shifted(b, Len(a) + 1)

Binary(op, a, b) == Over(Node("binary", op, "integer", 0, FALSE), a, b)
LazyAnd(a, b) == Over(Node("binary", "and", "boolean", 0, TRUE), a, b)
Call(a, b) == Over(Node("other", "f", "integer", 0, FALSE), a, b)

Small == {Integer(n) : n \in {0, 1, 5, 6, 7}}
Leaves == Small \cup {TrueLiteral, Variable}

Simple ==
  {Unary("minus", a) : a \in Leaves} \cup {Unary("not", TrueLiteral), Unary("plus", Integer(5))}
    \cup {Binary("add", Integer(n), a) : n \in {1, 5}, a \in Small \cup {Real(1)}}
    \cup {Binary("subtract", Integer(0), Integer(5)), Binary("multiply", Integer(5), Integer(6)),
          Binary("equal", TrueLiteral, Unary("not", TrueLiteral)),
          Binary("less", Integer(5), Integer(6)), LazyAnd(TrueLiteral, Variable)}

Operations == {"add", "subtract", "multiply", "equal", "less"}

Trees ==
  {Binary(op, a, b) : op \in Operations, a \in Simple \cup Leaves, b \in Simple \cup Leaves}
    \cup {Binary(op, Unary("minus", a), b) : op \in Comparisons, a \in Small, b \in Small}
    \cup UNION {{Unary("not", a), LazyAnd(a, Unary("not", TrueLiteral)), Call(a, Integer(1))} : a \in Simple}
    \cup {Binary("add", Binary("multiply", Unary("minus", a), Unary("minus", b)), c) :
             a \in Small, b \in Small, c \in Small}

(* A statement of one expression; two statements.                          *)
MCPrograms ==
  {[expressions |-> t, roots |-> {1}] : t \in Trees}
    \cup {[expressions |-> a \o Shifted(b, Len(a)), roots |-> {1, Len(a) + 1}] :
             a \in Simple, b \in Simple}
=============================================================================
