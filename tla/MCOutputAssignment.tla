------------------------- MODULE MCOutputAssignment -------------------------
(***************************************************************************)
(* Small programs for the output-assignment analysis, the states their     *)
(* executions go through, computed by iterating Step to its fixed point,   *)
(* and the tables handed to the verifier.                                  *)
(***************************************************************************)
EXTENDS VerifiedAssignment

RECURSIVE ReachFrom(_, _, _)
ReachFrom(p, seen, frontier) ==
  LET fresh == UNION {Steps(p, s) : s \in frontier} \ seen
  IN  IF fresh = {} THEN seen ELSE ReachFrom(p, seen \cup fresh, fresh)

ReachOf(p) == ReachFrom(p, {InitialState(p)}, {InitialState(p)})

MCReach == [p \in Programs |-> ReachOf(p)]

Op(fails, outs) == [mayFail |-> fails, writes |-> outs]

-----------------------------------------------------------------------------
(* Two blocks, two outputs of which y is a parameter too: every handler,    *)
(* handlers of handlers and blocks that handle themselves included.        *)

TwoBlockPrograms ==
  [entry : {1}, blocks : {1..2}, outputs : {{"x", "y"}}, argument : {{"y"}},
   code : [1..2 -> {<<Op(TRUE, {"x"})>>, <<Op(TRUE, {})>>,
                    <<Op(FALSE, {"x"}), Op(TRUE, {"y"})>>}],
   next : {<<a, b>> : a \in {<<2>>, <<1, 2>>}, b \in {<<>>, <<1>>, <<2, 1>>}},
   handler : [1..2 -> {0, 1, 2}]]

(* Three blocks, one output: loops through handlers and joins of paths.    *)
ThreeBlockPrograms ==
  [entry : {1}, blocks : {1..3}, outputs : {{"x"}}, argument : {{}},
   code : [1..3 -> {<<Op(TRUE, {"x"})>>, <<Op(TRUE, {})>>}],
   next : {<<a, b, c>> : a \in {<<2, 3>>, <<2, 2>>},
                         b \in {<<>>, <<3>>, <<3, 1>>},
                         c \in {<<>>, <<2, 3>>}},
   handler : {<<a, b, c>> : a \in {0, 3}, b \in {0, 1, 3}, c \in {0, 2}}]

MCOutputOrder(p) == IF p.outputs = {"x"} THEN <<"x">> ELSE <<"x", "y">>

(* Every table, and for some programs every table with one cell changed.   *)
Perturbed(p) ==
  /\ p.outputs = {"x", "y"}
  /\ p.handler \in {<<0, 0>>, <<2, 0>>, <<2, 1>>, <<1, 2>>}
  /\ p.next \in {<<<<2>>, <<>>>>, <<<<1, 2>>, <<1>>>>}

MCDamaged(p, t) ==
  {t} \cup (IF Perturbed(p)
            THEN {[t EXCEPT ![pt][o] = cell] :
                    pt \in Points(p), o \in p.outputs, cell \in {{}, Value}}
            ELSE {})

MCPrograms == TwoBlockPrograms \cup ThreeBlockPrograms

(* What the theorems about exactness suppose of Reach, where every handler *)
(* leads into another block; the subsets of larger sets are too many.      *)
ASSUME ReachIsLeast ==
  \A p \in Programs : p.handler = <<3, 1, 2>> => IsLeast(p)
=============================================================================
