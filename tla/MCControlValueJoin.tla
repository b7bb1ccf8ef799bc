------------------------- MODULE MCControlValueJoin -------------------------
(***************************************************************************)
(* Four blocks: an entry, and three blocks with one argument each.  Every  *)
(* block has an instruction, and passes on each edge either its own        *)
(* argument or the result of its instruction.                              *)
(*                                                                         *)
(* The graphs vary the edges under fixed contracts: every kind of cycle    *)
(* among three slots, slots fed only by a cycle, blocks nothing reaches,   *)
(* edges passed twice.  The values vary the contracts on two graphs.       *)
(***************************************************************************)
EXTENDS ControlJoinVerifier

MCSizeMax == 9

Row(extents, strides) ==
  [extents |-> extents, strides |-> strides, layout |-> "row_major", dynamic_rank |-> FALSE]

(* Contiguous and strided rows, a column, a matrix whose strides do not    *)
(* fit, a scalar.                                                          *)
MCShapes ==
  << Row(<<>>, <<>>),
     Row(<<1, 2>>, <<2, 1>>),
     Row(<<1, 2>>, <<5, 3>>),
     Row(<<1, 4>>, <<4, 1>>),
     [Row(<<1, 2>>, <<1, 1>>) EXCEPT !.layout = "column_major"],
     Row(<<2, 5, 2>>, <<9, 2, 1>>) >>

Type(kind, known, referent) == [kind |-> kind, known |-> known, referent |-> referent]

MCTypes ==
  << Type("scalar", TRUE, NoId), Type("sequence", TRUE, NoId), Type("reference", FALSE, 1) >>

Argument0(v, stored) == [value |-> v, type |-> 1, shape |-> 1, stored |-> stored]

Result(v, contract) == [value |-> v, type |-> contract[1], shape |-> contract[2]]

(* next[b] lists the successors of b, own[b] which edges pass the argument *)
(* of b itself, the others pass the result 10 + b of its instruction.      *)
Program(next, own, contracts, unstored) ==
  [types |-> MCTypes, shapes |-> MCShapes, revision |-> 0,
   instructions |-> [b \in 1..4 |-> Result(10 + b, contracts[b])],
   arguments |-> [b \in 1..4 |-> IF b = 1 THEN <<>> ELSE <<Argument0(b, b \notin unstored)>>],
   next |-> next,
   actuals |-> [b \in 1..4 |-> [e \in DOMAIN next[b] |->
                                  IF next[b][e] = 1 THEN <<>>
                                  ELSE IF e \in own[b] THEN <<b>> ELSE <<10 + b>>]]]

Fixed == << <<1, 2>>, <<1, 3>>, <<3, 2>>, <<1, 4>> >>

Graphs ==
  {Program(n, <<{}, own, {1}, {1, 2}>>, Fixed, {}) :
     n \in {<<a, b, c, d>> :
              a \in {<<2>>, <<2, 3>>},
              b \in {<<3>>, <<2, 3>>, <<3, 4>>, <<4, 4>>},
              c \in {<<>>, <<4>>, <<2, 4>>},
              d \in {<<>>, <<3>>, <<4, 2>>}},
     own \in {{1}, {2}, {1, 2}}}

Loop == << <<2>>, <<3, 4>>, <<2>>, <<>> >>

TwoLoops == << <<2>>, <<2, 3>>, <<4, 2>>, <<3>> >>

MCContracts == { <<1, 1>>, <<1, 2>>, <<2, 2>>, <<3, 3>>, <<2, 4>>, <<2, 5>>, <<2, 6>> }

Mixed ==
  {Program(TwoLoops, <<{}, {1}, {2}, {1}>>, <<c, d, e, c>>, {}) :
     c \in {<<1, 2>>, <<3, 3>>, <<2, 5>>}, d \in MCContracts, e \in MCContracts}
    \cup
  {Program(Loop, <<{}, {1}, {2}, {1}>>, <<<<1, 2>>, d, <<2, 4>>, d>>, unstored) :
     d \in MCContracts, unstored \in {{}, {3}}}

(* An actual without a definition, as in the unit tests.                   *)
Missing ==
  {[Program(g, <<{}, {1}, {2}, {1}>>, Fixed, {}) EXCEPT !.actuals[3][1] = <<99>>] :
     g \in {Loop, TwoLoops}}

MCPrograms == Graphs \cup Mixed \cup Missing
=============================================================================
