--------------------------- MODULE MemoryPrograms ---------------------------
(***************************************************************************)
(* Small functions.  Two parameters and a global of three elements, that   *)
(* may be the same memory, a local scalar and a local matrix.              *)
(***************************************************************************)
EXTENDS MemoryFlow

S == INSTANCE SequencesExt

Kind == [x |-> "local", m |-> "local", a |-> "parameter", b |-> "parameter", g |-> "global"]
Shape == [x |-> <<>>, m |-> <<2, 2>>, a |-> <<3>>, b |-> <<3>>, g |-> <<3>>]

Whole(r) == full_storage_region(Shape[r])
Section(first, count) ==
  [kind |-> "rectangular", root_shape |-> <<3>>,
   dimensions |-> <<[first |-> first, stride |-> 1, count |-> count]>>]

Known(r, region, mode) == [root |-> r, region |-> region, mode |-> mode]

Does(accesses) == Instruction(accesses, "none", FALSE, "always")
MayFail(accesses) == Instruction(accesses, "none", TRUE, "always")

SetX == Does(<<Known("x", Whole("x"), "write")>>)
UseX == Does(<<Known("x", Whole("x"), "read")>>)
SetA == Does(<<Known("a", Whole("a"), "write")>>)
SetA1 == Does(<<Known("a", Section(0, 1), "write")>>)
UseA1 == Does(<<Known("a", Section(0, 2), "read")>>)
UseA == Does(<<Known("a", UnknownRegion, "read")>>)
SetAny == Does(<<Known("a", UnknownRegion, "write")>>)
SwapB == Does(<<Known("b", Section(1, 2), "read_write")>>)
CopyBA == Does(<<Known("b", Whole("b"), "read"), Known("a", Section(1, 2), "write")>>)
SetG == Does(<<Known("g", Whole("g"), "write")>>)

(* The first row of the matrix, its elements 1 and 3, and all of them.     *)
FirstRow ==
  [kind |-> "rectangular", root_shape |-> <<2, 2>>,
   dimensions |-> <<[first |-> 0, stride |-> 1, count |-> 1],
                    [first |-> 0, stride |-> 1, count |-> 2]>>]
EverySecond(first) ==
  [kind |-> "linearized", root_shape |-> <<2, 2>>,
   dimensions |-> <<[first |-> first, stride |-> 2, count |-> 2]>>]
SetM == Does(<<Known("m", Whole("m"), "write")>>)
SetRow == Does(<<Known("m", FirstRow, "write")>>)
SwapEven == Does(<<Known("m", EverySecond(0), "read_write")>>)
UseOdd == Does(<<Known("m", EverySecond(1), "read")>>)
External == Instruction(<<Known("b", UnknownRegion, "read")>>, "read_write", FALSE, "always")

Program(next, handler, code) ==
  [count |-> Len(next), next |-> next, handler |-> handler, code |-> code,
   root_kind |-> [r \in {Access(q, s).root : q \in {[code |-> code]},
                         s \in UNION {UNION {{KnownSite(b, k, n, code[b][k].accesses[n].mode) :
                                 n \in DOMAIN code[b][k].accesses} :
                                 k \in DOMAIN code[b]} : b \in DOMAIN code}} |-> Kind[r]],
   shape |-> Shape,
   successors |-> [b \in DOMAIN next |->
                     S!SetToSortSeq(GraphEdges([next |-> next, handler |-> handler], b), <)]]

NoHandler == <<0, 0, 0, 0>>

(* A loop, an irreducible loop, and a self loop in a loop.                 *)
Loop == <<<<2>>, <<3, 4>>, <<2>>, <<>>>>
Irreducible == <<<<2, 3>>, <<3>>, <<2, 4>>, <<>>>>
SelfLoop == <<<<2>>, <<2, 3>>, <<1, 4>>, <<>>>>

Bodies ==
  {<<<<SetA>>, <<UseA1>>, <<c>>, <<UseA>>>> : c \in {SetA1, SwapB, CopyBA, SetAny, External}}
  \cup {<<<<SetX, SetG>>, <<UseA, UseX>>, <<SetX, SwapB>>, <<UseX>>>>,
        <<<<UseA1, SetAny>>, <<SetA1>>, <<External>>, <<SetA>>>>,
        <<<<UseX>>, <<SetX>>, <<UseX>>, <<SetX, UseX>>>>,
        <<<<SetM>>, <<SwapEven, UseOdd>>, <<SetRow, SwapEven>>, <<UseOdd>>>>}

LoopPrograms ==
  {Program(next, NoHandler, body) : next \in {Loop, Irreducible}, body \in Bodies}
  \cup {Program(SelfLoop, NoHandler, <<<<SetA>>, <<UseA1, c>>, <<SetA1>>, <<UseA>>>>) :
          c \in {SetX, SetA1}}

(* Failing instructions in blocks whose writes hide no access.             *)
Guarded == <<<<2, 3>>, <<1, 4>>, <<4>>, <<>>>>

HandlerPrograms ==
  {Program(Guarded, <<3, 0, 0, 0>>,
           <<<<MayFail(UseX.accesses), UseA>>, <<SetX, c>>, <<UseX, SetA>>, <<UseA>>>>) :
     c \in {SetA1, SwapB}}

PlainPrograms == LoopPrograms \cup HandlerPrograms

(* The last write of a block hides an earlier one from its handler.        *)
LateFailure ==
  Program(<<<<3>>, <<3>>, <<>>>>, <<2, 0, 0>>,
          <<<<SetX, MayFail(<<>>), SetX>>, <<UseX>>, <<>>>>)

(* for x in range(...): the variable of a loop without iterations keeps    *)
(* the value it had.                                                       *)
ZeroTrip ==
  Program(<<<<2>>, <<3, 4>>, <<2>>, <<>>>>, NoHandler,
          <<<<SetX>>, <<Instruction(SetX.accesses, "none", FALSE, "entering")>>, <<UseX>>, <<UseX>>>>)

(* A call that writes its argument on some paths of the callee only.       *)
PartialCall ==
  Program(<<<<>>>>, <<0>>,
          <<<<SetX, Instruction(SetX.accesses, "none", FALSE, "sometimes"), UseX>>>>)

LossyPrograms == {LateFailure, ZeroTrip, PartialCall}

(* Failing writes, late failures and partial writes inside a loop.         *)
Sometimes(i) == [i EXCEPT !.commits = "sometimes"]

HidingPrograms ==
  {Program(next, <<3, 0, 0, 0>>,
           <<<<SetX, MayFail(i.accesses), SetX>>, <<Sometimes(j), UseX>>, <<UseX, UseA1>>, <<SetA>>>>) :
     next \in {Guarded, <<<<2>>, <<1, 4>>, <<1>>, <<>>>>}, i \in {SetX, SetA},
     j \in {SetX, SetG, CopyBA}}

ExecutedPrograms ==
  PlainPrograms \cup HidingPrograms \cup LossyPrograms

(* Analysed only: every body on every graph.                               *)
NestedLoops == <<<<2>>, <<3>>, <<3, 2>>, <<1>>>>
Crossing == <<<<2, 4>>, <<3, 4>>, <<4, 2>>, <<3, 1>>>>

AnalysedPrograms ==
  ExecutedPrograms
    \cup {Program(next, handler, body) :
             next \in {SelfLoop, NestedLoops, Crossing}, handler \in {NoHandler, <<4, 0, 4, 2>>},
             body \in Bodies}

(* Graphs only: every one of three blocks, and those of four blocks in     *)
(* which each has one or two successors of a fixed choice, with            *)
(* irreducible loops and blocks no search from block 1 reaches.            *)
GraphOnly(next) ==
  Program([b \in DOMAIN next |-> S!SetToSortSeq(next[b], <)], [b \in DOMAIN next |-> 0],
          [b \in DOMAIN next |-> <<>>])

ThreeBlockGraphs == [1..3 -> SUBSET (1..3)]

FourBlockGraphs ==
  {next \in [1..4 -> SUBSET (1..4)] : /\ \A b \in 1..4 : Cardinality(next[b]) \in {1, 2}
                                     /\ next[1] \in {{2}, {2, 3}, {1, 4}}
                                     /\ next[3] \in {{1}, {2, 4}, {4}}}

GraphPrograms == {GraphOnly(next) : next \in ThreeBlockGraphs \cup FourBlockGraphs}

(* Two accesses to one root, of every pair of regions: progressions that   *)
(* overflow or are longer than the enumeration limit, matrices, linearized *)
(* and unknown regions, and some that are not valid.                       *)
Dim(f, s, c) == [first |-> f, stride |-> s, count |-> c]

Region(k, shape, dims) == [kind |-> k, root_shape |-> shape, dimensions |-> dims]

VectorRegions ==
  {Region("rectangular", <<14>>, <<d>>) :
     d \in [first : {0, 1, 12}, stride : {0, 2, 3, 4}, count : {0, 1, 3, 4}]}

MatrixDimensions == {Dim(0, 1, 2), Dim(0, 2, 2), Dim(1, 1, 1), Dim(2, 1, 0)}

MatrixRegions ==
  {Region("rectangular", <<3, 4>>, <<a, b>>) : a \in MatrixDimensions, b \in MatrixDimensions}
  \cup {Region("linearized", shape, <<Dim(f, s, c)>>) :
          shape \in {<<3, 4>>, <<5, 4>>}, f \in {0, 7}, s \in {2, 3}, c \in {2, 4}}
  \cup {full_storage_region(<<3, 4>>), full_storage_region(<<15>>), full_storage_region(<<>>),
        Region("rectangular", <<15, 4>>, <<Dim(0, 1, 1), Dim(0, 1, 1)>>),
        Region("rectangular", <<3>>, <<>>), Region("unknown", <<3>>, <<>>)}

RegionPair(l, r) ==
  Program(<<<<>>>>, <<0>>,
          <<<<Does(<<Known("a", l, "write")>>), Does(<<Known("a", r, "read")>>)>>>>)

RegionPrograms ==
  {RegionPair(l, r) : l \in VectorRegions, r \in VectorRegions}
    \cup {RegionPair(l, r) : l \in MatrixRegions, r \in MatrixRegions}

AllPrograms == AnalysedPrograms \cup GraphPrograms \cup RegionPrograms
=============================================================================
