------------------------ MODULE MCOptimizedExecution ------------------------
(***************************************************************************)
(* Eight control-flow graphs, and for each of them every way of passing    *)
(* values that dominate along its edges: a diamond, a loop that can swap   *)
(* its arguments, a loop with a join inside, an irreducible loop, a join   *)
(* fed by a cycle that is never entered, a try region, and chains and      *)
(* cycles of forwarding blocks, the entry block among them.                *)
(* p and q are parameters, r and e results of instructions, x y z block    *)
(* arguments.  Every instruction reads all that dominates it.              *)
(***************************************************************************)
EXTENDS OptimizedExecution

MCValues == {"p", "q", "r", "e", "x", "y", "z"}

Listed(S) == SelectSeq(<<"r", "e", "z", "y", "x", "q", "p">>, LAMBDA v : v \in S)

Instruction(defines) == [reads |-> <<>>, defines |-> defines]

(* The graph g with no value passed or read yet.                           *)
Skeleton(g) ==
  [blocks |-> DOMAIN g.next, entry |-> 1, arguments |-> g.arguments, stored |-> g.stored,
   code |-> g.code,
   kind |-> [b \in DOMAIN g.next |->
               CASE Len(g.next[b]) = 2 -> "conditional"
                 [] Len(g.next[b]) = 1 -> "branch"
                 [] Len(g.next[b]) = 0 /\ b \in g.dead -> "unreachable"
                 [] OTHER -> "return"],
   tests |-> [b \in DOMAIN g.next |-> <<>>], next |-> g.next,
   actuals |-> [b \in DOMAIN g.next |-> [i \in DOMAIN g.next[b] |-> <<>>]],
   handler |-> [b \in DOMAIN g.next |-> IF b \in g.protected THEN g.handler ELSE NoBlock],
   retained |-> g.retained,
   expressionValues |-> {v \in MCValues : \E b \in DOMAIN g.next :
                           \/ \E k \in DOMAIN g.code[b] : v \in g.code[b][k].defines
                           \/ v \in Elements(g.arguments[b]) \ g.stored},
   provenance |-> <<>>]

(* The values defined before instruction k of block b on every path.       *)
Available(s, b, k) ==
  {d[1] : d \in {f \in Definitions(s) :
                   IF f[2] = b THEN f[3] < k ELSE Dominates(s, f[2], b)}}

OnAllPaths(s, b) == Available(s, b, Len(s.code[b]) + 1)

EdgeSlots(s) ==
  UNION {{<<b, i, k>> : k \in DOMAIN s.arguments[s.next[b][i]]} :
           <<b, i>> \in Edges(s)}

Filled(s, f) ==
  [s EXCEPT
     !.actuals = [b \in s.blocks |->
                    [i \in DOMAIN s.next[b] |->
                       [k \in DOMAIN s.arguments[s.next[b][i]] |-> f[<<b, i, k>>]]]],
     !.tests = [b \in s.blocks |->
                  IF s.kind[b] = "conditional" THEN <<Listed(OnAllPaths(s, b))[1]>> ELSE <<>>],
     !.code = [b \in s.blocks |->
                 [k \in DOMAIN s.code[b] |->
                    [s.code[b][k] EXCEPT !.reads = Listed(Available(s, b, k))]]],
     !.provenance = Listed(Defined(s))]

(* One choice for each slot, a slot at a time.                             *)
Fillings(s) ==
  FoldSet(LAMBDA e, chosen : {f @@ (e :> v) : f \in chosen, v \in OnAllPaths(s, e[1])},
          {<<>>}, EdgeSlots(s))

ProgramsOf(g) == {Filled(Skeleton(g), f) : f \in Fillings(Skeleton(g))}

-----------------------------------------------------------------------------
Plain == [protected |-> {}, handler |-> NoBlock, retained |-> {}, dead |-> {}]

(* Two empty arms; the join takes a copied and a computed argument.        *)
Diamond ==
  [next |-> <<<<2, 3>>, <<4>>, <<4>>, <<>>>>,
   arguments |-> <<<<"p", "q">>, <<>>, <<>>, <<"x", "y", "z">>>>,
   stored |-> {"p", "q", "x", "y"},
   code |-> <<<<>>, <<>>, <<>>, <<Instruction({})>>>>] @@ Plain

(* The back edge can swap the two arguments of the header.                 *)
SwappingLoop ==
  [next |-> <<<<2>>, <<3, 4>>, <<2>>, <<>>>>,
   arguments |-> <<<<"p", "q">>, <<"x", "y">>, <<>>, <<>>>>,
   stored |-> {"p", "q", "x", "y"},
   code |-> <<<<>>, <<Instruction({})>>, <<>>, <<Instruction({})>>>>] @@ Plain

LoopWithJoin ==
  [next |-> <<<<2>>, <<3, 6>>, <<4, 5>>, <<5>>, <<2>>, <<>>>>,
   arguments |-> <<<<"p">>, <<"x">>, <<>>, <<>>, <<"y">>, <<"z">>>>,
   stored |-> {"p", "x", "y", "z"},
   code |-> <<<<>>, <<>>, <<>>, <<>>, <<Instruction({"r"})>>, <<Instruction({})>>>>] @@ Plain

Irreducible ==
  [next |-> <<<<2, 3>>, <<3, 4>>, <<2, 4>>, <<>>>>,
   arguments |-> <<<<"p">>, <<"x">>, <<"y">>, <<"z">>>>,
   stored |-> {"p", "x", "y", "z"},
   code |-> <<<<Instruction({"q"})>>, <<Instruction({})>>, <<>>, <<Instruction({})>>>>] @@ Plain

DeadCycle ==
  [next |-> <<<<2>>, <<>>, <<4>>, <<3, 2>>, <<>>, <<2>>>>,
   arguments |-> <<<<"p">>, <<"x">>, <<"y">>, <<"z">>, <<>>, <<>>>>,
   stored |-> {"p", "x", "y", "z"}, dead |-> {5},
   code |-> <<<<>>, <<Instruction({})>>, <<>>, <<>>, <<>>, <<>>>>] @@ Plain

TryRegion ==
  [next |-> <<<<2>>, <<3>>, <<5>>, <<6>>, <<>>, <<5>>>>,
   arguments |-> <<<<"p">>, <<>>, <<>>, <<>>, <<"x">>, <<>>>>,
   stored |-> {"p", "x"}, protected |-> {2, 3}, handler |-> 4, retained |-> {2, 3, 4, 5},
   code |-> <<<<>>, <<Instruction({"r"}), Instruction({})>>, <<>>, <<Instruction({"e"})>>,
              <<Instruction({})>>, <<>>>>] @@ Plain

Forwarders ==
  [next |-> <<<<2, 4>>, <<3>>, <<2>>, <<5, 6>>, <<6>>, <<8>>, <<6>>, <<>>, <<>>>>,
   arguments |-> <<<<"p">>, <<>>, <<>>, <<>>, <<>>, <<>>, <<>>, <<>>, <<>>>>,
   stored |-> {"p"}, dead |-> {9},
   code |-> <<<<>>, <<>>, <<>>, <<Instruction({"r"})>>, <<>>, <<>>, <<>>, <<Instruction({})>>,
              <<>>>>] @@ Plain

ForwardingEntry ==
  [next |-> <<<<2>>, <<3>>, <<>>>>, arguments |-> <<<<>>, <<>>, <<>>>>, stored |-> {},
   code |-> <<<<>>, <<>>, <<Instruction({"r"}), Instruction({})>>>>] @@ Plain

MCPrograms ==
  UNION {ProgramsOf(g) :
           g \in {Diamond, SwappingLoop, LoopWithJoin, Irreducible, DeadCycle, TryRegion, Forwarders,
                 ForwardingEntry}}
=============================================================================
