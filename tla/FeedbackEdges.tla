---------------------------- MODULE FeedbackEdges ----------------------------
(***************************************************************************)
(* The depth-first search of build_function_graph                          *)
(* (src/ir/memory_dependence.cpp), which marks the feedback edges of one   *)
(* function: a non-recursive search with an explicit stack of frames, that *)
(* marks every edge into a block still on the stack.                       *)
(*                                                                         *)
(* A graph g is a record with g.count blocks, numbered from 1, and         *)
(* g.successors[b], the successors of block b in increasing order.  An     *)
(* edge is named <<b, k>>: the k-th successor of b.  One step is one       *)
(* iteration of the loop over the starting blocks or of the loop over the  *)
(* stack.                                                                  *)
(***************************************************************************)
EXTENDS Integers, Sequences

CONSTANT Graphs

Blocks(g) == 1 .. g.count

IsGraph(g) ==
  /\ g.count \in Nat
  /\ g.successors \in [Blocks(g) -> Seq(Blocks(g))]

VARIABLES
  graph,       \* the graph of the function; never changes
  visits,      \* block -> "white", "gray" or "black"
  stack,       \* the frames, the innermost last
  start,       \* the next block to start a search from
  loop_edges,  \* the marked edges
  finished     \* history: the blocks in the order in which they turned black

vars == <<graph, visits, stack, start, loop_edges, finished>>

Frame(b) == [block |-> b, next_successor |-> 1]

Init ==
  /\ graph \in Graphs
  /\ visits = [b \in Blocks(graph) |-> "white"]
  /\ stack = <<>>
  /\ start = 1
  /\ loop_edges = {}
  /\ finished = <<>>

(* A block that no earlier search has reached starts one of its own.       *)
Start ==
  /\ stack = <<>>
  /\ start \in Blocks(graph)
  /\ start' = start + 1
  /\ IF visits[start] = "white"
     THEN /\ visits' = [visits EXCEPT ![start] = "gray"]
          /\ stack' = <<Frame(start)>>
     ELSE UNCHANGED <<visits, stack>>
  /\ UNCHANGED <<graph, loop_edges, finished>>

Top == stack[Len(stack)]

Popped == SubSeq(stack, 1, Len(stack) - 1)

(* Every successor of the innermost block has been looked at.              *)
Leave ==
  /\ stack # <<>>
  /\ Top.next_successor = Len(graph.successors[Top.block]) + 1
  /\ visits' = [visits EXCEPT ![Top.block] = "black"]
  /\ stack' = Popped
  /\ finished' = Append(finished, Top.block)
  /\ UNCHANGED <<graph, start, loop_edges>>

(* mutant: only an edge back to the root of the search counts.             *)
ClosesLoopAtRoot(b) == visits[b] = "gray" /\ b = stack[1].block

(* mutant: an edge into any block seen before counts.                      *)
ClosesLoopIfSeen(b) == visits[b] # "white"

(* The edge closes a cycle with the blocks on the stack.                   *)
ClosesLoop(b) == visits[b] = "gray"

Advanced == [stack EXCEPT ![Len(stack)].next_successor = @ + 1]

Follow ==
  /\ stack # <<>>
  /\ Top.next_successor \in DOMAIN graph.successors[Top.block]
  /\ LET edge == Top.next_successor
         successor == graph.successors[Top.block][edge]
     IN  /\ loop_edges' = IF ClosesLoop(successor)
                          THEN loop_edges \cup {<<Top.block, edge>>} ELSE loop_edges
         /\ IF visits[successor] = "white"
            THEN /\ visits' = [visits EXCEPT ![successor] = "gray"]
                 /\ stack' = Append(Advanced, Frame(successor))
            ELSE /\ stack' = Advanced
                 /\ UNCHANGED visits
  /\ UNCHANGED <<graph, start, finished>>

Next == Start \/ Leave \/ Follow

Spec == Init /\ [][Next]_vars

Done == stack = <<>> /\ start = graph.count + 1

-----------------------------------------------------------------------------

TypeOK ==
  /\ graph \in Graphs
  /\ IsGraph(graph)
  /\ visits \in [Blocks(graph) -> {"white", "gray", "black"}]
  /\ stack \in Seq([block : Blocks(graph), next_successor : Nat \ {0}])
  /\ start \in 1 .. graph.count + 1
  /\ loop_edges \subseteq Blocks(graph) \X (Nat \ {0})
  /\ finished \in Seq(Blocks(graph))

(* An edge from b to c that carries no loop mark.                          *)
Unmarked(b, c) ==
  \E k \in DOMAIN graph.successors[b] :
    graph.successors[b][k] = c /\ <<b, k>> \notin loop_edges

(* Every cycle of the graph, reducible or not, reachable from the entry or *)
(* not, crosses a marked edge: a dependence that comes back to its own     *)
(* instruction is always seen as loop-carried.                             *)
EveryCycleCut ==
  Done => \A n \in Blocks(graph) : \A cycle \in [1..n -> Blocks(graph)] :
            \E i \in 1..n : ~ Unmarked(cycle[i], cycle[IF i = n THEN 1 ELSE i + 1])

(* c can be reached from b: it is in every set that has b and all          *)
(* successors of its blocks.                                               *)
Closed(g, S) == \A b \in S : \A k \in DOMAIN g.successors[b] : g.successors[b][k] \in S

LeadsTo(g, b, c) == \A S \in SUBSET Blocks(g) : b \in S /\ Closed(g, S) => c \in S

(* A marked edge does close a cycle: its target leads back to its source.  *)
(* An acyclic function never reports a loop-carried dependence.            *)
MarksCloseCycles ==
  \A e \in loop_edges : LeadsTo(graph, graph.successors[e[1]][e[2]], e[1])
=============================================================================
