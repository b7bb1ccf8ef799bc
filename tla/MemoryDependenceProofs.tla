----------------------- MODULE MemoryDependenceProofs -----------------------
(***************************************************************************)
(* For every set of well-formed functions: the queue of the analysis       *)
(* agrees with its bits, and the table is read off a fixed point (what the *)
(* transfer of a block computes plays no part in that: it is an operator   *)
(* these proofs never open).  For every region: what                       *)
(* storage_region_relation answers is true of the elements.  For every     *)
(* execution of every verified function: what the next instruction depends *)
(* on is in the table, or ordered by it.                                   *)
(***************************************************************************)
EXTENDS MemoryExecution, FiniteSetTheorems, NaturalsInduction, WellFoundedInduction, TLAPS

(* The types of what the worklist is made of; a frontier is any value.     *)
Basic ==
  /\ program \in Programs
  /\ worklist \in Seq(Blocks)
  /\ current \in Blocks \cup {0}
  /\ edge \in Nat \ {0}
  /\ inputs = [b \in Blocks |-> inputs[b]]
  /\ outputs = [b \in Blocks |-> outputs[b]]
  /\ complete \in BOOLEAN

(* Nothing is handed on before the loop edges are known.                   *)
Early ==
  \/ Search!Done
  \/ current = 0 /\ complete = FALSE /\ \A b \in Blocks : outputs[b] = {}

Over == complete => worklist = <<>> /\ current = 0

(* A block that is not queued has the exit that its entry calls for.       *)
Settled == \A b \in Blocks : b \notin queued => Consistent(b)

(* Every edge has been followed with the exit its block has now, but for   *)
(* the edges that the block being handed on has still to follow.           *)
Followed ==
  \A b \in Blocks : \A k \in DOMAIN program.successors[b] :
    (b # current \/ k < edge) =>
      Marked(outputs[b], <<b, k>> \in loop_edges) \subseteq inputs[program.successors[b][k]]

IInv == Basic /\ QueueAgrees /\ Early /\ Over /\ Settled /\ Followed

-----------------------------------------------------------------------------

(* The graph of a well-formed function.                                    *)
LEMMA GraphFacts ==
  ASSUME program \in Programs
  PROVE  /\ program.count \in Nat
         /\ program.successors \in [Blocks -> Seq(Blocks)]
         /\ \A b \in Blocks : \A k \in DOMAIN program.successors[b] :
              program.successors[b][k] \in Blocks
         /\ 0 \notin Blocks
<1>1. WellFormed(program)
  BY ProgramsAssumption
<1>2. program.count \in Nat /\ program.successors \in [Blocks -> Seq(Blocks)]
  BY <1>1 DEF WellFormed, Blocks
<1>3. 0 \notin Blocks
  BY <1>2 DEF Blocks
<1>4. ASSUME NEW b \in Blocks, NEW k \in DOMAIN program.successors[b]
      PROVE  program.successors[b][k] \in Blocks
  <2>1. program.successors[b] \in Seq(Blocks)
    BY <1>2
  <2>2. QED
    BY <2>1
<1>5. QED
  BY <1>2, <1>3, <1>4

(* An empty frontier stays empty over every edge.                          *)
LEMMA MarkedEmpty == \A m : Marked({}, m) = {}
BY DEF Marked

LEMMA InitInvariant == Init => IInv
<1> SUFFICES ASSUME Init PROVE IInv
  OBVIOUS
<1>1. program \in Programs
  BY DEF Init, Search!Init
<1>2. program.count \in Nat
  BY <1>1, GraphFacts
<1>3. worklist = [b \in 1 .. program.count |-> b] /\ queued = Blocks
  BY DEF Init, Blocks
<1>4. worklist \in Seq(Blocks) /\ Len(worklist) = program.count /\ DOMAIN worklist = Blocks
  BY <1>2, <1>3 DEF Blocks
<1>5. Basic
  <2>1. inputs = [b \in Blocks |-> inputs[b]] /\ outputs = [b \in Blocks |-> outputs[b]]
    <3>1. inputs = [b \in Blocks |-> {}] /\ outputs = [b \in Blocks |-> {}]
      BY DEF Init
    <3>2. \A b \in Blocks : inputs[b] = {} /\ outputs[b] = {}
      BY <3>1
    <3>3. QED
      BY <3>1, <3>2, Zenon
  <2>2. current \in Blocks \cup {0} /\ edge \in Nat \ {0} /\ complete \in BOOLEAN
    <3>1. current = 0 /\ edge = 1
      BY DEF Init
    <3>2. complete = FALSE
      BY DEF Init
    <3>3. complete \in BOOLEAN
      BY <3>2, Zenon
    <3>4. QED
      BY <3>1, <3>3
  <2>3. QED
    BY <1>1, <1>4, <2>1, <2>2, Zenon DEF Basic
<1>6. QueueAgrees
  BY <1>3, <1>4 DEF QueueAgrees, Blocks
<1>7. Early /\ Over
  BY DEF Init, Early, Over
<1>8. Settled
  BY <1>3 DEF Settled
<1>9. \A b \in Blocks : outputs[b] = {}
  BY DEF Init
<1>10. Followed
  BY <1>9, MarkedEmpty DEF Followed
<1>11. QED
  BY <1>5, <1>6, <1>7, <1>8, <1>10 DEF IInv

-----------------------------------------------------------------------------

(* While the graph is searched no frontier has been handed on.             *)
LEMMA BuildGraphStep ==
  ASSUME IInv, BuildGraph
  PROVE  IInv'
<1>1. program \in Programs /\ program.count \in Nat
  BY GraphFacts DEF IInv, Basic
<1>2. program' = program /\ Blocks' = Blocks
  BY DEF BuildGraph, Search!Next, Search!Start, Search!Leave, Search!Follow, Blocks
<1>3. UNCHANGED <<inputs, outputs, worklist, queued, current, edge, complete, dependences>>
  BY DEF BuildGraph, fixpoint
<1>4. ~ Search!Done
  <2>1. SUFFICES ASSUME stack = <<>>, start = program.count + 1 PROVE FALSE
    BY DEF Search!Done
  <2>2. start \notin 1 .. program.count
    BY <1>1, <2>1
  <2>3. QED
    BY <2>1, <2>2 DEF BuildGraph, Search!Next, Search!Start, Search!Leave, Search!Follow,
                      Search!Blocks
<1>5. current = 0 /\ complete = FALSE /\ \A b \in Blocks : outputs[b] = {}
  BY <1>4 DEF IInv, Early
<1>6. Basic' /\ QueueAgrees'
  BY <1>2, <1>3 DEF IInv, Basic, QueueAgrees
<1>7. Early' /\ Over'
  BY <1>2, <1>3, <1>5 DEF Early, Over
<1>8. Settled'
  BY <1>2, <1>3 DEF IInv, Settled, Consistent
<1>9. Followed'
  <2>1. \A b \in Blocks : outputs'[b] = {}
    BY <1>3, <1>5
  <2>2. QED
    BY <1>2, <2>1, MarkedEmpty DEF Followed
<1>10. QED
  BY <1>6, <1>7, <1>8, <1>9 DEF IInv

(* The first block leaves the queue, with the exit its entry calls for.    *)
LEMMA TakeStep ==
  ASSUME IInv, Take
  PROVE  IInv'
<1> DEFINE b == Head(worklist)
<1> DEFINE output == TransferBlock(program, b, inputs[b])
<1>1. /\ program' = program /\ Blocks' = Blocks /\ inputs' = inputs
      /\ loop_edges' = loop_edges /\ complete' = complete
      /\ Search!Done /\ Search!Done' /\ complete = FALSE
  BY DEF Take, search, Blocks, Search!Done, IInv, Basic
<1>2. /\ current = 0 /\ edge' = 1
      /\ worklist' = Tail(worklist)
      /\ queued' = queued \ {b}
      /\ outputs' = [outputs EXCEPT ![b] = output]
      /\ current' = IF output # outputs[b] THEN b ELSE 0
  BY DEF Take, Rest, Changed
<1>3. worklist \in Seq(Blocks) /\ worklist # <<>>
  BY DEF IInv, Basic, Take
<1>4. b \in Blocks /\ 0 \notin Blocks
  BY <1>3, GraphFacts DEF IInv, Basic
<1>5. /\ outputs = [c \in Blocks |-> outputs[c]]
      /\ outputs'[b] = output
      /\ \A c \in Blocks : c # b => outputs'[c] = outputs[c]
      /\ outputs' = [c \in Blocks |-> outputs'[c]]
  BY <1>2, <1>4, Zenon DEF IInv, Basic
<1>6. Basic'
  <2>1. worklist' \in Seq(Blocks)
    BY <1>2, <1>3
  <2>2. QED
    BY <1>1, <1>2, <1>4, <1>5, <2>1 DEF IInv, Basic
<1>7. QueueAgrees'
  <2>1. /\ Len(worklist) \in Nat /\ Len(worklist) >= 1
        /\ DOMAIN worklist = 1 .. Len(worklist) /\ b = worklist[1]
    BY <1>3
  <2>2. /\ Len(worklist') = Len(worklist) - 1
        /\ DOMAIN worklist' = 1 .. Len(worklist) - 1
        /\ \A i \in 1 .. Len(worklist) - 1 : worklist'[i] = worklist[i + 1]
    BY <1>2, <1>3
  <2>3. /\ queued = {worklist[i] : i \in 1 .. Len(worklist)}
        /\ \A i, j \in 1 .. Len(worklist) : worklist[i] = worklist[j] => i = j
    BY <2>1 DEF IInv, QueueAgrees
  <2>4. \A i, j \in 1 .. Len(worklist) - 1 : worklist'[i] = worklist'[j] => i = j
    BY <2>1, <2>2, <2>3
  <2>5. ASSUME NEW c \in queued' PROVE \E i \in 1 .. Len(worklist) - 1 : worklist'[i] = c
    <3>1. c \in queued /\ c # worklist[1]
      BY <1>2, <2>1, <2>5
    <3>2. PICK i \in 1 .. Len(worklist) : c = worklist[i]
      BY <2>3, <3>1
    <3>3. i # 1 /\ i - 1 \in 1 .. Len(worklist) - 1 /\ (i - 1) + 1 = i
      BY <2>1, <3>1, <3>2
    <3>4. QED
      BY <2>2, <3>2, <3>3
  <2>6. ASSUME NEW i \in 1 .. Len(worklist) - 1 PROVE worklist'[i] \in queued'
    <3>1. i + 1 \in 1 .. Len(worklist) /\ 1 \in 1 .. Len(worklist) /\ i + 1 # 1
      BY <2>1
    <3>2. worklist[i + 1] \in queued /\ worklist[i + 1] # worklist[1]
      BY <2>3, <3>1
    <3>3. QED
      BY <1>2, <2>1, <2>2, <3>2
  <2>7. queued' = {worklist'[i] : i \in 1 .. Len(worklist) - 1}
    <3>1. queued' \subseteq {worklist'[i] : i \in 1 .. Len(worklist) - 1}
      BY <2>5
    <3>2. {worklist'[i] : i \in 1 .. Len(worklist) - 1} \subseteq queued'
      BY <2>6
    <3>3. QED
      BY <3>1, <3>2
  <2>8. QED
    BY <2>2, <2>4, <2>7 DEF QueueAgrees
<1>8. Early' /\ Over'
  BY <1>1 DEF Early, Over
<1>9. Settled'
  <2>1. ASSUME NEW c \in Blocks, c \notin queued' PROVE outputs'[c] = TransferBlock(program, c, inputs[c])
    <3>1. CASE c = b
      BY <1>5, <3>1
    <3>2. CASE c # b
      BY <1>2, <1>5, <2>1, <3>2 DEF IInv, Settled, Consistent
    <3>3. QED
      BY <3>1, <3>2
  <2>2. QED
    BY <1>1, <2>1 DEF Settled, Consistent
<1>10. Followed'
  <2>1. ASSUME NEW c \in Blocks, NEW k \in DOMAIN program.successors[c],
               c # current' \/ k < edge'
        PROVE  Marked(outputs'[c], <<c, k>> \in loop_edges) \subseteq inputs[program.successors[c][k]]
    <3>1. Marked(outputs[c], <<c, k>> \in loop_edges) \subseteq inputs[program.successors[c][k]]
      BY <1>2, <1>4 DEF IInv, Followed
    <3>2. program.successors[c] \in Seq(Blocks)
      BY GraphFacts DEF IInv, Basic
    <3>3. ~ (k < 1)
      BY <3>2
    <3>4. c # current'
      BY <1>2, <2>1, <3>3
    <3>5. outputs'[c] = outputs[c]
      BY <1>2, <1>5, <3>4
    <3>6. QED
      BY <3>1, <3>5
  <2>2. QED
    BY <1>1, <2>1 DEF Followed
<1>11. QED
  BY <1>6, <1>7, <1>8, <1>9, <1>10 DEF IInv
(* One edge is followed; its target is queued when its entry has grown.    *)
LEMMA HandOnStep ==
  ASSUME IInv, HandOn
  PROVE  IInv'
<1> DEFINE t == program.successors[current][edge]
<1> DEFINE merged == inputs[t] \cup Marked(outputs[current], <<current, edge>> \in loop_edges)
<1>1. /\ program' = program /\ Blocks' = Blocks /\ outputs' = outputs
      /\ loop_edges' = loop_edges /\ complete' = complete /\ current' = current
      /\ current # 0 /\ edge' = edge + 1
  BY DEF HandOn, search, Blocks
<1>2. /\ edge \in DOMAIN program.successors[current]
      /\ inputs' = [inputs EXCEPT ![t] = merged]
      /\ IF merged # inputs[t] /\ t \notin queued
         THEN worklist' = Append(worklist, t) /\ queued' = queued \cup {t}
         ELSE worklist' = worklist /\ queued' = queued
  BY DEF HandOn, Successors, Into, Wakes, Pushed
<1>3. /\ current \in Blocks /\ worklist \in Seq(Blocks) /\ edge \in Nat \ {0}
      /\ inputs = [c \in Blocks |-> inputs[c]]
  BY <1>1 DEF IInv, Basic
<1>4. t \in Blocks
  BY <1>2, <1>3, GraphFacts DEF IInv, Basic
<1>5. Search!Done /\ Search!Done'
  <2>1. Search!Done
    BY <1>1 DEF IInv, Early
  <2>2. QED
    BY <1>1, <2>1 DEF HandOn, search, Search!Done
<1>6. /\ inputs'[t] = merged
      /\ \A c \in Blocks : c # t => inputs'[c] = inputs[c]
      /\ inputs' = [c \in Blocks |-> inputs'[c]]
      /\ \A c \in Blocks : inputs[c] \subseteq inputs'[c]
  <2> HIDE DEF merged, t
  <2>1. /\ inputs'[t] = merged
        /\ \A c \in Blocks : c # t => inputs'[c] = inputs[c]
        /\ inputs' = [c \in Blocks |-> inputs'[c]]
    BY <1>2, <1>3, <1>4, Zenon
  <2>2. inputs[t] \subseteq merged
    BY DEF merged
  <2>3. QED
    BY <2>1, <2>2
<1> HIDE DEF merged, t
<1>7. Basic'
  <2>1. worklist' \in Seq(Blocks)
    <3>1. worklist' = worklist \/ worklist' = Append(worklist, t)
      BY <1>2, Zenon
    <3>2. QED
      BY <1>3, <1>4, <3>1
  <2>2. edge' \in Nat \ {0}
    BY <1>1, <1>3
  <2>3. QED
    BY <1>1, <1>6, <2>1, <2>2 DEF IInv, Basic
<1>8. QueueAgrees'
  <2>1. CASE worklist' = worklist /\ queued' = queued
    BY <2>1 DEF IInv, QueueAgrees
  <2>2. CASE t \notin queued /\ worklist' = Append(worklist, t) /\ queued' = queued \cup {t}
    <3>1. /\ Len(worklist) \in Nat
          /\ Len(worklist') = Len(worklist) + 1
          /\ DOMAIN worklist = 1 .. Len(worklist) /\ DOMAIN worklist' = 1 .. Len(worklist) + 1
          /\ \A i \in 1 .. Len(worklist) : worklist'[i] = worklist[i]
          /\ worklist'[Len(worklist) + 1] = t
      BY <1>3, <1>4, <2>2
    <3>2. /\ queued = {worklist[i] : i \in 1 .. Len(worklist)}
          /\ \A i, j \in 1 .. Len(worklist) : worklist[i] = worklist[j] => i = j
      BY <3>1 DEF IInv, QueueAgrees
    <3>3. \A i \in 1 .. Len(worklist) : worklist[i] # t
      BY <2>2, <3>2
    <3>4. \A i, j \in 1 .. Len(worklist) + 1 : worklist'[i] = worklist'[j] => i = j
      BY <3>1, <3>2, <3>3
    <3>5. queued' = {worklist'[i] : i \in 1 .. Len(worklist) + 1}
      BY <2>2, <3>1, <3>2
    <3>6. QED
      BY <3>1, <3>4, <3>5 DEF QueueAgrees
  <2>3. QED
    BY <1>2, <2>1, <2>2
<1>9. Early' /\ Over'
  BY <1>1, <1>5 DEF IInv, Early, Over
<1>10. Settled'
  <2>1. ASSUME NEW c \in Blocks, c \notin queued' PROVE outputs[c] = TransferBlock(program, c, inputs'[c])
    <3>1. c \notin queued /\ (c = t => merged = inputs[t])
      BY <1>2, <2>1
    <3>2. inputs'[c] = inputs[c]
      BY <1>6, <3>1
    <3>3. QED
      BY <3>1, <3>2 DEF IInv, Settled, Consistent
  <2>2. QED
    BY <1>1, <2>1 DEF Settled, Consistent
<1>11. Followed'
  <2>1. ASSUME NEW c \in Blocks, NEW k \in DOMAIN program.successors[c],
               c # current \/ k < edge + 1
        PROVE  Marked(outputs[c], <<c, k>> \in loop_edges) \subseteq inputs'[program.successors[c][k]]
    <3>1. program.successors[c][k] \in Blocks /\ k \in Nat
      BY GraphFacts DEF IInv, Basic
    <3>2. CASE c # current \/ k < edge
      <4>1. Marked(outputs[c], <<c, k>> \in loop_edges) \subseteq inputs[program.successors[c][k]]
        BY <3>2 DEF IInv, Followed
      <4>2. QED
        BY <1>6, <3>1, <4>1
    <3>3. CASE c = current /\ k = edge
      <4>1. program.successors[c][k] = t
        BY <3>3 DEF t
      <4>2. Marked(outputs[c], <<c, k>> \in loop_edges) \subseteq merged
        BY <3>3 DEF merged
      <4>3. QED
        BY <1>6, <4>1, <4>2
    <3>4. QED
      BY <1>3, <2>1, <3>1, <3>2, <3>3
  <2>2. QED
    BY <1>1, <2>1 DEF Followed
<1>12. QED
  BY <1>7, <1>8, <1>9, <1>10, <1>11 DEF IInv

(* The last edge has been followed: nothing is left to follow.             *)
LEMMA LeaveStep ==
  ASSUME IInv, Leave
  PROVE  IInv'
<1>1. /\ program' = program /\ Blocks' = Blocks /\ current # 0 /\ current' = 0
      /\ edge = Len(program.successors[current]) + 1 /\ edge' = edge
      /\ UNCHANGED <<inputs, outputs, worklist, queued, complete>>
      /\ UNCHANGED <<visits, stack, start, loop_edges, finished>>
  BY DEF Leave, Successors, search, Blocks
<1>2. Search!Done /\ Search!Done'
  BY <1>1 DEF IInv, Early, Search!Done
<1>3. Basic' /\ QueueAgrees' /\ Settled'
  BY <1>1 DEF IInv, Basic, QueueAgrees, Settled, Consistent
<1>4. Early' /\ Over'
  BY <1>1, <1>2 DEF IInv, Early, Over
<1>5. Followed'
  <2>1. ASSUME NEW c \in Blocks, NEW k \in DOMAIN program.successors[c]
        PROVE  c # current \/ k < edge
    <3>1. program.successors[c] \in Seq(Blocks)
      BY GraphFacts DEF IInv, Basic
    <3>2. QED
      BY <1>1, <3>1
  <2>2. QED
    BY <1>1, <2>1 DEF IInv, Followed
<1>6. QED
  BY <1>2, <1>3, <1>4, <1>5 DEF IInv

(* The table is read off when the queue is empty.                          *)
LEMMA CollectStep ==
  ASSUME IInv, Collect
  PROVE  IInv'
<1>1. /\ program' = program /\ Blocks' = Blocks /\ complete' = TRUE
      /\ worklist = <<>> /\ current = 0 /\ Search!Done
      /\ UNCHANGED <<inputs, outputs, worklist, queued, current, edge>>
      /\ UNCHANGED <<visits, stack, start, loop_edges, finished>>
  BY DEF Collect, search, fixpoint, Blocks
<1>2. Basic' /\ QueueAgrees' /\ Settled' /\ Followed'
  BY <1>1 DEF IInv, Basic, QueueAgrees, Settled, Consistent, Followed
<1>3. Early' /\ Over'
  BY <1>1 DEF Early, Over, Search!Done
<1>4. QED
  BY <1>2, <1>3 DEF IInv

LEMMA InductiveStep == IInv /\ [Next]_vars => IInv'
<1> SUFFICES ASSUME IInv, [Next]_vars PROVE IInv'
  OBVIOUS
<1>1. CASE BuildGraph
  BY <1>1, BuildGraphStep
<1>2. CASE Take
  BY <1>2, TakeStep
<1>3. CASE HandOn
  BY <1>3, HandOnStep
<1>4. CASE Leave
  BY <1>4, LeaveStep
<1>5. CASE Collect
  BY <1>5, CollectStep
<1>6. CASE UNCHANGED vars
  <2>1. /\ UNCHANGED <<program, inputs, outputs, worklist, queued, current, edge, complete>>
        /\ UNCHANGED <<visits, stack, start, loop_edges, finished>>
    BY <1>6 DEF vars, search, fixpoint
  <2>2. Blocks' = Blocks
    BY <2>1 DEF Blocks
  <2>3. Basic' /\ QueueAgrees' /\ Settled' /\ Followed' /\ Over'
    BY <2>1, <2>2 DEF IInv, Basic, QueueAgrees, Settled, Consistent, Followed, Over
  <2>4. Early'
    BY <2>1, <2>2 DEF IInv, Early, Search!Done
  <2>5. QED
    BY <2>3, <2>4 DEF IInv
<1>7. QED
  BY <1>1, <1>2, <1>3, <1>4, <1>5, <1>6 DEF Next

LEMMA Invariant == Spec => []IInv
BY InitInvariant, InductiveStep, PTL DEF Spec

-----------------------------------------------------------------------------

(* The queued bits of analyze_function are the blocks of its worklist,     *)
(* each in it once, whatever the function.                                 *)
THEOREM QueueIsExact == Spec => []QueueAgrees
<1>1. IInv => QueueAgrees
  BY DEF IInv
<1>2. QED
  BY Invariant, <1>1, PTL

(* When the dependences are read off, the frontiers are a fixed point of   *)
(* the transfer of every block and of every edge of the function graph.    *)
THEOREM TableFromFixedPoint == Spec => []FixedPoint
<1>1. IInv => FixedPoint
  <2> SUFFICES ASSUME IInv, complete PROVE \A b \in Blocks : Consistent(b) /\ HandedOn(b)
    BY DEF FixedPoint
  <2>1. worklist = <<>> /\ current = 0
    BY DEF IInv, Over
  <2>2. queued = {}
    BY <2>1 DEF IInv, QueueAgrees
  <2>3. 0 \notin Blocks
    BY GraphFacts DEF IInv, Basic
  <2>4. QED
    BY <2>1, <2>2, <2>3 DEF IInv, Settled, Followed, HandedOn
<1>2. QED
  BY Invariant, <1>1, PTL

-----------------------------------------------------------------------------

(* What is proved of the search, for the graphs of the functions.          *)
Cut == INSTANCE FeedbackEdgesProofs WITH Graphs <- Programs, graph <- program

(* No other step of the analysis disturbs the search.                      *)
LEMMA AnalysisSearches == Spec => Cut!Spec
<1>1. Init => Cut!Init
  BY DEF Init, Search!Init, Cut!Init, Search!Blocks, Cut!Blocks
<1>2. [Next]_vars => [Cut!Next]_Cut!vars
  <2>1. BuildGraph => Cut!Next
    BY DEF BuildGraph, Search!Next, Cut!Next, Search!Start, Cut!Start, Search!Leave, Cut!Leave,
           Search!Follow, Cut!Follow, Search!Top, Cut!Top, Search!Popped, Cut!Popped,
           Search!Advanced, Cut!Advanced, Search!Frame, Cut!Frame, Search!Blocks, Cut!Blocks,
           Search!ClosesLoop, Cut!ClosesLoop
  <2>2. Take \/ HandOn \/ Leave \/ Collect \/ UNCHANGED vars => UNCHANGED Cut!vars
    BY DEF Take, HandOn, Leave, Collect, vars, search, Cut!vars
  <2>3. QED
    BY <2>1, <2>2 DEF Next
<1>3. QED
  BY <1>1, <1>2, PTL DEF Spec, Cut!Spec

(* Every cycle of the graph of every function crosses a marked edge when   *)
(* the analysis starts to propagate: a dependence of an instruction on     *)
(* itself or on a later one is always seen as loop-carried.                *)
THEOREM LoopsAreCut == Spec => []LoopsCut
<1>1. \A g \in Programs : Cut!IsGraph(g)
  BY ProgramsAssumption DEF WellFormed, Cut!IsGraph, Cut!Blocks
<1>2. Cut!Spec => []Cut!EveryCycleCut
  BY <1>1, Cut!CyclesCut
<1>3. Cut!EveryCycleCut => LoopsCut
  BY DEF LoopsCut, Cut!EveryCycleCut, Search!EveryCycleCut, Cut!Done, Search!Done,
         Cut!Blocks, Search!Blocks, Cut!Unmarked, Search!Unmarked
<1>4. QED
  BY <1>2, <1>3, AnalysisSearches, PTL

(* Every marked edge of every function closes a cycle of its graph: the    *)
(* analysis never calls a dependence of a function without loops           *)
(* loop-carried.                                                           *)
THEOREM MarksAreLoops == Spec => []MarksCloseLoops
<1>1. \A g \in Programs : Cut!IsGraph(g)
  BY ProgramsAssumption DEF WellFormed, Cut!IsGraph, Cut!Blocks
<1>2. Cut!Spec => []Cut!MarksCloseCycles
  BY <1>1, Cut!MarksAreCycles
<1>3. Cut!MarksCloseCycles => MarksCloseLoops
  BY DEF MarksCloseLoops, Cut!MarksCloseCycles, Search!MarksCloseCycles, Cut!LeadsTo,
         Search!LeadsTo, Cut!Closed, Search!Closed, Cut!Blocks, Search!Blocks
<1>4. QED
  BY <1>2, <1>3, AnalysisSearches, PTL

-----------------------------------------------------------------------------
(* Numbers: remainders, divisors, and the elements of a dimension.         *)

(* Division with a remainder.                                              *)
LEMMA Quotient ==
  ASSUME NEW a \in Nat, NEW b \in Nat \ {0}
  PROVE  a \div b \in Nat /\ a % b \in 0 .. b - 1 /\ a = b * (a \div b) + (a % b)
<1>1. a \div b \in Nat
  OBVIOUS
<1>2. a % b \in 0 .. b - 1
  OBVIOUS
<1>3. ASSUME NEW q \in Int, NEW m \in Int, q = a \div b, m = a % b
      PROVE  a = b * q + m
  BY <1>3
<1>4. QED
  BY <1>1, <1>2, <1>3

(* A number with a known quotient and remainder.                           *)
LEMMA Remainder ==
  ASSUME NEW q \in Int, NEW b \in Nat \ {0}, NEW r \in 0 .. b - 1
  PROVE  (b * q + r) % b = r /\ (b * q + r) \div b = q
OBVIOUS

(* A multiple leaves no remainder, and nothing else does.                  *)
LEMMA Multiple ==
  ASSUME NEW a \in Nat, NEW b \in Nat \ {0}
  PROVE  a % b = 0 <=> \E q \in Nat : a = b * q
<1>1. ASSUME a % b = 0 PROVE \E q \in Nat : a = b * q
  BY <1>1
<1>2. ASSUME NEW q \in Nat, a = b * q PROVE a % b = 0
  <2>1. a = b * q + 0 /\ 0 \in 0 .. b - 1
    BY <1>2
  <2>2. QED
    BY <2>1, Remainder
<1>3. QED
  BY <1>1, <1>2

(* Multiplication keeps the order.                                         *)
LEMMA Growing ==
  ASSUME NEW a \in Nat, NEW b \in Nat, NEW c \in Nat, a <= b
  PROVE  a * c <= b * c
OBVIOUS

(* Sizes are natural numbers, up to the largest one.                       *)
LEMMA Sizes ==
  /\ SizeMax \in Nat \ {0} /\ EnumerationLimit \in Nat
  /\ \A n \in Size : n \in Nat
BY SizeAssumption DEF Size

(* What a dimension is made of.                                            *)
LEMMA DimensionFacts ==
  ASSUME NEW d \in Dimensions
  PROVE  d.first \in Nat /\ d.stride \in Nat /\ d.count \in Nat /\ d.first <= SizeMax
BY SizeAssumption DEF Dimensions, Size

(* A dimension without a count has no elements.                            *)
LEMMA EmptyElements ==
  ASSUME NEW d \in Dimensions, d.count = 0
  PROVE  Elements(d) = {}
BY DimensionFacts DEF Elements

(* The elements of a dimension that has a last one lie between its first   *)
(* and its last, and are sizes.                                            *)
LEMMA ElementFacts ==
  ASSUME NEW d \in Dimensions, HasLast(d), NEW k \in 0 .. d.count - 1
  PROVE  /\ d.first + k * d.stride \in Elements(d)
         /\ d.first + k * d.stride \in Size
         /\ d.first <= d.first + k * d.stride
         /\ d.first + k * d.stride <= Last(d)
         /\ Last(d) \in Size
<1>0. /\ d.first \in Nat /\ d.stride \in Nat \ {0} /\ d.count \in Nat \ {0} /\ d.first <= SizeMax
      /\ SizeMax \in Nat /\ k \in Nat
  BY DimensionFacts, SizeAssumption DEF HasLast
<1>1. k * d.stride \in Nat /\ (d.count - 1) * d.stride \in Nat
  BY <1>0
<1>2. k * d.stride <= (d.count - 1) * d.stride
  BY <1>0, Growing
<1>3. Last(d) = d.first + (d.count - 1) * d.stride
  BY <1>0 DEF Last
<1>4. (d.count - 1) * d.stride <= SizeMax - d.first
  <2>1. CASE d.count = 1
    BY <1>0, <2>1
  <2>2. CASE d.count > 1
    <3>1. d.stride <= (SizeMax - d.first) \div (d.count - 1)
      BY <2>2 DEF HasLast
    <3>2. SizeMax - d.first \in Nat /\ d.count - 1 \in Nat \ {0}
      BY <1>0, <2>2
    <3>3. ASSUME NEW s \in Nat, NEW c \in Nat \ {0}, NEW n \in Nat, s <= n \div c
          PROVE  c * s <= n
      BY <3>3
    <3>4. QED
      BY <1>0, <3>1, <3>2, <3>3
  <2>3. QED
    BY <1>0, <2>1, <2>2
<1>5. QED
  BY <1>0, <1>1, <1>2, <1>3, <1>4 DEF Elements, Size

(* contains answers whether a value is an element.                         *)
LEMMA ContainsExact ==
  ASSUME NEW d \in Dimensions, HasLast(d), NEW v \in Size
  PROVE  Contains(d, v) <=> v \in Elements(d)
<1>0. /\ d.first \in Nat /\ d.stride \in Nat \ {0} /\ d.count \in Nat /\ v \in Nat
  BY DimensionFacts, SizeAssumption DEF HasLast, Size
<1>1. ASSUME Contains(d, v) PROVE v \in Elements(d)
  <2>1. d.count \in Nat \ {0} /\ v >= d.first /\ v <= Last(d) /\ (v - d.first) % d.stride = 0
    BY <1>0, <1>1 DEF Contains
  <2>2. v - d.first \in Nat
    BY <1>0, <2>1
  <2>3. PICK k \in Nat : v - d.first = d.stride * k
    BY <1>0, <2>1, <2>2, Multiple
  <2>4. d.stride * k <= (d.count - 1) * d.stride
    BY <1>0, <2>1, <2>3 DEF Last
  <2>5. k <= d.count - 1
    <3>1. SUFFICES ASSUME d.count <= k PROVE FALSE
      BY <1>0, <2>1
    <3>2. d.count * d.stride <= k * d.stride
      BY <1>0, <3>1, Growing
    <3>3. d.count * d.stride = (d.count - 1) * d.stride + d.stride
      BY <1>0
    <3>4. k * d.stride = d.stride * k
      BY <1>0
    <3>5. /\ d.count * d.stride \in Nat /\ k * d.stride \in Nat
          /\ (d.count - 1) * d.stride \in Int
      BY <1>0
    <3>6. QED
      BY <1>0, <2>4, <3>2, <3>3, <3>4, <3>5
  <2>6. k \in 0 .. d.count - 1 /\ v = d.first + k * d.stride
    BY <1>0, <2>1, <2>3, <2>5
  <2>7. QED
    BY <2>6 DEF Elements
<1>2. ASSUME v \in Elements(d) PROVE Contains(d, v)
  <2>1. PICK k \in 0 .. d.count - 1 : v = d.first + k * d.stride
    BY <1>2 DEF Elements
  <2>2. v >= d.first /\ v <= Last(d) /\ d.count # 0
    <3>1. v <= Last(d) /\ d.first <= v /\ Last(d) \in Size
      BY <2>1, ElementFacts
    <3>2. QED
      BY <1>0, <2>1, <3>1, Sizes
  <2>3. k \in Nat /\ v - d.first \in Nat /\ v - d.first = d.stride * k
    BY <1>0, <2>1, <2>2
  <2>4. (v - d.first) % d.stride = 0
    BY <1>0, <2>3, Multiple
  <2>5. QED
    BY <2>2, <2>4 DEF Contains
<1>3. QED
  BY <1>1, <1>2

(* A set of natural numbers that is not empty has a least element.         *)
LEMMA Least ==
  ASSUME NEW S, S \subseteq Nat, S # {}
  PROVE  \E m \in S : \A x \in S : m <= x
<1>1. PICK m \in S : \A x \in S : ~ (<<x, m>> \in OpToRel(<, Nat))
  BY NatLessThanWellFounded, WFMin
<1>2. \A x \in S : ~ (x < m)
  BY <1>1 DEF OpToRel
<1>3. m \in Nat /\ \A x \in S : x \in Nat
  OBVIOUS
<1>4. QED
  BY <1>2, <1>3

(* A set of numbers up to n that is not empty has a largest one.           *)
LEMMA Greatest ==
  ASSUME NEW n \in Nat, NEW S \in SUBSET (1 .. n), S # {}
  PROVE  \E g \in S : \A h \in S : h <= g
<1> DEFINE below == {n - h : h \in S}
<1>1. below \subseteq Nat /\ below # {}
  <2>1. \A h \in S : n - h \in Nat
    OBVIOUS
  <2>2. PICK h \in S : TRUE
    OBVIOUS
  <2>3. n - h \in below
    OBVIOUS
  <2>4. QED
    BY <2>1, <2>3
<1>2. PICK m \in below : \A x \in below : m <= x
  <2> HIDE DEF below
  <2> QED
    BY <1>1, Least
<1>3. PICK g \in S : m = n - g
  BY <1>2
<1>4. ASSUME NEW h \in S PROVE h <= g
  <2>1. n - h \in below
    OBVIOUS
  <2>2. n - g <= n - h
    BY <1>2, <1>3, <2>1
  <2>3. h \in 1 .. n /\ g \in 1 .. n
    OBVIOUS
  <2>4. QED
    BY <2>2, <2>3
<1>5. QED
  BY <1>4

(* std::gcd: a common divisor, whichever it is.                            *)
LEMMA GcdDivides ==
  ASSUME NEW m \in Nat \ {0}, NEW n \in Nat \ {0}
  PROVE  Gcd(m, n) \in Nat \ {0} /\ Divides(Gcd(m, n), m) /\ Divides(Gcd(m, n), n)
<1> DEFINE common == {g \in 1 .. m : Divides(g, m) /\ Divides(g, n)}
<1>1. 1 \in common
  <2>1. m = 1 * m /\ n = 1 * n /\ 1 \in Nat \ {0} /\ 1 \in 1 .. m
    OBVIOUS
  <2>2. m % 1 = 0 /\ n % 1 = 0
    BY <2>1, Multiple
  <2>3. QED
    BY <2>1, <2>2 DEF Divides
<1>2. common \in SUBSET (1 .. m) /\ m \in Nat
  OBVIOUS
<1>3. PICK g \in common : \A h \in common : h <= g
  <2> HIDE DEF common
  <2> QED
    BY <1>1, <1>2, Greatest
<1>4. /\ g \in 1 .. m /\ Divides(g, m) /\ Divides(g, n)
      /\ \A h \in g + 1 .. m : ~ (Divides(h, m) /\ Divides(h, n))
  BY <1>3
<1>5. Gcd(m, n) \in 1 .. m /\ Divides(Gcd(m, n), m) /\ Divides(Gcd(m, n), n)
  <2> HIDE DEF common
  <2> QED
    BY <1>4, Zenon DEF Gcd
<1>6. QED
  BY <1>5

(* The element a + i * s of one progression is b + j * t of another.       *)
Meet(a, i, s, b, j, t) == a + i * s = b + j * t

(* Two progressions with a common element differ by a multiple of every    *)
(* common divisor of their strides.                                        *)
LEMMA DistanceDivided ==
  ASSUME NEW g \in Nat \ {0}, NEW s \in Nat, NEW t \in Nat, Divides(g, s), Divides(g, t),
         NEW a \in Nat, NEW b \in Nat, NEW i \in Nat, NEW j \in Nat, Meet(a, i, s, b, j, t)
  PROVE  Divides(g, Distance(a, b))
<1>1. PICK p \in Nat : s = g * p
  BY Multiple DEF Divides
<1>2. PICK q \in Nat : t = g * q
  BY Multiple DEF Divides
<1>3. a - b = j * (g * q) - i * (g * p)
  <2>1. i * s \in Nat /\ j * t \in Nat /\ a - b = j * t - i * s
    BY DEF Meet
  <2>2. QED
    BY <1>1, <1>2, <2>1
<1>4. j * (g * q) = g * (j * q) /\ i * (g * p) = g * (i * p) /\ j * q \in Nat /\ i * p \in Nat
  OBVIOUS
<1> DEFINE u == j * q
<1> DEFINE v == i * p
<1>5. a - b = g * (u - v) /\ b - a = g * (v - u) /\ u \in Nat /\ v \in Nat
  <2>1. u \in Nat /\ v \in Nat /\ a - b = g * u - g * v
    BY <1>3, <1>4
  <2> HIDE DEF u, v
  <2>2. QED
    BY <2>1
<1> HIDE DEF u, v
<1>6. CASE a >= b
  <2>1. u - v \in Nat
    <3>1. SUFFICES ASSUME u < v PROVE FALSE
      BY <1>5
    <3>2. v - u >= 1 /\ v - u \in Nat /\ 1 \in Nat
      BY <1>5, <3>1
    <3>3. 1 * g <= (v - u) * g
      BY <3>2, Growing
    <3>4. QED
      BY <1>5, <1>6, <3>2, <3>3
  <2>2. a - b \in Nat
    BY <1>6
  <2>3. (a - b) % g = 0
    BY <1>5, <2>1, <2>2, Multiple
  <2>4. QED
    BY <1>6, <2>3 DEF Distance, Divides
<1>7. CASE ~ (a >= b)
  <2>1. v - u \in Nat
    <3>1. SUFFICES ASSUME v < u PROVE FALSE
      BY <1>5
    <3>2. u - v >= 1 /\ u - v \in Nat /\ 1 \in Nat
      BY <1>5, <3>1
    <3>3. 1 * g <= (u - v) * g
      BY <3>2, Growing
    <3>4. QED
      BY <1>5, <1>7, <3>2, <3>3
  <2>2. b - a \in Nat
    BY <1>7
  <2>3. (b - a) % g = 0
    BY <1>5, <2>1, <2>2, Multiple
  <2>4. QED
    BY <1>7, <2>3 DEF Distance, Divides
<1>8. QED
  BY <1>6, <1>7

(* dimensions_disjoint is right when it says so.                           *)
LEMMA DisjointHasNoElement ==
  ASSUME NEW left \in Dimensions, NEW right \in Dimensions, DimensionsDisjoint(left, right),
         NEW x \in Elements(left), x \in Elements(right)
  PROVE  FALSE
<1>0. left.count # 0 /\ right.count # 0
  BY EmptyElements
<1>1. HasLast(left) /\ HasLast(right)
  BY <1>0 DEF DimensionsDisjoint
<1>2. PICK i \in 0 .. left.count - 1 : x = left.first + i * left.stride
  BY DEF Elements
<1>3. PICK j \in 0 .. right.count - 1 : x = right.first + j * right.stride
  BY DEF Elements
<1>4. /\ x \in Size /\ left.first <= x /\ x <= Last(left) /\ right.first <= x /\ x <= Last(right)
      /\ Last(left) \in Size /\ Last(right) \in Size
  BY <1>1, <1>2, <1>3, ElementFacts
<1>5. /\ left.first \in Nat /\ left.stride \in Nat \ {0} /\ left.count \in Nat \ {0}
      /\ right.first \in Nat /\ right.stride \in Nat \ {0} /\ right.count \in Nat \ {0}
      /\ left.first \in Size /\ right.first \in Size /\ i \in Nat /\ j \in Nat
  BY <1>0, <1>1, DimensionFacts DEF HasLast, Dimensions
<1>6. ~ (Last(left) < right.first) /\ ~ (Last(right) < left.first)
  BY <1>4, <1>5, Sizes
<1>7. ASSUME left.count = 1, ~ Contains(right, left.first) PROVE FALSE
  <2>1. x = left.first
    BY <1>2, <1>5, <1>7
  <2>2. QED
    BY <1>1, <1>5, <1>7, <2>1, ContainsExact
<1>8. ASSUME right.count = 1, ~ Contains(left, right.first) PROVE FALSE
  <2>1. x = right.first
    BY <1>3, <1>5, <1>8
  <2>2. QED
    BY <1>1, <1>5, <1>8, <2>1, ContainsExact
<1>9. ~ ResiduesDiffer(left, right)
  <2> DEFINE g == Gcd(left.stride, right.stride)
  <2>1. g \in Nat \ {0} /\ Divides(g, left.stride) /\ Divides(g, right.stride)
    BY <1>5, GcdDivides
  <2> HIDE DEF g
  <2>2. Meet(left.first, i, left.stride, right.first, j, right.stride)
    BY <1>2, <1>3 DEF Meet
  <2>3. /\ left.first \in Nat /\ left.stride \in Nat /\ right.first \in Nat
        /\ right.stride \in Nat /\ i \in Nat /\ j \in Nat
    BY <1>5
  <2>4. Divides(g, Distance(left.first, right.first))
    BY <2>1, <2>2, <2>3, DistanceDivided
  <2>5. QED
    BY <2>4 DEF ResiduesDiffer, Divides, g
<1>10. ~ NoneCommon(left, right)
  <2>1. Contains(right, left.first + i * left.stride)
    BY <1>1, <1>2, <1>4, ContainsExact
  <2>2. QED
    BY <2>1 DEF NoneCommon
<1>11. ~ NoneCommon(right, left)
  <2>1. Contains(left, right.first + j * right.stride)
    BY <1>1, <1>3, <1>4, ContainsExact
  <2>2. QED
    BY <2>1 DEF NoneCommon
<1>12. QED
  BY <1>0, <1>6, <1>7, <1>8, <1>9, <1>10, <1>11, Zenon DEF DimensionsDisjoint

-----------------------------------------------------------------------------
(* Functions defined by recursion over 0 .. n.                             *)

(* What holds of 0 and goes on from k - 1 to k holds of 0 .. n.            *)
LEMMA Induction ==
  ASSUME NEW n \in Nat, NEW S, 0 \in S, \A k \in 1 .. n : k - 1 \in S => k \in S
  PROVE  \A k \in 0 .. n : k \in S
<1> DEFINE failing == {k \in 0 .. n : k \notin S}
<1> SUFFICES ASSUME failing # {} PROVE FALSE
  OBVIOUS
<1>1. failing \subseteq Nat
  OBVIOUS
<1>2. PICK m \in failing : \A x \in failing : m <= x
  <2> HIDE DEF failing
  <2> QED
    BY <1>1, Least
<1>3. m \in 1 .. n /\ m - 1 \in 0 .. n /\ ~ (m <= m - 1)
  BY <1>2
<1>4. m - 1 \in S
  BY <1>2, <1>3
<1>5. QED
  BY <1>2, <1>3, <1>4

(* A function defined by recursion over 0 .. n exists, whatever its step.  *)
Iterates(h, n, first, step) ==
  h[0] = first /\ \A k \in 1 .. n : h[k] = step[<<k, h[k - 1]>>]

(* Such a function exists when its steps stay within a set.                *)
LEMMA Recursion ==
  ASSUME NEW n \in Nat, NEW X, NEW first \in X, NEW step \in [(1 .. n) \X X -> X]
  PROVE  \E h \in [0 .. n -> X] : Iterates(h, n, first, step)
<1> DEFINE Fits(h, m) == /\ h \in [0 .. m -> X] /\ h[0] = first
                         /\ \A k \in 1 .. m : h[k] = step[<<k, h[k - 1]>>]
<1> DEFINE S == {m \in 0 .. n : \E h : Fits(h, m)}
<1>1. 0 \in S
  <2>1. Fits([k \in 0 .. 0 |-> first], 0)
    OBVIOUS
  <2> HIDE DEF Fits
  <2> QED
    BY <2>1
<1>2. ASSUME NEW m \in 1 .. n, m - 1 \in S
      PROVE  m \in S
  <2>1. PICK h : Fits(h, m - 1)
    BY <1>2
  <2> DEFINE e == [k \in 0 .. m |-> IF k = m THEN step[<<m, h[m - 1]>>] ELSE h[k]]
  <2>2. m \in Nat /\ m - 1 \in 0 .. (m - 1) /\ m # 0 /\ \A k \in 0 .. m : k # m => k \in 0 .. (m - 1)
    OBVIOUS
  <2>3. h[m - 1] \in X
    BY <2>1, <2>2
  <2>4. step[<<m, h[m - 1]>>] \in X
    BY <2>3
  <2>5. e \in [0 .. m -> X]
    BY <2>1, <2>2, <2>4
  <2>6. e[0] = first
    BY <2>1, <2>2
  <2>7. ASSUME NEW k \in 1 .. m PROVE e[k] = step[<<k, e[k - 1]>>]
    <3>1. k - 1 \in 0 .. m /\ k - 1 # m /\ k \in 0 .. m
      BY <2>2
    <3>2. e[k - 1] = h[k - 1]
      BY <3>1
    <3>3. CASE k = m
      BY <3>1, <3>2, <3>3
    <3>4. CASE k # m
      <4>1. k \in 1 .. (m - 1)
        BY <2>2, <3>4
      <4>2. h[k] = step[<<k, h[k - 1]>>]
        BY <2>1, <4>1
      <4>3. QED
        BY <3>1, <3>2, <3>4, <4>2
    <3>5. QED
      BY <3>3, <3>4
  <2>8. Fits(e, m)
    BY <2>5, <2>6, <2>7
  <2> HIDE DEF Fits, e
  <2> QED
    BY <2>8
<1>3. n \in S
  <2>1. \A k \in 0 .. n : k \in S
    <3> HIDE DEF S
    <3> QED
      BY <1>1, <1>2, Induction
  <2>2. QED
    BY <2>1
<1>4. PICK h : Fits(h, n)
  BY <1>3
<1>5. QED
  BY <1>4 DEF Iterates

(* The weights of the axes of a shape.                                     *)
LEMMA WeightFacts ==
  ASSUME NEW shape \in Seq(Size)
  PROVE  /\ Len(shape) \in Nat /\ DOMAIN shape = 1 .. Len(shape)
         /\ \A k \in 1 .. Len(shape) : shape[k] \in Nat /\ shape[k] <= SizeMax
         /\ Weight(shape)[0] = 1
         /\ \A k \in 0 .. Len(shape) : Weight(shape)[k] \in Nat
         /\ \A k \in 1 .. Len(shape) : Weight(shape)[k] = Weight(shape)[k - 1] * shape[k]
<1> DEFINE n == Len(shape)
<1> DEFINE step == [z \in (1 .. n) \X Nat |-> z[2] * shape[z[1]]]
<1> DEFINE E(w) == [k \in 0 .. n |-> IF k = 0 THEN 1 ELSE w[k - 1] * shape[k]]
<1>1. n \in Nat /\ DOMAIN shape = 1 .. n /\ \A k \in 1 .. n : shape[k] \in Nat /\ shape[k] <= SizeMax
  BY SizeAssumption DEF Size
<1>2. step \in [(1 .. n) \X Nat -> Nat]
  <2>1. \A z \in (1 .. n) \X Nat : z[2] * shape[z[1]] \in Nat
    BY <1>1
  <2>2. QED
    BY <2>1
<1>3. PICK h \in [0 .. n -> Nat] : Iterates(h, n, 1, step)
  <2>1. 1 \in Nat /\ n \in Nat
    BY <1>1
  <2> HIDE DEF n, step
  <2>2. QED
    BY <1>2, <2>1, Recursion
<1>4. ASSUME NEW k \in 0 .. n PROVE h[k] = IF k = 0 THEN 1 ELSE h[k - 1] * shape[k]
  <2>1. CASE k = 0
    BY <1>3, <2>1 DEF Iterates
  <2>2. CASE k # 0
    <3>1. k \in 1 .. n /\ k - 1 \in 0 .. n
      BY <1>1, <2>2
    <3>2. h[k] = step[<<k, h[k - 1]>>] /\ h[k - 1] \in Nat
      BY <1>3, <3>1 DEF Iterates
    <3>3. step[<<k, h[k - 1]>>] = h[k - 1] * shape[k]
      BY <3>1, <3>2
    <3>4. QED
      BY <2>2, <3>2, <3>3
  <2>3. QED
    BY <2>1, <2>2
<1>5. h = E(h)
  <2>1. h = [k \in 0 .. n |-> h[k]]
    BY <1>3
  <2>2. QED
    BY <1>4, <2>1
<1>6. Weight(shape) = E(Weight(shape))
  <2>1. Weight(shape) = CHOOSE w : w = E(w)
    BY DEF Weight
  <2> HIDE DEF E
  <2>2. QED
    BY <1>5, <2>1
<1> HIDE DEF n
<1>7. \A k \in 0 .. n : Weight(shape)[k] = IF k = 0 THEN 1 ELSE Weight(shape)[k - 1] * shape[k]
  BY <1>6, Zenon
<1>8. Weight(shape)[0] = 1
  BY <1>1, <1>7
<1>9. \A k \in 1 .. n : Weight(shape)[k] = Weight(shape)[k - 1] * shape[k]
  BY <1>1, <1>7
<1> DEFINE S == {k \in 0 .. n : Weight(shape)[k] \in Nat}
<1>10. 0 \in S
  BY <1>1, <1>8
<1>11. ASSUME NEW k \in 1 .. n, k - 1 \in S PROVE k \in S
  BY <1>1, <1>9, <1>11
<1>12. \A k \in 0 .. n : k \in S
  <2> HIDE DEF S
  <2> QED
    BY <1>1, <1>10, <1>11, Induction
<1>13. QED
  BY <1>1, <1>8, <1>9, <1>12 DEF n

-----------------------------------------------------------------------------
(* The elements of a root, in column-major order.                          *)

(* checked_element_count: the product of the extents, unless it fails.     *)
LEMMA ElementCountFacts ==
  ASSUME NEW shape \in Seq(Size), ElementCount(shape) # -1
  PROVE  ElementCount(shape) = Weight(shape)[Len(shape)]
<1> DEFINE n == Len(shape)
<1> DEFINE W == Weight(shape)
<1> DEFINE X == Nat \cup {-1}
<1> DEFINE B(k, x) == IF x = -1 \/ shape[k] = DynamicExtent
                         \/ (shape[k] # 0 /\ x > SizeMax \div shape[k]) THEN -1
                      ELSE x * shape[k]
<1> DEFINE step == [z \in (1 .. n) \X X |-> B(z[1], z[2])]
<1> DEFINE E(w) == [k \in 0 .. n |-> IF k = 0 THEN 1 ELSE B(k, w[k - 1])]
<1>1. n \in Nat /\ \A k \in 1 .. n : shape[k] \in Nat
  BY WeightFacts
<1>2. \A k \in 1 .. n : \A x \in X : B(k, x) \in X
  <2> SUFFICES ASSUME NEW k \in 1 .. n, NEW x \in X PROVE B(k, x) \in X
    OBVIOUS
  <2>1. CASE x = -1
    BY <2>1
  <2>2. CASE x # -1
    <3>1. x \in Nat /\ shape[k] \in Nat
      BY <1>1, <2>2
    <3>2. x * shape[k] \in Nat
      BY <3>1
    <3> HIDE DEF n
    <3>3. QED
      BY <3>2
  <2>3. QED
    BY <2>1, <2>2
<1> HIDE DEF B
<1>3. step \in [(1 .. n) \X X -> X]
  <2>1. \A z \in (1 .. n) \X X : B(z[1], z[2]) \in X
    BY <1>2
  <2> HIDE DEF X
  <2>2. QED
    BY <2>1
<1>4. PICK h \in [0 .. n -> X] : Iterates(h, n, 1, step)
  <2>1. 1 \in X /\ n \in Nat
    BY <1>1
  <2> HIDE DEF n, step, X
  <2>2. QED
    BY <1>3, <2>1, Recursion
<1> HIDE DEF X
<1>5. ASSUME NEW k \in 0 .. n PROVE h[k] = IF k = 0 THEN 1 ELSE B(k, h[k - 1])
  <2>1. CASE k = 0
    BY <1>4, <2>1 DEF Iterates
  <2>2. CASE k # 0
    <3>1. k \in 1 .. n /\ k - 1 \in 0 .. n
      BY <1>1, <2>2
    <3>2. h[k] = step[<<k, h[k - 1]>>] /\ h[k - 1] \in X
      BY <1>4, <3>1 DEF Iterates
    <3>3. step[<<k, h[k - 1]>>] = B(k, h[k - 1])
      BY <3>1, <3>2
    <3>4. QED
      BY <2>2, <3>2, <3>3
  <2>3. QED
    BY <2>1, <2>2
<1>6. h = E(h)
  <2>1. h = [k \in 0 .. n |-> h[k]]
    BY <1>4
  <2>2. QED
    BY <1>5, <2>1
<1> DEFINE f == CHOOSE w : w = E(w)
<1>7. ElementCount(shape) = f[n]
  BY DEF ElementCount, B
<1>8. f = E(f)
  <2> HIDE DEF E
  <2> QED
    BY <1>6
<1> HIDE DEF f, n
<1>9. \A k \in 0 .. n : f[k] = IF k = 0 THEN 1 ELSE B(k, f[k - 1])
  BY <1>8, Zenon
<1> DEFINE S == {k \in 0 .. n : f[k] = -1 \/ f[k] = W[k]}
<1>10. 0 \in S
  BY <1>1, <1>9, WeightFacts
<1>11. ASSUME NEW k \in 1 .. n, k - 1 \in S PROVE k \in S
  <2>1. f[k] = B(k, f[k - 1]) /\ k \in 0 .. n /\ (f[k - 1] = -1 \/ f[k - 1] = W[k - 1])
    BY <1>1, <1>9, <1>11
  <2>2. f[k] = -1 \/ (f[k] = f[k - 1] * shape[k] /\ f[k - 1] # -1)
    BY <2>1 DEF B
  <2>3. W[k] = W[k - 1] * shape[k]
    BY WeightFacts DEF n
  <2>4. QED
    BY <2>1, <2>2, <2>3
<1>12. \A k \in 0 .. n : k \in S
  <2> HIDE DEF S
  <2> QED
    BY <1>1, <1>10, <1>11, Induction
<1>13. n \in S
  BY <1>1, <1>12
<1>14. QED
  BY <1>7, <1>13 DEF n

(* The places of the elements of a root.                                   *)
LEMMA OffsetFacts ==
  ASSUME NEW shape \in Seq(Size), NEW e \in [1 .. Len(shape) -> Nat]
  PROVE  \E f : /\ f[0] = 0
                /\ \A k \in 1 .. Len(shape) : f[k] = f[k - 1] + e[k] * Weight(shape)[k - 1]
                /\ Offset(shape, e) = f[Len(shape)]
<1> DEFINE n == Len(shape)
<1> DEFINE W == Weight(shape)
<1> DEFINE step == [z \in (1 .. n) \X Nat |-> z[2] + e[z[1]] * W[z[1] - 1]]
<1> DEFINE E(w) == [k \in 0 .. n |-> IF k = 0 THEN 0 ELSE w[k - 1] + e[k] * W[k - 1]]
<1>1. n \in Nat /\ \A k \in 1 .. n : e[k] \in Nat /\ W[k - 1] \in Nat
  <2>1. n \in Nat /\ \A k \in 0 .. n : W[k] \in Nat
    BY WeightFacts
  <2>2. \A k \in 1 .. n : k - 1 \in 0 .. n
    BY <2>1
  <2>3. QED
    BY <2>1, <2>2
<1> HIDE DEF W
<1>2. step \in [(1 .. n) \X Nat -> Nat]
  <2>1. \A z \in (1 .. n) \X Nat : z[2] + e[z[1]] * W[z[1] - 1] \in Nat
    <3> SUFFICES ASSUME NEW k \in 1 .. n, NEW x \in Nat PROVE x + e[k] * W[k - 1] \in Nat
      OBVIOUS
    <3>1. e[k] \in Nat /\ W[k - 1] \in Nat
      BY <1>1
    <3>2. e[k] * W[k - 1] \in Nat
      BY <3>1
    <3>3. QED
      BY <3>2
  <2>2. QED
    BY <2>1
<1>3. PICK h \in [0 .. n -> Nat] : Iterates(h, n, 0, step)
  <2>1. 0 \in Nat /\ n \in Nat
    BY <1>1
  <2> HIDE DEF n, step
  <2>2. QED
    BY <1>2, <2>1, Recursion
<1>4. ASSUME NEW k \in 0 .. n PROVE h[k] = IF k = 0 THEN 0 ELSE h[k - 1] + e[k] * W[k - 1]
  <2>1. CASE k = 0
    BY <1>3, <2>1 DEF Iterates
  <2>2. CASE k # 0
    <3>1. k \in 1 .. n /\ k - 1 \in 0 .. n
      BY <1>1, <2>2
    <3>2. h[k] = step[<<k, h[k - 1]>>] /\ h[k - 1] \in Nat
      BY <1>3, <3>1 DEF Iterates
    <3>3. step[<<k, h[k - 1]>>] = h[k - 1] + e[k] * W[k - 1]
      BY <3>1, <3>2
    <3>4. QED
      BY <2>2, <3>2, <3>3
  <2>3. QED
    BY <2>1, <2>2
<1>5. h = E(h)
  <2>1. h = [k \in 0 .. n |-> h[k]]
    BY <1>3
  <2>2. QED
    BY <1>4, <2>1
<1> DEFINE f == CHOOSE w : w = E(w)
<1>6. Offset(shape, e) = f[n]
  BY DEF Offset, W
<1>7. f = E(f)
  <2> HIDE DEF E
  <2> QED
    BY <1>5
<1> HIDE DEF f, n
<1>8. \A k \in 0 .. n : f[k] = IF k = 0 THEN 0 ELSE f[k - 1] + e[k] * W[k - 1]
  BY <1>7, Zenon
<1>9. f[0] = 0 /\ \A k \in 1 .. n : f[k] = f[k - 1] + e[k] * W[k - 1]
  BY <1>1, <1>8
<1>10. QED
  BY <1>6, <1>9 DEF n, W

(* One more digit of a number in a mixed radix.                            *)
LEMMA Digit ==
  ASSUME NEW o \in Nat, NEW w \in Nat \ {0}, NEW s \in Nat \ {0}
  PROVE  o % (w * s) = (o % w) + ((o \div w) % s) * w
<1> DEFINE q == o \div w
<1> DEFINE r == o % w
<1> DEFINE u == q \div s
<1> DEFINE t == q % s
<1>1. q \in Nat /\ r \in 0 .. w - 1 /\ o = w * q + r
  BY Quotient
<1>2. u \in Nat /\ t \in 0 .. s - 1 /\ q = s * u + t
  <2> HIDE DEF q
  <2> QED
    BY <1>1, Quotient
<1> HIDE DEF q, r, u, t
<1>3. o = (w * s) * u + (w * t + r)
  BY <1>1, <1>2
<1>4. w * s \in Nat \ {0}
  OBVIOUS
<1>5. w * t + r \in 0 .. (w * s) - 1
  <2>1. t + 1 \in Nat /\ s \in Nat /\ t + 1 <= s /\ w \in Nat
    BY <1>2
  <2>2. (t + 1) * w <= s * w
    BY <2>1, Growing
  <2>3. (t + 1) * w = t * w + w /\ t * w \in Nat /\ w * t = t * w /\ s * w = w * s
    BY <2>1, <1>2
  <2>4. QED
    BY <1>1, <1>4, <2>2, <2>3
<1> DEFINE m == w * s
<1> DEFINE v == w * t + r
<1>6. o = m * u + v /\ m \in Nat \ {0} /\ v \in 0 .. m - 1 /\ u \in Int
  BY <1>2, <1>3, <1>4, <1>5
<1> HIDE DEF m, v
<1>7. o % m = v
  BY <1>6, Remainder
<1>8. v = r + t * w
  BY <1>1, <1>2 DEF v
<1>9. QED
  BY <1>7, <1>8 DEF m, r, t, q

Static(shape) == \A i \in DOMAIN shape : shape[i] # DynamicExtent

(* The elements of a whole axis.                                           *)
LEMMA AxisElements ==
  ASSUME NEW c \in Nat
  PROVE  Elements([first |-> 0, stride |-> 1, count |-> c]) = 0 .. c - 1
<1>1. Elements([first |-> 0, stride |-> 1, count |-> c]) = {0 + k * 1 : k \in 0 .. c - 1}
  BY DEF Elements
<1>2. \A k \in 0 .. c - 1 : 0 + k * 1 = k
  OBVIOUS
<1>3. QED
  BY <1>1, <1>2

(* The whole of a root.                                                    *)
LEMMA WholeFacts ==
  ASSUME NEW shape \in Seq(Size), Static(shape)
  PROVE  /\ full_storage_region(shape).kind = "rectangular"
         /\ full_storage_region(shape).root_shape = shape
         /\ Rectangle(full_storage_region(shape)) =
              {e \in [1 .. Len(shape) -> Size] : \A i \in 1 .. Len(shape) : e[i] \in 0 .. shape[i] - 1}
<1> DEFINE dims == [i \in DOMAIN shape |-> [first |-> 0, stride |-> 1, count |-> shape[i]]]
<1> DEFINE r == [kind |-> "rectangular", root_shape |-> shape, dimensions |-> dims]
<1>1. full_storage_region(shape) = r
  BY DEF full_storage_region, Static
<1>2. DOMAIN shape = 1 .. Len(shape) /\ \A i \in 1 .. Len(shape) : shape[i] \in Nat
  BY WeightFacts
<1>3. r.dimensions = dims /\ DOMAIN dims = 1 .. Len(shape) /\ r.kind = "rectangular" /\ r.root_shape = shape
  BY <1>2
<1> HIDE DEF r
<1>4. \A i \in 1 .. Len(shape) : Elements(dims[i]) = 0 .. shape[i] - 1
  BY <1>2, AxisElements
<1>5. Rectangle(r) = {e \in [1 .. Len(shape) -> Size] : \A i \in 1 .. Len(shape) : e[i] \in 0 .. shape[i] - 1}
  <2> HIDE DEF dims
  <2>1. Rectangle(r) = {e \in [1 .. Len(shape) -> Size] : \A i \in 1 .. Len(shape) : e[i] \in Elements(dims[i])}
    BY <1>3 DEF Rectangle
  <2>2. QED
    BY <1>4, <2>1
<1>6. QED
  BY <1>1, <1>3, <1>5

(* Every place below the number of elements is the place of an element.    *)
LEMMA OffsetOnto ==
  ASSUME NEW shape \in Seq(Size), Static(shape), ElementCount(shape) # -1,
         NEW o \in Nat, o < ElementCount(shape)
  PROVE  \E e \in Rectangle(full_storage_region(shape)) : Offset(shape, e) = o
<1> DEFINE n == Len(shape)
<1> DEFINE W == Weight(shape)
<1>1. /\ n \in Nat /\ \A k \in 1 .. n : shape[k] \in Nat /\ shape[k] <= SizeMax
      /\ W[0] = 1 /\ (\A k \in 0 .. n : W[k] \in Nat)
      /\ \A k \in 1 .. n : W[k] = W[k - 1] * shape[k]
  BY WeightFacts
<1>2. W[n] # 0 /\ o < W[n]
  <2>1. W[n] = ElementCount(shape) /\ W[n] \in Nat
    BY <1>1, ElementCountFacts
  <2>2. QED
    BY <2>1
<1> HIDE DEF W, n
<1> DEFINE Z == {j \in 0 .. n : W[n - j] # 0}
<1>3. 0 \in Z
  BY <1>1, <1>2
<1>4. ASSUME NEW j \in 1 .. n, j - 1 \in Z PROVE j \in Z
  <2>1. n - (j - 1) \in 1 .. n /\ (n - (j - 1)) - 1 = n - j /\ n - j \in 0 .. n
    BY <1>1
  <2>2. W[n - (j - 1)] = W[n - j] * shape[n - (j - 1)] /\ W[n - (j - 1)] # 0
    BY <1>1, <1>4, <2>1
  <2>3. shape[n - (j - 1)] \in Nat
    BY <1>1, <2>1
  <2>4. W[n - j] # 0
    BY <2>2, <2>3
  <2>5. QED
    BY <2>4
<1>5. \A j \in 0 .. n : j \in Z
  <2> HIDE DEF Z
  <2> QED
    BY <1>1, <1>3, <1>4, Induction
<1>6. ASSUME NEW k \in 0 .. n PROVE W[k] \in Nat \ {0}
  <2>1. n - k \in 0 .. n /\ n - (n - k) = k
    BY <1>1
  <2>2. QED
    BY <1>1, <1>5, <2>1
<1>7. ASSUME NEW k \in 1 .. n PROVE k - 1 \in 0 .. n /\ k \in 0 .. n /\ shape[k] \in Nat \ {0}
  <2>1. k - 1 \in 0 .. n /\ k \in 0 .. n
    BY <1>1
  <2>2. W[k] = W[k - 1] * shape[k] /\ W[k] # 0 /\ W[k - 1] \in Nat /\ shape[k] \in Nat
    BY <1>1, <1>6, <2>1
  <2>3. shape[k] # 0
    <3> SUFFICES ASSUME shape[k] = 0 PROVE FALSE
      OBVIOUS
    <3>1. W[k] = W[k - 1] * 0
      BY <2>2
    <3> QED
      BY <2>2, <3>1
  <2>4. QED
    BY <2>1, <2>2, <2>3
<1> DEFINE digit(k) == (o \div W[k - 1]) % shape[k]
<1> DEFINE e == [k \in 1 .. n |-> digit(k)]
<1>8. ASSUME NEW k \in 1 .. n PROVE digit(k) \in 0 .. shape[k] - 1 /\ digit(k) \in Size
  <2>1. o \div W[k - 1] \in Nat
    BY <1>6, <1>7, Quotient
  <2>2. digit(k) \in 0 .. shape[k] - 1
    BY <1>7, <2>1, Quotient
  <2> HIDE DEF digit
  <2>3. shape[k] \in Nat /\ shape[k] <= SizeMax
    BY <1>1
  <2>4. QED
    BY <2>2, <2>3, SizeAssumption DEF Size
<1> HIDE DEF digit
<1>9. e \in [1 .. n -> Size] /\ \A k \in 1 .. n : e[k] = digit(k) /\ e[k] \in 0 .. shape[k] - 1
  BY <1>8
<1> HIDE DEF e
<1>10. e \in Rectangle(full_storage_region(shape))
  BY <1>9, WholeFacts DEF n
<1>11. e \in [1 .. n -> Nat]
  BY <1>9, Sizes
<1>12. PICK f : /\ f[0] = 0
                /\ \A k \in 1 .. n : f[k] = f[k - 1] + e[k] * W[k - 1]
                /\ Offset(shape, e) = f[n]
  BY <1>11, OffsetFacts DEF n, W
<1> DEFINE S == {k \in 0 .. n : f[k] = o % W[k]}
<1>13. 0 \in S
  <2>1. o = 1 * o /\ o % 1 = 0
    <3>1. o = 1 * o /\ 1 \in Nat \ {0}
      OBVIOUS
    <3>2. QED
      BY <3>1, Multiple
  <2>2. QED
    BY <1>1, <1>12, <2>1
<1>14. ASSUME NEW k \in 1 .. n, k - 1 \in S PROVE k \in S
  <2>1. /\ W[k - 1] \in Nat \ {0} /\ shape[k] \in Nat \ {0} /\ k \in 0 .. n
        /\ W[k] = W[k - 1] * shape[k]
    BY <1>1, <1>6, <1>7
  <2>2. o % (W[k - 1] * shape[k]) = (o % W[k - 1]) + ((o \div W[k - 1]) % shape[k]) * W[k - 1]
    BY <2>1, Digit
  <2>3. f[k] = f[k - 1] + digit(k) * W[k - 1] /\ f[k - 1] = o % W[k - 1]
    BY <1>9, <1>12, <1>14
  <2>4. f[k] = o % W[k]
    BY <2>1, <2>2, <2>3 DEF digit
  <2>5. QED
    BY <2>1, <2>4
<1>15. \A k \in 0 .. n : k \in S
  <2> HIDE DEF S
  <2> QED
    BY <1>1, <1>13, <1>14, Induction
<1>16. f[n] = o
  <2>1. n \in 0 .. n /\ W[n] \in Nat \ {0}
    BY <1>1, <1>6
  <2>2. f[n] = o % W[n]
    BY <1>15, <2>1
  <2>3. o = W[n] * 0 + o /\ o \in 0 .. W[n] - 1 /\ 0 \in Int
    BY <1>2, <2>1
  <2>4. (W[n] * 0 + o) % W[n] = o
    BY <2>1, <2>3, Remainder
  <2>5. QED
    BY <2>2, <2>3, <2>4
<1>17. QED
  BY <1>10, <1>12, <1>16

-----------------------------------------------------------------------------
(* What the comparison of two regions says of their elements.              *)

(* What it is for two regions to be comparable.                            *)
LEMMA ComparableFacts ==
  ASSUME NEW left \in Regions, NEW right \in Regions, ~ Incomparable(left, right)
  PROVE  /\ valid_storage_region(left) /\ valid_storage_region(right)
         /\ left.kind = right.kind /\ left.kind \in {"rectangular", "linearized"}
         /\ left.root_shape = right.root_shape /\ left.root_shape \in Seq(Size)
         /\ Static(left.root_shape)
         /\ left.dimensions \in Seq(Dimensions) /\ right.dimensions \in Seq(Dimensions)
         /\ DOMAIN left.dimensions = 1 .. Len(left.dimensions)
         /\ DOMAIN right.dimensions = DOMAIN left.dimensions
<1>1. /\ valid_storage_region(left) /\ valid_storage_region(right)
      /\ left.kind # "unknown" /\ left.kind = right.kind /\ left.root_shape = right.root_shape
      /\ Len(left.dimensions) = Len(right.dimensions)
  BY DEF Incomparable
<1>2. /\ left.kind \in {"unknown", "rectangular", "linearized"} /\ left.root_shape \in Seq(Size)
      /\ left.dimensions \in Seq(Dimensions) /\ right.dimensions \in Seq(Dimensions)
  BY DEF Regions
<1>3. Static(left.root_shape)
  BY <1>1 DEF valid_storage_region, Static
<1>4. /\ DOMAIN left.dimensions = 1 .. Len(left.dimensions)
      /\ DOMAIN right.dimensions = 1 .. Len(right.dimensions)
  BY <1>2
<1>5. QED
  BY <1>1, <1>2, <1>3, <1>4

(* A valid region has the last elements of its dimensions.                 *)
LEMMA ValidFacts ==
  ASSUME NEW r \in Regions, valid_storage_region(r), r.kind # "unknown"
  PROVE  /\ r.dimensions \in Seq(Dimensions) /\ r.root_shape \in Seq(Size) /\ Static(r.root_shape)
         /\ DOMAIN r.dimensions = 1 .. Len(r.dimensions) /\ Len(r.dimensions) \in Nat
         /\ \A i \in DOMAIN r.dimensions : r.dimensions[i] \in Dimensions /\ HasLast(r.dimensions[i])
         /\ r.kind = "rectangular" =>
              /\ Len(r.dimensions) = Len(r.root_shape)
              /\ \A i \in DOMAIN r.dimensions :
                   r.dimensions[i].count # 0 => Last(r.dimensions[i]) < r.root_shape[i]
         /\ r.kind # "rectangular" =>
              /\ Len(r.dimensions) = 1 /\ ElementCount(r.root_shape) # -1
              /\ r.dimensions[1].count # 0 => Last(r.dimensions[1]) < ElementCount(r.root_shape)
<1>1. r.dimensions \in Seq(Dimensions) /\ r.root_shape \in Seq(Size) /\ Static(r.root_shape)
  BY DEF Regions, valid_storage_region, Static
<1>2. /\ DOMAIN r.dimensions = 1 .. Len(r.dimensions) /\ Len(r.dimensions) \in Nat
      /\ \A i \in DOMAIN r.dimensions : r.dimensions[i] \in Dimensions
  BY <1>1
<1>3. CASE r.kind = "rectangular"
  BY <1>1, <1>2, <1>3 DEF valid_storage_region, ValidRectangle
<1>4. CASE r.kind # "rectangular"
  <2>1. ValidProgression(r)
    BY <1>4 DEF valid_storage_region
  <2>2. \A i \in DOMAIN r.dimensions : i = 1
    BY <1>2, <2>1 DEF ValidProgression
  <2>3. QED
    BY <1>1, <1>2, <1>4, <2>1, <2>2 DEF ValidProgression
<1>5. QED
  BY <1>3, <1>4

(* An element of a region is one of each of its dimensions, or its place is.*)
LEMMA CellFacts ==
  ASSUME NEW r \in Regions, NEW e \in Cells(r)
  PROVE  /\ r.kind = "rectangular" => \A i \in DOMAIN r.dimensions : e[i] \in Elements(r.dimensions[i])
         /\ r.kind # "rectangular" => Offset(r.root_shape, e) \in Elements(r.dimensions[1])
BY DEF Cells, Rectangle, Progression

(* "disjoint": no element is in both regions.                              *)
LEMMA DisjointRegions ==
  ASSUME NEW left \in Regions, NEW right \in Regions,
         storage_region_relation(left, right) = "disjoint"
  PROVE  Cells(left) \cap Cells(right) = {}
<1> SUFFICES ASSUME NEW e \in Cells(left), e \in Cells(right) PROVE FALSE
  OBVIOUS
<1>1. ~ Incomparable(left, right)
  BY DEF storage_region_relation
<1>2. /\ left.kind = right.kind /\ DOMAIN right.dimensions = DOMAIN left.dimensions
      /\ left.root_shape = right.root_shape
      /\ valid_storage_region(left) /\ valid_storage_region(right)
      /\ left.kind # "unknown" /\ right.kind # "unknown"
  BY <1>1, ComparableFacts
<1>3. \A i \in DOMAIN left.dimensions :
        /\ left.dimensions[i] \in Dimensions /\ right.dimensions[i] \in Dimensions
        /\ left.kind # "rectangular" => i = 1
  BY <1>2, ValidFacts
<1>4. PICK i \in DOMAIN left.dimensions :
        \/ left.dimensions[i].count = 0 \/ right.dimensions[i].count = 0
        \/ DimensionsDisjoint(left.dimensions[i], right.dimensions[i])
  BY <1>1, <1>2 DEF storage_region_relation, empty_storage_region
<1>5. DimensionsDisjoint(left.dimensions[i], right.dimensions[i])
  BY <1>4 DEF DimensionsDisjoint
<1>6. PICK x : x \in Elements(left.dimensions[i]) /\ x \in Elements(right.dimensions[i])
  <2>1. CASE left.kind = "rectangular"
    BY <1>2, <2>1, CellFacts
  <2>2. CASE left.kind # "rectangular"
    <3>1. /\ Offset(left.root_shape, e) \in Elements(left.dimensions[1])
          /\ Offset(right.root_shape, e) \in Elements(right.dimensions[1]) /\ i = 1
      BY <1>2, <1>3, <2>2, CellFacts
    <3>2. QED
      BY <1>2, <3>1
  <2>3. QED
    BY <2>1, <2>2
<1>7. QED
  BY <1>3, <1>5, <1>6, DisjointHasNoElement

(* Elements of every dimension make an element of a region.                *)
LEMMA CellOf ==
  ASSUME NEW r \in Regions, valid_storage_region(r), r.kind = "rectangular",
         NEW e \in [DOMAIN r.dimensions -> Size],
         \A i \in DOMAIN r.dimensions : e[i] \in Elements(r.dimensions[i])
  PROVE  e \in Cells(r)
BY DEF Cells, Rectangle

(* The elements of a dimension that has a last one are sizes.              *)
LEMMA ElementsAreSizes ==
  ASSUME NEW d \in Dimensions, HasLast(d), NEW x \in Elements(d)
  PROVE  x \in Size /\ x \in Nat /\ x <= Last(d) /\ d.count # 0 /\ Last(d) \in Nat
<1>1. PICK k \in 0 .. d.count - 1 : x = d.first + k * d.stride
  BY DEF Elements
<1>2. x \in Size /\ x <= Last(d) /\ Last(d) \in Size
  BY <1>1, ElementFacts
<1>3. d.count # 0
  BY EmptyElements
<1>4. QED
  BY <1>2, <1>3, Sizes

(* A place in the one dimension of a linearized region is that of an element.*)
LEMMA PlaceHasCell ==
  ASSUME NEW r \in Regions, valid_storage_region(r), r.kind = "linearized",
         NEW x \in Elements(r.dimensions[1])
  PROVE  \E e \in Rectangle(full_storage_region(r.root_shape)) : Offset(r.root_shape, e) = x
<1>1. /\ r.root_shape \in Seq(Size) /\ Static(r.root_shape) /\ 1 \in DOMAIN r.dimensions
      /\ r.dimensions[1] \in Dimensions /\ HasLast(r.dimensions[1])
      /\ ElementCount(r.root_shape) # -1
      /\ r.dimensions[1].count # 0 => Last(r.dimensions[1]) < ElementCount(r.root_shape)
  <2>1. r.kind # "unknown" /\ r.kind # "rectangular"
    OBVIOUS
  <2>2. /\ r.root_shape \in Seq(Size) /\ Static(r.root_shape)
        /\ ElementCount(r.root_shape) # -1 /\ 1 \in DOMAIN r.dimensions
        /\ r.dimensions[1].count # 0 => Last(r.dimensions[1]) < ElementCount(r.root_shape)
        /\ \A i \in DOMAIN r.dimensions : r.dimensions[i] \in Dimensions /\ HasLast(r.dimensions[i])
    BY <2>1, ValidFacts
  <2>3. QED
    BY <2>2
<1>2. x \in Nat /\ x <= Last(r.dimensions[1]) /\ Last(r.dimensions[1]) < ElementCount(r.root_shape)
      /\ Last(r.dimensions[1]) \in Nat
  BY <1>1, ElementsAreSizes
<1>3. ElementCount(r.root_shape) \in Nat
  BY <1>1, ElementCountFacts, WeightFacts
<1>4. x < ElementCount(r.root_shape)
  BY <1>2, <1>3
<1>5. QED
  BY <1>1, <1>2, <1>4, OffsetOnto

(* "identical": the same elements, at least one.                           *)
LEMMA IdenticalRegions ==
  ASSUME NEW left \in Regions, NEW right \in Regions,
         storage_region_relation(left, right) = "identical"
  PROVE  left = right /\ Cells(left) # {} /\ valid_storage_region(left) /\ left.kind # "unknown"
<1>1. ~ Incomparable(left, right) /\ ~ empty_storage_region(left) /\ left = right
  BY DEF storage_region_relation
<1>2. valid_storage_region(left) /\ left.kind \in {"rectangular", "linearized"}
  BY <1>1, ComparableFacts
<1>3. \A i \in DOMAIN left.dimensions :
        left.dimensions[i] \in Dimensions /\ HasLast(left.dimensions[i])
  BY <1>2, ValidFacts
<1>4. ASSUME NEW i \in DOMAIN left.dimensions
      PROVE  left.dimensions[i].first \in Elements(left.dimensions[i]) /\ left.dimensions[i].first \in Size
  <2> DEFINE d == left.dimensions[i]
  <2>1. d \in Dimensions /\ d.count # 0 /\ HasLast(d)
    BY <1>1, <1>2, <1>3 DEF empty_storage_region
  <2> HIDE DEF d
  <2>2. d.first \in Nat /\ d.stride \in Nat /\ d.count \in Nat
    BY <2>1, DimensionFacts
  <2>3. 0 \in 0 .. d.count - 1 /\ d.first + 0 * d.stride = d.first
    BY <2>1, <2>2
  <2>4. d.first + 0 * d.stride \in Elements(d) /\ d.first + 0 * d.stride \in Size
    BY <2>1, <2>3, ElementFacts
  <2>5. QED
    BY <2>3, <2>4 DEF d
<1>5. CASE left.kind = "rectangular"
  <2> DEFINE e == [i \in DOMAIN left.dimensions |-> left.dimensions[i].first]
  <2>1. e \in [DOMAIN left.dimensions -> Size] /\ \A i \in DOMAIN left.dimensions : e[i] \in Elements(left.dimensions[i])
    BY <1>4
  <2> HIDE DEF e
  <2>2. e \in Cells(left)
    BY <1>2, <1>5, <2>1, CellOf
  <2>3. QED
    BY <1>1, <1>2, <2>2
<1>6. CASE left.kind = "linearized"
  <2>1. 1 \in DOMAIN left.dimensions
    <3>1. left.kind # "rectangular" /\ left.kind # "unknown"
      BY <1>6
    <3>2. QED
      BY <1>2, <3>1, ValidFacts
  <2>2. PICK e \in Rectangle(full_storage_region(left.root_shape)) :
          Offset(left.root_shape, e) = left.dimensions[1].first
    BY <1>2, <1>4, <1>6, <2>1, PlaceHasCell
  <2>3. e \in Cells(left)
    BY <1>4, <1>6, <2>1, <2>2 DEF Cells, Progression
  <2>4. QED
    BY <1>1, <1>2, <2>3
<1>7. QED
  BY <1>2, <1>5, <1>6

(* Two progressions that are not found disjoint, one of them short enough  *)
(* to be enumerated, have a common element.                                *)
LEMMA CommonElement ==
  ASSUME NEW left \in Dimensions, NEW right \in Dimensions, HasLast(left), HasLast(right),
         ~ DimensionsDisjoint(left, right),
         left.count <= EnumerationLimit \/ right.count <= EnumerationLimit
  PROVE  \E x \in Size : x \in Elements(left) /\ x \in Elements(right)
<1>1. /\ left.first \in Nat /\ left.stride \in Nat /\ left.count \in Nat /\ left.first \in Size
      /\ right.first \in Nat /\ right.stride \in Nat /\ right.count \in Nat /\ right.first \in Size
  BY DimensionFacts DEF Dimensions
<1>2. left.count # 0 /\ right.count # 0
  BY DEF DimensionsDisjoint
<1>3. left.first \in Elements(left) /\ right.first \in Elements(right)
  <2>1. 0 \in 0 .. left.count - 1 /\ left.first + 0 * left.stride = left.first
    BY <1>1, <1>2
  <2>2. 0 \in 0 .. right.count - 1 /\ right.first + 0 * right.stride = right.first
    BY <1>1, <1>2
  <2>3. QED
    BY <2>1, <2>2, ElementFacts
<1>4. CASE left.count = 1
  <2>1. Contains(right, left.first)
    BY <1>2, <1>4 DEF DimensionsDisjoint
  <2>2. QED
    BY <1>1, <1>3, <2>1, ContainsExact
<1>5. CASE left.count # 1 /\ right.count = 1
  <2>1. Contains(left, right.first)
    BY <1>2, <1>5 DEF DimensionsDisjoint
  <2>2. QED
    BY <1>1, <1>3, <2>1, ContainsExact
<1>6. CASE left.count # 1 /\ right.count # 1 /\ right.count < left.count
  <2>1. right.count <= EnumerationLimit
    BY <1>1, <1>6, Sizes
  <2>2. ~ NoneCommon(right, left)
    BY <1>2, <1>6, <2>1, Zenon DEF DimensionsDisjoint
  <2>3. PICK k \in 0 .. right.count - 1 : Contains(left, right.first + k * right.stride)
    BY <2>2 DEF NoneCommon
  <2>4. right.first + k * right.stride \in Elements(right) /\ right.first + k * right.stride \in Size
    BY ElementFacts
  <2>5. QED
    BY <2>3, <2>4, ContainsExact
<1>7. CASE left.count # 1 /\ right.count # 1 /\ ~ (right.count < left.count)
  <2>1. left.count <= EnumerationLimit
    BY <1>1, <1>7, Sizes
  <2>2. ~ NoneCommon(left, right)
    BY <1>2, <1>7, <2>1, Zenon DEF DimensionsDisjoint
  <2>3. PICK k \in 0 .. left.count - 1 : Contains(right, left.first + k * left.stride)
    BY <2>2 DEF NoneCommon
  <2>4. left.first + k * left.stride \in Elements(left) /\ left.first + k * left.stride \in Size
    BY ElementFacts
  <2>5. QED
    BY <2>3, <2>4, ContainsExact
<1>8. QED
  BY <1>4, <1>5, <1>6, <1>7

(* "overlaps": a common element, unless two progressions are too long to   *)
(* be enumerated.                                                          *)
LEMMA OverlappingRegions ==
  ASSUME NEW left \in Regions, NEW right \in Regions,
         storage_region_relation(left, right) = "overlaps",
         \A i \in DOMAIN left.dimensions :
           left.dimensions[i].count <= EnumerationLimit \/ right.dimensions[i].count <= EnumerationLimit
  PROVE  Cells(left) \cap Cells(right) # {}
<1>1. /\ ~ Incomparable(left, right)
      /\ \A i \in DOMAIN left.dimensions :
           ~ DimensionsDisjoint(left.dimensions[i], right.dimensions[i])
  BY DEF storage_region_relation
<1>2. /\ left.kind = right.kind /\ DOMAIN right.dimensions = DOMAIN left.dimensions
      /\ left.root_shape = right.root_shape /\ left.kind \in {"rectangular", "linearized"}
      /\ valid_storage_region(left) /\ valid_storage_region(right)
  BY <1>1, ComparableFacts
<1>3. \A i \in DOMAIN left.dimensions :
        /\ left.dimensions[i] \in Dimensions /\ HasLast(left.dimensions[i])
        /\ right.dimensions[i] \in Dimensions /\ HasLast(right.dimensions[i])
  <2>1. left.kind # "unknown" /\ right.kind # "unknown"
    BY <1>2
  <2>2. QED
    BY <1>2, <2>1, ValidFacts
<1>4. \A i \in DOMAIN left.dimensions :
        \E x \in Size : x \in Elements(left.dimensions[i]) /\ x \in Elements(right.dimensions[i])
  BY <1>1, <1>3, CommonElement
<1>5. CASE left.kind = "rectangular"
  <2> DEFINE e == [i \in DOMAIN left.dimensions |->
                     CHOOSE x \in Size : x \in Elements(left.dimensions[i]) /\ x \in Elements(right.dimensions[i])]
  <2>1. \A i \in DOMAIN left.dimensions :
          e[i] \in Size /\ e[i] \in Elements(left.dimensions[i]) /\ e[i] \in Elements(right.dimensions[i])
    BY <1>4
  <2>2. e \in [DOMAIN left.dimensions -> Size]
    BY <2>1
  <2> HIDE DEF e
  <2>3. e \in Cells(left)
    BY <1>2, <1>5, <2>1, <2>2, CellOf
  <2>4. e \in Cells(right)
    BY <1>2, <1>5, <2>1, <2>2, CellOf
  <2>5. QED
    BY <2>3, <2>4
<1>6. CASE left.kind = "linearized"
  <2>1. 1 \in DOMAIN left.dimensions
    <3>1. left.kind # "rectangular" /\ left.kind # "unknown"
      BY <1>6
    <3>2. QED
      BY <1>2, <3>1, ValidFacts
  <2>2. PICK x \in Size : x \in Elements(left.dimensions[1]) /\ x \in Elements(right.dimensions[1])
    BY <1>4, <2>1
  <2>3. PICK e \in Rectangle(full_storage_region(left.root_shape)) : Offset(left.root_shape, e) = x
    BY <1>2, <1>6, <2>2, PlaceHasCell
  <2>4. e \in Cells(left)
    BY <1>6, <2>2, <2>3 DEF Cells, Progression
  <2>5. e \in Cells(right)
    BY <1>2, <1>6, <2>2, <2>3 DEF Cells, Progression
  <2>6. QED
    BY <2>4, <2>5
<1>7. QED
  BY <1>2, <1>5, <1>6

-----------------------------------------------------------------------------
(* Functions and their access sites.                                       *)

(* What a function is made of.                                             *)
LEMMA ProgramFacts ==
  ASSUME NEW p \in Programs
  PROVE  /\ p.count \in Nat \ {0}
         /\ \A b \in 1 .. p.count :
              /\ p.code[b] \in Seq(Instructions(p))
              /\ DOMAIN p.code[b] = 1 .. Len(p.code[b]) /\ Len(p.code[b]) \in Nat
              /\ p.handler[b] \in 0 .. p.count
              /\ p.next[b] \in Seq(1 .. p.count)
              /\ DOMAIN p.next[b] = 1 .. Len(p.next[b])
              /\ {p.successors[b][k] : k \in DOMAIN p.successors[b]} = GraphEdges(p, b)
         /\ DOMAIN p.code = 1 .. p.count
         /\ \A r \in Roots(p) : p.shape[r] \in Seq(Size)
<1>1. WellFormed(p)
  BY ProgramsAssumption
<1>2. /\ p.count \in Nat \ {0}
      /\ p.code \in [1 .. p.count -> Seq(Instructions(p))]
      /\ p.next \in [1 .. p.count -> Seq(1 .. p.count)]
      /\ p.handler \in [1 .. p.count -> 0 .. p.count]
      /\ \A r \in Roots(p) : p.shape[r] \in Seq(Size)
      /\ \A b \in 1 .. p.count :
           {p.successors[b][k] : k \in DOMAIN p.successors[b]} = GraphEdges(p, b)
  BY <1>1 DEF WellFormed
<1>3. ASSUME NEW b \in 1 .. p.count
      PROVE  /\ p.code[b] \in Seq(Instructions(p))
             /\ p.handler[b] \in 0 .. p.count
             /\ p.next[b] \in Seq(1 .. p.count)
  <2> HIDE DEF Instructions
  <2>1. QED
    BY <1>2
<1>4. ASSUME NEW b \in 1 .. p.count
      PROVE  /\ DOMAIN p.code[b] = 1 .. Len(p.code[b]) /\ Len(p.code[b]) \in Nat
             /\ DOMAIN p.next[b] = 1 .. Len(p.next[b])
  BY <1>3
<1>5. QED
  BY <1>2, <1>3, <1>4

(* An element of a sequence.                                               *)
LEMMA SeqElement ==
  ASSUME NEW X, NEW q \in Seq(X), NEW n \in DOMAIN q
  PROVE  q[n] \in X
OBVIOUS

(* What an access site is made of.                                         *)
LEMMA SiteFacts ==
  ASSUME NEW p \in Programs, NEW b \in 1 .. p.count, NEW k \in DOMAIN p.code[b],
         NEW s \in AccessSites(p, b, k)
  PROVE  /\ s \in AllSites(p)
         /\ s.instruction = <<b, k>> /\ s.instruction[1] = b /\ s.instruction[2] = k
         /\ s.mode \in Modes /\ s.unknown \in BOOLEAN
         /\ ~ s.unknown => /\ Access(p, s).root \in Roots(p)
                           /\ Access(p, s).region \in Regions
                           /\ \E n \in DOMAIN p.code[b][k].accesses :
                                s.mode = p.code[b][k].accesses[n].mode
<1>1. s \in AllSites(p)
  BY DEF AllSites
<1>2. p.code[b][k] \in Instructions(p)
  <2>1. p.code[b] \in Seq(Instructions(p))
    BY ProgramFacts
  <2>2. QED
    BY <2>1
<1>3. /\ p.code[b][k].accesses \in Seq([root : Roots(p), region : Regions, mode : Modes])
      /\ p.code[b][k].unknown \in Modes \cup {"none"}
  BY <1>2 DEF Instructions
<1>4. CASE \E n \in DOMAIN p.code[b][k].accesses : s = KnownSite(b, k, n, p.code[b][k].accesses[n].mode)
  <2>1. PICK n \in DOMAIN p.code[b][k].accesses : s = KnownSite(b, k, n, p.code[b][k].accesses[n].mode)
    BY <1>4
  <2>2. p.code[b][k].accesses[n] \in [root : Roots(p), region : Regions, mode : Modes]
    BY <1>3, SeqElement
  <2>3. /\ s.instruction = <<b, k>> /\ s.ordinal = n /\ s.unknown = FALSE
        /\ s.mode = p.code[b][k].accesses[n].mode
    BY <2>1 DEF KnownSite
  <2>4. Access(p, s) = p.code[b][k].accesses[n]
    BY <2>3 DEF Access
  <2>5. Access(p, s).root \in Roots(p) /\ Access(p, s).region \in Regions /\ s.mode \in Modes
    <3>1. p.code[b][k].accesses[n].mode \in Modes
      BY <2>2
    <3>2. p.code[b][k].accesses[n].root \in Roots(p) /\ p.code[b][k].accesses[n].region \in Regions
      BY <2>2
    <3>3. QED
      BY <2>3, <2>4, <3>1, <3>2
  <2>6. s.unknown \in BOOLEAN /\ s.instruction[1] = b /\ s.instruction[2] = k
    <3>1. s.unknown \in BOOLEAN
      BY <2>3, Zenon
    <3>2. QED
      BY <2>3, <3>1
  <2>7. QED
    BY <1>1, <2>3, <2>5, <2>6
<1>5. CASE p.code[b][k].unknown # "none" /\ s = UnknownSite(b, k, p.code[b][k].unknown)
  <2>1. /\ s.instruction = <<b, k>> /\ s.unknown = TRUE
        /\ s.mode = p.code[b][k].unknown
    BY <1>5 DEF UnknownSite
  <2>2. s.mode \in Modes
    BY <1>3, <1>5, <2>1
  <2>3. s.unknown \in BOOLEAN /\ s.instruction[1] = b /\ s.instruction[2] = k
    <3>1. s.unknown \in BOOLEAN
      BY <2>1, Zenon
    <3>2. QED
      BY <2>1, <3>1
  <2>4. QED
    BY <1>1, <2>1, <2>2, <2>3
<1>6. QED
  BY <1>4, <1>5 DEF AccessSites

(* A site is one of the instruction it names.                              *)
LEMMA SitePlace ==
  ASSUME NEW p \in Programs, NEW s \in AllSites(p)
  PROVE  /\ s.instruction[1] \in 1 .. p.count
         /\ s.instruction[2] \in DOMAIN p.code[s.instruction[1]]
         /\ s \in AccessSites(p, s.instruction[1], s.instruction[2])
         /\ s.instruction = <<s.instruction[1], s.instruction[2]>>
         /\ s.mode \in Modes /\ s.unknown \in BOOLEAN
         /\ ~ s.unknown => /\ Access(p, s).root \in Roots(p)
                           /\ Access(p, s).region \in Regions
<1>1. PICK b \in 1 .. p.count : \E k \in DOMAIN p.code[b] : s \in AccessSites(p, b, k)
  BY DEF AllSites
<1>2. PICK k \in DOMAIN p.code[b] : s \in AccessSites(p, b, k)
  BY <1>1
<1>3. QED
  BY <1>2, SiteFacts

-----------------------------------------------------------------------------

(* What an execution does leaves the analysis alone.                       *)
LEMMA ExecutionAnalyses == ExecSpec => Spec
<1>1. ExecInit => Init
  BY DEF ExecInit
<1>2. [ExecNext]_allVars => [Next]_vars
  BY DEF ExecNext, Analyse, Start, Commit, Iterate, Fail, Branch, Enter, allVars
<1>3. QED
  BY <1>1, <1>2, PTL DEF ExecSpec, Spec

(* The answers of storage_region_relation are true of the elements: for    *)
(* the accesses of every function, whatever their extents and progressions *)
(* and however long, regions that are not valid included.                  *)
THEOREM AnswersAreTrue == ExecSpec => []AnswersTrue
<1>1. IInv => AnswersTrue
  <2> SUFFICES ASSUME IInv, NEW pair \in ComparedRegions
               PROVE  LET left == pair[1].region
                          right == pair[2].region
                          answer == storage_region_relation(left, right)
                      IN  /\ answer = "disjoint" => Cells(left) \cap Cells(right) = {}
                          /\ answer = "identical" => Cells(left) = Cells(right) /\ Cells(left) # {}
                          /\ answer = "overlaps" =>
                               \/ Cells(left) \cap Cells(right) # {}
                               \/ \E i \in DOMAIN left.dimensions :
                                    BeyondLimit(left.dimensions[i], right.dimensions[i])
    BY Zenon DEF AnswersTrue
  <2> DEFINE left == pair[1].region
  <2> DEFINE right == pair[2].region
  <2>1. PICK s \in AllSites(program), t \in AllSites(program) :
          ~ s.unknown /\ ~ t.unknown /\ pair = <<Access(program, s), Access(program, t)>>
    BY DEF ComparedRegions
  <2>2. left \in Regions /\ right \in Regions
    <3>1. program \in Programs
      BY DEF IInv, Basic
    <3>2. Access(program, s).region \in Regions /\ Access(program, t).region \in Regions
      BY <2>1, <3>1, SitePlace
    <3>3. QED
      BY <2>1, <3>2
  <2> HIDE DEF left, right
  <2>3. ASSUME storage_region_relation(left, right) = "disjoint"
        PROVE  Cells(left) \cap Cells(right) = {}
    BY <2>2, <2>3, DisjointRegions
  <2>4. ASSUME storage_region_relation(left, right) = "identical"
        PROVE  Cells(left) = Cells(right) /\ Cells(left) # {}
    BY <2>2, <2>4, IdenticalRegions
  <2>5. ASSUME storage_region_relation(left, right) = "overlaps",
               \A i \in DOMAIN left.dimensions :
                 ~ BeyondLimit(left.dimensions[i], right.dimensions[i])
        PROVE  Cells(left) \cap Cells(right) # {}
    <3>1. /\ ~ Incomparable(left, right)
      BY <2>5 DEF storage_region_relation
    <3>2. DOMAIN right.dimensions = DOMAIN left.dimensions
          /\ left.dimensions \in Seq(Dimensions) /\ right.dimensions \in Seq(Dimensions)
      BY <2>2, <3>1, ComparableFacts
    <3>3. ASSUME NEW i \in DOMAIN left.dimensions
          PROVE  \/ left.dimensions[i].count <= EnumerationLimit
                 \/ right.dimensions[i].count <= EnumerationLimit
      <4>1. left.dimensions[i] \in Dimensions /\ right.dimensions[i] \in Dimensions
        BY <3>2
      <4>2. left.dimensions[i].count \in Nat /\ right.dimensions[i].count \in Nat
        BY <4>1, DimensionFacts
      <4>3. QED
        BY <2>5, <4>2, Sizes DEF BeyondLimit
    <3>4. QED
      BY <2>2, <2>5, <3>3, OverlappingRegions
  <2>6. QED
    BY <2>3, <2>4, <2>5 DEF left, right
<1>2. QED
  BY <1>1, ExecutionAnalyses, Invariant, PTL

-----------------------------------------------------------------------------
(* What two sites may touch in an execution, and what a kill covers.       *)

(* The cells that a site may touch in the execution.                       *)
Spots(s) == UNION Touches(program, s)

Bound == program \in Executed /\ binding \in Bindings(program)

(* What an execution binds the roots to.                                   *)
LEMMA BoundFacts ==
  ASSUME Bound
  PROVE  /\ program \in Programs /\ Verified(program)
         /\ \A r \in Roots(program) :
              /\ binding[r] \in Roots(program)
              /\ program.shape[binding[r]] = program.shape[r]
              /\ binding[r] # r => program.root_kind[r] = "parameter"
<1>1. program \in Programs /\ Verified(program)
  BY ExecutedAssumption DEF Bound
<1>2. binding \in [Roots(program) -> Roots(program)]
  BY DEF Bound, Bindings
<1>3. \A r \in Roots(program) :
        binding[r] = r \/ (/\ program.root_kind[r] = "parameter"
                           /\ program.shape[binding[r]] = program.shape[r])
  BY DEF Bound, Bindings
<1>4. QED
  BY <1>1, <1>2, <1>3

(* The regions of a function that is executed.                             *)
LEMMA RegionFacts ==
  ASSUME Bound, NEW s \in AllSites(program), ~ s.unknown
  PROVE  /\ Access(program, s).root \in Roots(program)
         /\ Access(program, s).region \in Regions
         /\ valid_storage_region(Access(program, s).region)
         /\ Access(program, s).region.kind # "unknown" =>
              Access(program, s).region.root_shape = program.shape[Access(program, s).root]
<1>1. program \in Programs /\ Verified(program)
  BY BoundFacts
<1>2. Access(program, s).root \in Roots(program) /\ Access(program, s).region \in Regions
  BY <1>1, SitePlace
<1>3. QED
  BY <1>1, <1>2 DEF Verified

(* The cells of a site are those of its root, if it has one; and of its    *)
(* region, if it is known.                                                 *)
LEMMA SpotFacts ==
  ASSUME Bound, NEW s \in AllSites(program), ~ s.unknown, NEW c \in Spots(s)
  PROVE  /\ c[1] = binding[Access(program, s).root]
         /\ Access(program, s).region.kind # "unknown" =>
              c[2] \in Cells(Access(program, s).region)
         /\ Access(program, s).region.kind = "unknown" =>
              c[2] \in Cells(full_storage_region(program.shape[Access(program, s).root]))
         /\ c = <<c[1], c[2]>>
<1> DEFINE r == Access(program, s).root
<1> DEFINE g == Access(program, s).region
<1>1. r \in Roots(program)
  BY RegionFacts
<1>2. program.shape[binding[r]] = program.shape[r]
  BY <1>1, BoundFacts
<1>3. Touches(program, s) = IF g.kind = "unknown" THEN {{d} : d \in RootCells(program, binding[r])}
                            ELSE {{binding[r]} \X Cells(g)}
  BY DEF Touches
<1> HIDE DEF r, g
<1>4. CASE g.kind = "unknown"
  <2>1. c \in RootCells(program, binding[r])
    BY <1>3, <1>4 DEF Spots
  <2>2. c \in {binding[r]} \X Cells(full_storage_region(program.shape[r]))
    BY <1>2, <2>1 DEF RootCells
  <2>3. c[1] = binding[r] /\ c[2] \in Cells(full_storage_region(program.shape[r])) /\ c = <<c[1], c[2]>>
    BY <2>2
  <2>4. QED
    BY <1>4, <2>3 DEF r, g
<1>5. CASE g.kind # "unknown"
  <2>1. c \in {binding[r]} \X Cells(g)
    BY <1>3, <1>5 DEF Spots
  <2>2. c[1] = binding[r] /\ c[2] \in Cells(g) /\ c = <<c[1], c[2]>>
    BY <2>1
  <2>3. QED
    BY <1>5, <2>2 DEF r, g
<1>6. QED
  BY <1>4, <1>5

(* alias_between is sound: two accesses of one cell are never found apart, *)
(* whatever memory the parameters share, and neither of them is a scalar   *)
(* where the other is an aggregate.                                        *)
LEMMA CommonSpot ==
  ASSUME Bound, NEW s \in AllSites(program), NEW t \in AllSites(program),
         NEW c, c \in Spots(s), c \in Spots(t)
  PROVE  /\ SiteRelation(program, s, t) # "no_alias"
         /\ ~ ScalarAggregateDisjoint(program, s, t)
<1>1. CASE s.unknown \/ t.unknown
  BY <1>1 DEF SiteRelation, ScalarAggregateDisjoint
<1>2. CASE ~ s.unknown /\ ~ t.unknown
  <2> DEFINE a == Access(program, s)
  <2> DEFINE d == Access(program, t)
  <2>1. /\ a.root \in Roots(program) /\ d.root \in Roots(program)
        /\ a.region \in Regions /\ d.region \in Regions
    BY <1>2, RegionFacts
  <2>2. binding[a.root] = binding[d.root]
    BY <1>2, SpotFacts
  <2>3. program.shape[a.root] = program.shape[d.root]
    BY <2>1, <2>2, BoundFacts
  <2>4. ~ ScalarAggregateDisjoint(program, s, t)
    BY <2>3 DEF ScalarAggregateDisjoint
  <2>5. CASE a.root = d.root
    <3>1. ASSUME storage_region_relation(a.region, d.region) = "disjoint" PROVE FALSE
      <4>1. Cells(a.region) \cap Cells(d.region) = {}
        BY <2>1, <3>1, DisjointRegions
      <4>2. a.region.kind # "unknown" /\ d.region.kind # "unknown"
        BY <3>1 DEF storage_region_relation, Incomparable
      <4>3. c[2] \in Cells(a.region) /\ c[2] \in Cells(d.region)
        BY <1>2, <4>2, SpotFacts
      <4>4. QED
        BY <4>1, <4>3
    <3>2. alias_between(program, a, d) # "no_alias"
      BY <2>5, <3>1 DEF alias_between
    <3>3. QED
      BY <1>2, <2>4, <3>2 DEF SiteRelation
  <2>6. CASE a.root # d.root
    <3>1. program.root_kind[a.root] = "parameter" \/ program.root_kind[d.root] = "parameter"
      BY <2>1, <2>2, <2>6, BoundFacts
    <3>2. alias_between(program, a, d) = "may_alias"
      BY <2>6, <3>1 DEF alias_between
    <3>3. QED
      BY <1>2, <2>4, <3>2 DEF SiteRelation
  <2>7. QED
    BY <2>5, <2>6
<1>3. s.unknown \in BOOLEAN /\ t.unknown \in BOOLEAN
  BY BoundFacts, SitePlace
<1>4. QED
  BY <1>1, <1>2

(* A valid region of a root has no elements that the root does not have.   *)
LEMMA CellsOfRoot ==
  ASSUME NEW g \in Regions, valid_storage_region(g), g.kind # "unknown", NEW e \in Cells(g)
  PROVE  e \in Cells(full_storage_region(g.root_shape))
<1>1. /\ g.dimensions \in Seq(Dimensions) /\ g.root_shape \in Seq(Size) /\ Static(g.root_shape)
      /\ DOMAIN g.dimensions = 1 .. Len(g.dimensions)
      /\ \A i \in DOMAIN g.dimensions : g.dimensions[i] \in Dimensions /\ HasLast(g.dimensions[i])
  BY ValidFacts
<1>2. DOMAIN g.root_shape = 1 .. Len(g.root_shape)
  BY <1>1
<1> DEFINE whole == full_storage_region(g.root_shape)
<1>3. /\ whole.kind = "rectangular" /\ DOMAIN whole.dimensions = DOMAIN g.root_shape
      /\ \A i \in DOMAIN g.root_shape :
           whole.dimensions[i] = [first |-> 0, stride |-> 1, count |-> g.root_shape[i]]
  BY <1>1 DEF full_storage_region, Static
<1> HIDE DEF whole
<1>4. Cells(whole) = Rectangle(whole)
  BY <1>3 DEF Cells
<1>5. CASE g.kind = "rectangular"
  <2>1. /\ Len(g.dimensions) = Len(g.root_shape)
        /\ \A i \in DOMAIN g.dimensions :
             g.dimensions[i].count # 0 => Last(g.dimensions[i]) < g.root_shape[i]
    BY <1>5, ValidFacts
  <2>2. /\ e \in [DOMAIN g.dimensions -> Size]
        /\ \A i \in DOMAIN g.dimensions : e[i] \in Elements(g.dimensions[i])
    BY <1>5 DEF Cells, Rectangle
  <2>3. DOMAIN g.dimensions = DOMAIN g.root_shape
    BY <1>1, <1>2, <2>1
  <2>4. ASSUME NEW i \in DOMAIN g.dimensions
        PROVE  e[i] \in Elements([first |-> 0, stride |-> 1, count |-> g.root_shape[i]])
    <3> DEFINE d == g.dimensions[i]
    <3> DEFINE extent == g.root_shape[i]
    <3>1. e[i] \in Nat /\ e[i] <= Last(d) /\ d.count # 0 /\ Last(d) \in Nat
      BY <1>1, <2>2, ElementsAreSizes
    <3>2. Last(d) < extent
      BY <2>1, <3>1
    <3>3. extent \in Nat
      BY <1>1, <2>3, Sizes
    <3>4. e[i] \in 0 .. extent - 1 /\ e[i] = 0 + e[i] * 1
      BY <3>1, <3>2, <3>3
    <3> HIDE DEF extent
    <3>5. QED
      BY <3>4 DEF Elements, extent
  <2>5. QED
    BY <1>3, <1>4, <2>2, <2>3, <2>4 DEF Rectangle, whole
<1>6. CASE g.kind # "rectangular"
  BY <1>4, <1>6 DEF Cells, Progression, whole
<1>7. QED
  BY <1>5, <1>6

(* A write that kills covers: whenever it is carried out it overwrites     *)
(* every cell that the earlier access can have touched.                    *)
LEMMA KillCovers ==
  ASSUME Bound, NEW s \in AllSites(program), NEW w \in AllSites(program),
         Killed(program, s, w), NEW c \in Spots(s)
  PROVE  /\ \A T \in Touches(program, w) : c \in T
         /\ c \in Spots(w)
<1> DEFINE a == Access(program, s)
<1> DEFINE d == Access(program, w)
<1>0. ~ s.unknown /\ ~ w.unknown
  BY DEF Killed
<1>1. /\ a.root \in Roots(program) /\ d.root \in Roots(program)
      /\ a.region \in Regions /\ d.region \in Regions
      /\ valid_storage_region(a.region) /\ valid_storage_region(d.region)
      /\ a.region.kind # "unknown" => a.region.root_shape = program.shape[a.root]
      /\ d.region.kind # "unknown" => d.region.root_shape = program.shape[d.root]
  BY <1>0, RegionFacts
<1>2. /\ c[1] = binding[a.root]
      /\ a.region.kind # "unknown" => c[2] \in Cells(a.region)
      /\ a.region.kind = "unknown" => c[2] \in Cells(full_storage_region(program.shape[a.root]))
      /\ c = <<c[1], c[2]>>
  BY <1>0, SpotFacts
<1>3. d.region.kind # "unknown" =>
        /\ Touches(program, w) = {{binding[d.root]} \X Cells(d.region)}
        /\ Spots(w) = {binding[d.root]} \X Cells(d.region)
  BY <1>0 DEF Touches, Spots
<1>4. CASE WritesEntireRoot(program, w) /\ d.root = a.root
  <2>1. d.region = full_storage_region(d.region.root_shape)
    BY <1>4 DEF WritesEntireRoot
  <2>2. d.region.kind # "unknown"
    <3>1. ASSUME d.region.kind = "unknown" PROVE FALSE
      <4>1. d.region = UnknownRegion
        BY <1>1, <3>1 DEF valid_storage_region
      <4>2. d.region.root_shape = <<>>
        BY <4>1 DEF UnknownRegion
      <4>3. full_storage_region(<<>>).kind = "rectangular"
        BY DEF full_storage_region
      <4>4. QED
        BY <2>1, <3>1, <4>2, <4>3
    <3>2. QED
      BY <3>1
  <2>3. d.region = full_storage_region(program.shape[a.root])
    BY <1>1, <1>4, <2>1, <2>2
  <2>4. c[2] \in Cells(d.region)
    <3>1. CASE a.region.kind = "unknown"
      BY <1>2, <2>3, <3>1
    <3>2. CASE a.region.kind # "unknown"
      <4>1. c[2] \in Cells(full_storage_region(a.region.root_shape))
        BY <1>1, <1>2, <3>2, CellsOfRoot
      <4>2. QED
        BY <1>1, <2>3, <3>2, <4>1
    <3>3. QED
      BY <3>1, <3>2
  <2>5. c[1] = binding[d.root]
    BY <1>2, <1>4
  <2> HIDE DEF a, d
  <2>6. QED
    BY <1>2, <1>3, <2>2, <2>4, <2>5
<1>5. CASE SiteRelation(program, s, w) = "must_alias"
  <2>1. alias_between(program, a, d) = "must_alias"
    BY <1>0, <1>5 DEF SiteRelation
  <2>2. a.root = d.root
    BY <2>1 DEF alias_between
  <2>3. storage_region_relation(a.region, d.region) = "identical"
    BY <2>1, <2>2 DEF alias_between
  <2>4. a.region = d.region /\ a.region.kind # "unknown"
    BY <1>1, <2>3, IdenticalRegions
  <2>5. c[2] \in Cells(d.region) /\ c[1] = binding[d.root] /\ d.region.kind # "unknown"
    BY <1>2, <2>2, <2>4
  <2> HIDE DEF a, d
  <2>6. QED
    BY <1>2, <1>3, <2>5
<1>6. QED
  BY <1>4, <1>5 DEF Killed

-----------------------------------------------------------------------------
(* What is kept of an execution: each record in which a dependence can     *)
(* start is stood for in the frontier at hand.                             *)

(* A walk of the execution along unmarked edges, ending in block b: every  *)
(* block it has seen has one to another that it has seen.                  *)
Chained(seen, b) ==
  /\ b \in seen
  /\ \A c \in seen : c = b \/ \E d \in seen : Search!Unmarked(c, d)

(* Access a of a frontier stands for record r in block b: it is the access *)
(* of the record, loop-carried if the record has gone around a cycle; or,  *)
(* where writes are uncertain, a later write of the cell that the table    *)
(* orders after it.                                                        *)
Stands(a, r, b) ==
  /\ a = [site |-> a.site, loop_carried |-> a.loop_carried]
  /\ \/ /\ a.site = r.site
        /\ r.cycled => a.loop_carried
        /\ a.loop_carried \/ Chained(r.seen, b)
     \/ /\ ~ CertainWrites(program)
        /\ a.site \in AllSites(program)
        /\ Writes(a.site.mode)
        /\ r.cell \in Spots(a.site)
        /\ a.site.instruction \in OrderedAfter(r.site.instruction)

(* A record, before instruction k of block b: a cell that its site touched,*)
(* and unless it has gone around a cycle the site is behind.               *)
Placed(r, b, k) ==
  /\ r = [cell |-> r.cell, site |-> r.site, role |-> r.role, seen |-> r.seen, cycled |-> r.cycled]
  /\ r.site \in AllSites(program)
  /\ r.cell \in Spots(r.site)
  /\ \/ r.role = "write" /\ Writes(r.site.mode)
     \/ r.role = "read" /\ Reads(r.site.mode)
  /\ r.cycled \in BOOLEAN
  /\ r.seen \in SUBSET Blocks
  /\ ~ r.cycled => /\ r.site.instruction[1] \in r.seen
                   /\ r.site.instruction[1] = b => r.site.instruction[2] < k

(* Every record that can be part of a dependence is stood for.             *)
Fine(r, b, k) ==
  /\ Placed(r, b, k)
  /\ Retained(program, r.site) =>
       \E a \in Frontiers(program, b, inputs[b])[k - 1] : Stands(a, r, b)

Tracked ==
  at # 0 =>
    /\ complete
    /\ Bound
    /\ at \in Blocks
    /\ ip \in 1 .. Len(Code) + 1
    /\ \A r \in live : Fine(r, at, ip)

(* The table is read off the frontiers.                                    *)
Table == complete => dependences = Canonical(Drafts)

-----------------------------------------------------------------------------

(* The frontiers inside a block, one after the other.                      *)
LEMMA FrontierSteps ==
  ASSUME program \in Programs, NEW b \in Blocks, NEW input
  PROVE  /\ Frontiers(program, b, input)[0] = input
         /\ \A n \in 1 .. Len(program.code[b]) :
              Frontiers(program, b, input)[n] = Update(program, b, n, Frontiers(program, b, input)[n - 1])
<1> DEFINE N == Len(program.code[b])
<1> DEFINE X == SUBSET (input \cup {[site |-> s, loop_carried |-> FALSE] : s \in AllSites(program)})
<1> DEFINE step == [z \in (1 .. N) \X X |-> Update(program, b, z[1], z[2])]
<1> DEFINE E(f) == [n \in 0 .. N |-> IF n = 0 THEN input ELSE Update(program, b, n, f[n - 1])]
<1>1. N \in Nat /\ b \in 1 .. program.count /\ DOMAIN program.code[b] = 1 .. N
  BY ProgramFacts DEF Blocks
<1>2. ASSUME NEW n \in 1 .. N, NEW F \in X PROVE Update(program, b, n, F) \in X
  <2>1. AccessSites(program, b, n) \subseteq AllSites(program)
    BY <1>1 DEF AllSites
  <2>2. QED
    BY <2>1 DEF Update
<1>3. step \in [(1 .. N) \X X -> X]
  BY <1>2
<1>4. input \in X
  OBVIOUS
<1>5. PICK h \in [0 .. N -> X] : Iterates(h, N, input, step)
  <2> HIDE DEF N, X, step
  <2>1. QED
    BY <1>1, <1>3, <1>4, Recursion
<1>6. ASSUME NEW n \in 0 .. N
      PROVE  h[n] = IF n = 0 THEN input ELSE Update(program, b, n, h[n - 1])
  <2>1. CASE n = 0
    BY <1>5, <2>1 DEF Iterates
  <2>2. CASE n # 0
    <3>1. n \in 1 .. N /\ n - 1 \in 0 .. N
      BY <1>1, <2>2
    <3>2. h[n] = step[<<n, h[n - 1]>>] /\ h[n - 1] \in X
      BY <1>5, <3>1 DEF Iterates
    <3>3. step[<<n, h[n - 1]>>] = Update(program, b, n, h[n - 1])
      BY <3>1, <3>2
    <3>4. QED
      BY <2>2, <3>2, <3>3
  <2>3. QED
    BY <2>1, <2>2
<1>7. h = E(h)
  <2>1. h = [n \in 0 .. N |-> h[n]]
    BY <1>5
  <2>2. QED
    BY <1>6, <2>1
<1> DEFINE G == Frontiers(program, b, input)
<1>8. G = E(G)
  <2>1. G = CHOOSE f : f = E(f)
    BY DEF Frontiers
  <2> HIDE DEF E, G
  <2>2. QED
    BY <1>7, <2>1
<1> HIDE DEF N, G
<1>9. \A n \in 0 .. N : G[n] = IF n = 0 THEN input ELSE Update(program, b, n, G[n - 1])
  BY <1>8, Zenon
<1>10. G[0] = input
  BY <1>1, <1>9
<1>11. \A n \in 1 .. N : G[n] = Update(program, b, n, G[n - 1])
  <2>1. ASSUME NEW n \in 1 .. N PROVE n \in 0 .. N /\ n # 0
    BY <1>1
  <2>2. QED
    BY <1>9, <2>1
<1>12. QED
  BY <1>10, <1>11 DEF N, G

-----------------------------------------------------------------------------

(* What update_frontier leaves, and what it adds.                          *)
LEMMA UpdateFacts ==
  ASSUME NEW p, NEW b, NEW k, NEW F
  PROVE  /\ \A a \in F : (\A w \in AccessSites(p, b, k) : ~ Killed(p, a.site, w)) => a \in Update(p, b, k, F)
         /\ \A s \in AccessSites(p, b, k) :
              Retained(p, s) => [site |-> s, loop_carried |-> FALSE] \in Update(p, b, k, F)
BY DEF Update

(* A pair of accesses that collect_instruction_dependences does not skip   *)
(* is in the table, marked if the earlier one is loop-carried.             *)
LEMMA InTable ==
  ASSUME complete, Table, NEW b \in Blocks, NEW k \in DOMAIN program.code[b],
         NEW a \in Frontiers(program, b, inputs[b])[k - 1],
         NEW t \in AccessSites(program, b, k), NEW kind \in Kinds(a.site, t),
         Paired(a, t), SiteRelation(program, a.site, t) # "no_alias"
  PROVE  \E d \in dependences : /\ d.source = a.site /\ d.target = t /\ d.kind = kind
                                /\ a.loop_carried => d.loop_carried
<1> DEFINE e == Dependence(a.site, t, kind, SiteRelation(program, a.site, t), a.loop_carried)
<1>1. e \in Collected(program, b, k, Frontiers(program, b, inputs[b])[k - 1])
  BY DEF Collected
<1>2. e \in Drafts
  BY <1>1 DEF Drafts
<1>3. e.source = a.site /\ e.target = t /\ e.kind = kind /\ e.loop_carried = a.loop_carried
  BY DEF Dependence
<1>4. /\ DOMAIN e = {"source", "target", "kind", "relation", "barrier", "loop_carried"}
  BY DEF Dependence
<1> HIDE DEF e
<1> DEFINE d == [e EXCEPT !.loop_carried = \E x \in Drafts : SameKey(e, x) /\ x.loop_carried]
<1>5. d \in dependences
  BY <1>2 DEF Table, Canonical
<1>6. d.source = e.source /\ d.target = e.target /\ d.kind = e.kind
  BY <1>4
<1>7. d.loop_carried = \E x \in Drafts : SameKey(e, x) /\ x.loop_carried
  BY <1>4
<1>8. a.loop_carried => d.loop_carried
  BY <1>2, <1>3, <1>7 DEF SameKey
<1>9. QED
  BY <1>3, <1>5, <1>6, <1>8

(* The ends of a dependence are access sites of the function.              *)
LEMMA TargetsAreSites ==
  ASSUME complete, Table, NEW d \in dependences
  PROVE  d.target \in AllSites(program)
<1>1. PICK e \in Drafts : d = [e EXCEPT !.loop_carried = \E x \in Drafts : SameKey(e, x) /\ x.loop_carried]
  BY DEF Table, Canonical
<1>2. PICK b \in Blocks : \E k \in DOMAIN program.code[b] :
        e \in Collected(program, b, k, Frontiers(program, b, inputs[b])[k - 1])
  BY DEF Drafts
<1>3. PICK k \in DOMAIN program.code[b] :
        e \in Collected(program, b, k, Frontiers(program, b, inputs[b])[k - 1])
  BY <1>2
<1>4. PICK t \in AccessSites(program, b, k), a \in Frontiers(program, b, inputs[b])[k - 1],
           kind \in {"flow", "anti", "output"} :
        e = Dependence(a.site, t, kind, SiteRelation(program, a.site, t), a.loop_carried)
  BY <1>3 DEF Collected, Kinds
<1>5. e.target = t /\ DOMAIN e = {"source", "target", "kind", "relation", "barrier", "loop_carried"}
  BY <1>4 DEF Dependence
<1>6. d.target = t
  BY <1>1, <1>5
<1>7. b \in 1 .. program.count
  BY DEF Blocks
<1>8. QED
  BY <1>6, <1>7 DEF AllSites

-----------------------------------------------------------------------------
(* The order of the table is transitive.                                   *)

Located == {s.instruction : s \in AllSites(program)}

(* A function has finitely many instructions with access sites.            *)
LEMMA LocatedFinite ==
  ASSUME program \in Programs
  PROVE  IsFiniteSet(Located) /\ Cardinality(Located) \in Nat
<1> DEFINE N == program.count
<1> DEFINE Of(b) == {b} \X (1 .. Len(program.code[b]))
<1> DEFINE Parts == {Of(b) : b \in 1 .. N}
<1>1. N \in Nat /\ \A b \in 1 .. N : Len(program.code[b]) \in Nat /\ DOMAIN program.code[b] = 1 .. Len(program.code[b])
  BY ProgramFacts
<1>2. \A b \in 1 .. N : IsFiniteSet(Of(b))
  <2>1. SUFFICES ASSUME NEW b \in 1 .. N PROVE IsFiniteSet(Of(b))
    OBVIOUS
  <2>2. IsFiniteSet({b})
    BY FS_Singleton
  <2>3. IsFiniteSet(1 .. Len(program.code[b]))
    <3> DEFINE m == Len(program.code[b])
    <3>1. m \in Int /\ 1 \in Int
      BY <1>1
    <3> HIDE DEF m
    <3>2. IsFiniteSet(1 .. m)
      BY <3>1, FS_Interval
    <3>3. QED
      BY <3>2 DEF m
  <2>4. QED
    BY <2>2, <2>3, FS_Product
<1>3. IsFiniteSet(Parts)
  <2> DEFINE f == [b \in 1 .. N |-> Of(b)]
  <2>1. IsFiniteSet(1 .. N)
    <3>1. N \in Int /\ 1 \in Int
      BY <1>1
    <3> HIDE DEF N
    <3>2. QED
      BY <3>1, FS_Interval
  <2> HIDE DEF N, Of
  <2>2. f \in Surjection(1 .. N, Parts)
    <3>1. f \in [1 .. N -> Parts]
      OBVIOUS
    <3>2. \A P \in Parts : \E b \in 1 .. N : f[b] = P
      OBVIOUS
    <3>3. QED
      BY <3>1, <3>2 DEF Surjection
  <2> HIDE DEF f, Parts
  <2>3. QED
    BY <2>1, <2>2, FS_Surjection
<1>4. IsFiniteSet(UNION Parts)
  <2>1. \A P \in Parts : IsFiniteSet(P)
    BY <1>2
  <2> HIDE DEF Parts
  <2>2. QED
    BY <1>3, <2>1, FS_UNION
<1>5. Located \in SUBSET (UNION Parts)
  <2>1. ASSUME NEW s \in AllSites(program) PROVE s.instruction \in UNION Parts
    <3>1. /\ s.instruction[1] \in 1 .. N /\ s.instruction[2] \in DOMAIN program.code[s.instruction[1]]
          /\ s.instruction = <<s.instruction[1], s.instruction[2]>>
      BY SitePlace
    <3>2. s.instruction \in Of(s.instruction[1])
      BY <1>1, <3>1
    <3>3. QED
      BY <3>1, <3>2
  <2>2. QED
    BY <2>1 DEF Located
<1> HIDE DEF Parts
<1>6. QED
  BY <1>4, <1>5, FS_Subset, FS_CardinalityType

First(i) == {d.target.instruction : d \in {e \in dependences : e.source.instruction = i}}

Onwards(I) == \A d \in dependences : d.source.instruction \in I => d.target.instruction \in I

(* The rounds of OrderedAfter: the instructions ordered after i by chains  *)
(* of dependences of a growing length.                                     *)
LEMMA OrderedRounds ==
  ASSUME complete, Table, program \in Programs, NEW i
  PROVE  \E h \in [0 .. Cardinality(Located) -> SUBSET Located] :
           /\ h[0] = First(i)
           /\ \A k \in 1 .. Cardinality(Located) : h[k] = Follows(h[k - 1])
           /\ OrderedAfter(i) = h[Cardinality(Located)]
<1> DEFINE N == Cardinality(Located)
<1> DEFINE X == SUBSET Located
<1> DEFINE step == [z \in (1 .. N) \X X |-> Follows(z[2])]
<1> DEFINE E(f) == [k \in 0 .. N |-> IF k = 0 THEN First(i) ELSE Follows(f[k - 1])]
<1>1. N \in Nat
  BY LocatedFinite
<1>2. \A d \in dependences : d.target.instruction \in Located
  BY TargetsAreSites DEF Located
<1>3. First(i) \in X
  BY <1>2 DEF First
<1>4. step \in [(1 .. N) \X X -> X]
  BY <1>2 DEF Follows
<1>5. PICK h \in [0 .. N -> X] : Iterates(h, N, First(i), step)
  <2> HIDE DEF N, X, step
  <2>1. QED
    BY <1>1, <1>3, <1>4, Recursion
<1>6. ASSUME NEW k \in 1 .. N PROVE h[k] = Follows(h[k - 1])
  <2>1. k - 1 \in 0 .. N
    BY <1>1
  <2>2. h[k] = step[<<k, h[k - 1]>>] /\ h[k - 1] \in X
    BY <1>5, <2>1 DEF Iterates
  <2>3. QED
    BY <2>2
<1>7. h[0] = First(i)
  BY <1>5 DEF Iterates
<1>8. \A k \in 0 .. N : h[k] = IF k = 0 THEN First(i) ELSE Follows(h[k - 1])
  <2>1. ASSUME NEW k \in 0 .. N, k # 0 PROVE k \in 1 .. N
    BY <1>1, <2>1
  <2>2. QED
    BY <1>6, <1>7, <2>1
<1>9. h = E(h)
  <2>1. h = [k \in 0 .. N |-> h[k]]
    BY <1>5
  <2>2. QED
    BY <1>8, <2>1
<1> DEFINE reach == CHOOSE f : f = E(f)
<1>10. reach = E(reach)
  <2> HIDE DEF E
  <2>1. QED
    BY <1>9
<1>11. OrderedAfter(i) = reach[N]
  BY DEF OrderedAfter, Located, First
<1> HIDE DEF reach, N
<1>12. \A k \in 0 .. N : reach[k] = IF k = 0 THEN First(i) ELSE Follows(reach[k - 1])
  BY <1>10, Zenon
<1> DEFINE S == {k \in 0 .. N : reach[k] = h[k]}
<1>13. 0 \in S
  BY <1>1, <1>7, <1>12
<1>14. ASSUME NEW k \in 1 .. N, k - 1 \in S PROVE k \in S
  <2>1. k \in 0 .. N /\ k # 0
    BY <1>1
  <2>2. QED
    BY <1>6, <1>12, <1>14, <2>1
<1>15. \A k \in 0 .. N : k \in S
  <2> HIDE DEF S
  <2> QED
    BY <1>1, <1>13, <1>14, Induction
<1>16. reach[N] = h[N]
  BY <1>1, <1>15
<1>17. QED
  BY <1>5, <1>6, <1>7, <1>11, <1>16 DEF N

(* The rounds stop growing: what is ordered after i is closed.             *)
LEMMA OrderedClosed ==
  ASSUME complete, Table, program \in Programs, NEW i
  PROVE  First(i) \subseteq OrderedAfter(i) /\ Onwards(OrderedAfter(i))
<1> DEFINE N == Cardinality(Located)
<1>1. PICK h \in [0 .. N -> SUBSET Located] :
           /\ h[0] = First(i)
           /\ \A k \in 1 .. N : h[k] = Follows(h[k - 1])
           /\ OrderedAfter(i) = h[N]
  BY OrderedRounds
<1>2. N \in Nat /\ IsFiniteSet(Located)
  BY LocatedFinite
<1>3. \A I \in SUBSET Located : IsFiniteSet(I) /\ Cardinality(I) \in Nat /\ Cardinality(I) <= N
  BY <1>2, FS_Subset, FS_CardinalityType
<1> HIDE DEF N
<1> DEFINE Grown(k) == First(i) \subseteq h[k] /\ (Onwards(h[k]) \/ Cardinality(h[k]) > k)
<1> DEFINE S == {k \in 0 .. N : Grown(k)}
<1>4. 0 \in S
  <2>1. 0 \in 0 .. N /\ h[0] \in SUBSET Located
    BY <1>1, <1>2
  <2>2. CASE h[0] = {}
    BY <1>1, <2>1, <2>2 DEF Onwards
  <2>3. CASE h[0] # {}
    <3>1. Cardinality(h[0]) # 0 /\ Cardinality(h[0]) \in Nat
      BY <1>3, <2>1, <2>3, FS_EmptySet
    <3>2. Cardinality(h[0]) > 0
      BY <3>1
    <3>3. QED
      BY <1>1, <2>1, <3>2
  <2>4. QED
    BY <2>2, <2>3
<1>5. ASSUME NEW k \in 1 .. N, k - 1 \in S PROVE k \in S
  <2> DEFINE P == h[k - 1]
  <2>1. k - 1 \in 0 .. N /\ k \in 0 .. N /\ h[k] = Follows(P)
    BY <1>1, <1>2
  <2>2. P \in SUBSET Located /\ h[k] \in SUBSET Located /\ Grown(k - 1)
    BY <1>1, <1>5, <2>1
  <2>3. P \subseteq h[k] /\ First(i) \subseteq h[k]
    BY <2>1, <2>2 DEF Follows
  <2>4. CASE Onwards(P)
    <3>1. h[k] = P
      BY <2>1, <2>4 DEF Follows, Onwards
    <3>2. QED
      BY <2>1, <2>3, <2>4, <3>1
  <2>5. CASE ~ Onwards(P)
    <3>1. h[k] # P
      BY <2>1, <2>5 DEF Follows, Onwards
    <3>2. IsFiniteSet(h[k]) /\ P \in SUBSET h[k]
      BY <1>3, <2>2, <2>3
    <3>3. Cardinality(P) <= Cardinality(h[k]) /\ (Cardinality(h[k]) = Cardinality(P) => h[k] = P)
      BY <3>2, FS_Subset
    <3>4. Cardinality(P) \in Nat /\ Cardinality(h[k]) \in Nat /\ Cardinality(P) > k - 1
      BY <1>3, <2>2, <2>5
    <3>5. Cardinality(h[k]) > k
      BY <1>2, <3>1, <3>3, <3>4
    <3>6. QED
      BY <2>1, <2>3, <3>5
  <2>6. QED
    BY <2>4, <2>5
<1>6. \A k \in 0 .. N : k \in S
  <2> HIDE DEF S
  <2> QED
    BY <1>2, <1>4, <1>5, Induction
<1>7. Grown(N) /\ h[N] \in SUBSET Located
  BY <1>1, <1>2, <1>6
<1>8. ~ (Cardinality(h[N]) > N)
  BY <1>2, <1>3, <1>7
<1>9. QED
  BY <1>1, <1>7, <1>8

(* A dependence orders its target after its source, and after all that its *)
(* source is ordered after.                                                *)
LEMMA OrderedFacts ==
  ASSUME complete, Table, program \in Programs, NEW d \in dependences
  PROVE  /\ d.target.instruction \in OrderedAfter(d.source.instruction)
         /\ \A i : d.source.instruction \in OrderedAfter(i) => d.target.instruction \in OrderedAfter(i)
<1>1. d.target.instruction \in First(d.source.instruction)
  BY DEF First
<1>2. First(d.source.instruction) \subseteq OrderedAfter(d.source.instruction)
  BY OrderedClosed
<1>3. ASSUME NEW i, d.source.instruction \in OrderedAfter(i)
      PROVE  d.target.instruction \in OrderedAfter(i)
  BY <1>3, OrderedClosed DEF Onwards
<1>4. QED
  BY <1>1, <1>2, <1>3

-----------------------------------------------------------------------------
(* Records go through the instructions of a block.                         *)

Acyclic ==
  complete => \A S \in SUBSET Blocks :
                S # {} => \E b \in S : \A c \in S : ~ Search!Unmarked(b, c)

Settings == complete /\ Table /\ FixedPoint /\ Acyclic /\ Bound

Covered(r, b, k) ==
  \E w \in AccessSites(program, b, k) :
    ~ w.unknown /\ Writes(w.mode) /\ \A T \in Touches(program, w) : r.cell \in T

(* The instructions of a block and their sites.                            *)
LEMMA BlockFacts ==
  ASSUME Settings, NEW b \in Blocks
  PROVE  /\ program \in Programs /\ b \in 1 .. program.count
         /\ Len(program.code[b]) \in Nat /\ DOMAIN program.code[b] = 1 .. Len(program.code[b])
         /\ \A k \in DOMAIN program.code[b] : \A s \in AccessSites(program, b, k) :
              s \in AllSites(program) /\ s.instruction = <<b, k>>
              /\ s.instruction[1] = b /\ s.instruction[2] = k /\ s.mode \in Modes
<1>1. program \in Programs /\ b \in 1 .. program.count
  BY BoundFacts DEF Settings, Blocks
<1>2. Len(program.code[b]) \in Nat /\ DOMAIN program.code[b] = 1 .. Len(program.code[b])
  BY <1>1, ProgramFacts
<1>3. \A k \in DOMAIN program.code[b] : \A s \in AccessSites(program, b, k) :
        s \in AllSites(program) /\ s.instruction = <<b, k>>
        /\ s.instruction[1] = b /\ s.instruction[2] = k /\ s.mode \in Modes
  BY <1>1, SiteFacts
<1>4. QED
  BY <1>1, <1>2, <1>3

(* The kinds of dependence between two accesses, at least one of them a    *)
(* write.                                                                  *)
LEMMA ModeKinds ==
  ASSUME NEW s, s.mode \in Modes, NEW t
  PROVE  /\ Writes(t.mode) /\ Reads(s.mode) => "anti" \in Kinds(s, t)
         /\ Writes(t.mode) /\ Writes(s.mode) => "output" \in Kinds(s, t)
         /\ Reads(t.mode) /\ Writes(s.mode) => "flow" \in Kinds(s, t)
         /\ Reads(s.mode) \/ Writes(s.mode)
BY DEF Kinds, Modes, Reads, Writes

(* The access that stands for a record comes to an instruction that may    *)
(* touch the cell of the record: the table has the dependence.             *)
LEMMA Reported ==
  ASSUME Settings, NEW b \in Blocks, NEW k \in DOMAIN program.code[b], NEW r, Placed(r, b, k),
         NEW a \in Frontiers(program, b, inputs[b])[k - 1],
         a.site = r.site, r.cycled => a.loop_carried,
         NEW t \in AccessSites(program, b, k), r.cell \in Spots(t),
         NEW kind \in Kinds(r.site, t)
  PROVE  \E d \in dependences : /\ d.source = r.site /\ d.target = t /\ d.kind = kind
                                /\ r.cycled => d.loop_carried
<1>1. /\ program \in Programs /\ t \in AllSites(program) /\ t.instruction = <<b, k>>
  BY BlockFacts
<1>2. r.site \in AllSites(program) /\ r.cell \in Spots(r.site)
  BY DEF Placed
<1>3. SiteRelation(program, a.site, t) # "no_alias"
  BY <1>1, <1>2, CommonSpot DEF Settings
<1>4. Paired(a, t)
  <2>1. ASSUME r.site.instruction = <<b, k>>, ~ r.cycled PROVE FALSE
    <3>1. r.site.instruction[1] = b /\ r.site.instruction[2] = k
      BY <2>1
    <3>2. k < k
      BY <2>1, <3>1 DEF Placed
    <3>3. k \in Nat
      BY BlockFacts
    <3>4. QED
      BY <3>2, <3>3
  <2>2. r.cycled \in BOOLEAN
    BY DEF Placed
  <2>3. QED
    BY <1>1, <2>1, <2>2 DEF Paired
<1>5. kind \in Kinds(a.site, t)
  OBVIOUS
<1>6. complete /\ Table
  BY DEF Settings
<1>7. PICK d \in dependences : /\ d.source = a.site /\ d.target = t /\ d.kind = kind
                               /\ a.loop_carried => d.loop_carried
  BY <1>3, <1>4, <1>5, <1>6, InTable
<1>8. QED
  BY <1>7

(* A later write stands for a record and comes to an instruction that may  *)
(* touch the cell: the table orders the two.                               *)
LEMMA OrderedOn ==
  ASSUME Settings, NEW b \in Blocks, NEW k \in DOMAIN program.code[b], NEW r,
         NEW a \in Frontiers(program, b, inputs[b])[k - 1],
         a.site \in AllSites(program), Writes(a.site.mode), r.cell \in Spots(a.site),
         a.site.instruction \in OrderedAfter(r.site.instruction),
         NEW t \in AccessSites(program, b, k), r.cell \in Spots(t)
  PROVE  t.instruction \in OrderedAfter(r.site.instruction)
<1>1. /\ program \in Programs /\ t \in AllSites(program) /\ t.mode \in Modes
  BY BlockFacts
<1>2. SiteRelation(program, a.site, t) # "no_alias"
  BY <1>1, CommonSpot DEF Settings
<1>3. CASE a.site.instruction = t.instruction
  BY <1>3
<1>4. CASE a.site.instruction # t.instruction
  <2>1. Paired(a, t)
    BY <1>4 DEF Paired
  <2>2. PICK kind : kind \in Kinds(a.site, t)
    BY <1>1 DEF Kinds, Modes, Reads, Writes
  <2>3. complete /\ Table
    BY DEF Settings
  <2>4. PICK d \in dependences : d.source = a.site /\ d.target = t
    BY <1>2, <2>1, <2>2, <2>3, InTable
  <2>5. QED
    BY <1>1, <2>3, <2>4, OrderedFacts
<1>5. QED
  BY <1>3, <1>4

(* Over an instruction: the access goes on to stand for the record, or the *)
(* write that kills it does; where all writes are certain the write has    *)
(* overwritten the cell.                                                   *)
LEMMA StandsOn ==
  ASSUME Settings, NEW b \in Blocks, NEW k \in DOMAIN program.code[b], NEW r, Placed(r, b, k),
         NEW a \in Frontiers(program, b, inputs[b])[k - 1], Stands(a, r, b)
  PROVE  \/ \E e \in Frontiers(program, b, inputs[b])[k] : Stands(e, r, b)
         \/ CertainWrites(program) /\ Covered(r, b, k)
<1> DEFINE F == Frontiers(program, b, inputs[b])
<1>1. program \in Programs /\ DOMAIN program.code[b] = 1 .. Len(program.code[b])
  BY BlockFacts
<1>2. F[k] = Update(program, b, k, F[k - 1])
  BY <1>1, FrontierSteps
<1> HIDE DEF F
<1>3. CASE \A w \in AccessSites(program, b, k) : ~ Killed(program, a.site, w)
  <2>1. a \in F[k]
    BY <1>2, <1>3, UpdateFacts DEF F
  <2>2. QED
    BY <2>1 DEF F
<1>4. CASE \E w \in AccessSites(program, b, k) : Killed(program, a.site, w)
  <2>1. PICK w \in AccessSites(program, b, k) : Killed(program, a.site, w)
    BY <1>4
  <2>2. w \in AllSites(program) /\ w.instruction = <<b, k>> /\ ~ w.unknown /\ Writes(w.mode)
    BY <2>1, BlockFacts DEF Killed
  <2>3. a.site \in AllSites(program) /\ r.cell \in Spots(a.site)
    BY DEF Stands, Placed
  <2>4. /\ \A T \in Touches(program, w) : r.cell \in T
        /\ r.cell \in Spots(w)
    BY <2>1, <2>2, <2>3, KillCovers DEF Settings
  <2>5. CASE CertainWrites(program)
    BY <2>2, <2>4, <2>5 DEF Covered
  <2>6. CASE ~ CertainWrites(program)
    <3> DEFINE e == [site |-> w, loop_carried |-> FALSE]
    <3>1. e \in F[k]
      BY <1>2, <2>2, UpdateFacts DEF Retained
    <3>2. w.instruction \in OrderedAfter(r.site.instruction)
      <4>1. CASE a.site = r.site /\ (r.cycled => a.loop_carried)
        <5>1. r.site \in AllSites(program)
          BY <2>3, <4>1
        <5>2. r.site.mode \in Modes
          BY <1>1, <5>1, SitePlace
        <5>3. PICK kind : kind \in Kinds(r.site, w)
          BY <2>2, <5>2, ModeKinds
        <5>4. PICK d \in dependences : d.source = r.site /\ d.target = w
          BY <2>4, <4>1, <5>3, Reported
        <5>5. QED
          BY <1>1, <5>4, OrderedFacts DEF Settings
      <4>2. CASE Writes(a.site.mode) /\ a.site.instruction \in OrderedAfter(r.site.instruction)
        BY <2>3, <2>4, <4>2, OrderedOn
      <4>3. QED
        BY <4>1, <4>2 DEF Stands
    <3>3. e.site = w /\ e = [site |-> e.site, loop_carried |-> e.loop_carried]
      OBVIOUS
    <3> HIDE DEF e
    <3>4. Stands(e, r, b)
      BY <2>2, <2>4, <2>6, <3>2, <3>3 DEF Stands
    <3>5. QED
      BY <3>1, <3>4 DEF F
  <2>7. QED
    BY <2>5, <2>6
<1>5. QED
  BY <1>3, <1>4

(* A record that is placed before an instruction is placed after it.       *)
LEMMA PlacedOn ==
  ASSUME Settings, NEW b \in Blocks, NEW k \in DOMAIN program.code[b], NEW r, Placed(r, b, k)
  PROVE  Placed(r, b, k + 1)
<1>1. k \in Nat /\ program \in Programs
  BY BlockFacts
<1>2. ASSUME r.site.instruction[1] = b, ~ r.cycled PROVE r.site.instruction[2] < k + 1
  <2>1. r.site.instruction[2] < k /\ r.site \in AllSites(program)
    BY <1>2 DEF Placed
  <2>2. r.site.instruction[2] \in Nat
    <3>1. r.site.instruction[2] \in DOMAIN program.code[b]
      BY <1>1, <1>2, <2>1, SitePlace
    <3>2. QED
      BY <3>1, BlockFacts
  <2>3. QED
    BY <1>1, <2>1, <2>2
<1>3. QED
  BY <1>2 DEF Placed

(* A record goes through an instruction that does not overwrite its cell.  *)
LEMMA FineOn ==
  ASSUME Settings, NEW b \in Blocks, NEW k \in DOMAIN program.code[b], NEW r, Fine(r, b, k),
         ~ (CertainWrites(program) /\ Covered(r, b, k))
  PROVE  Fine(r, b, k + 1)
<1>1. Placed(r, b, k) /\ Placed(r, b, k + 1)
  BY PlacedOn DEF Fine
<1>2. (k + 1) - 1 = k
  BY BlockFacts
<1>3. ASSUME Retained(program, r.site)
      PROVE  \E e \in Frontiers(program, b, inputs[b])[k] : Stands(e, r, b)
  <2>1. PICK a \in Frontiers(program, b, inputs[b])[k - 1] : Stands(a, r, b)
    BY <1>3 DEF Fine
  <2>2. QED
    BY <1>1, <2>1, StandsOn
<1>4. QED
  BY <1>1, <1>2, <1>3 DEF Fine

(* A block with a handler has no certain write.                            *)
LEMMA HandledCovers ==
  ASSUME Settings, NEW b \in Blocks, NEW k \in DOMAIN program.code[b], NEW r,
         CertainWrites(program), program.handler[b] # 0
  PROVE  ~ Covered(r, b, k)
<1> SUFFICES ASSUME NEW w \in AccessSites(program, b, k), ~ w.unknown, Writes(w.mode) PROVE FALSE
  BY DEF Covered
<1>1. program \in Programs /\ b \in 1 .. program.count
  BY BlockFacts
<1>2. PICK n \in DOMAIN program.code[b][k].accesses : w.mode = program.code[b][k].accesses[n].mode
  BY <1>1, SiteFacts
<1>3. b \in DOMAIN program.code
  BY <1>1, ProgramFacts
<1>4. QED
  BY <1>2, <1>3 DEF CertainWrites

(* A record goes through the rest of a block when nothing is carried out   *)
(* any more.                                                               *)
LEMMA FineThrough ==
  ASSUME Settings, NEW b \in Blocks, NEW k \in 1 .. Len(program.code[b]) + 1, NEW r, Fine(r, b, k),
         ~ CertainWrites(program) \/ program.handler[b] # 0
  PROVE  Fine(r, b, Len(program.code[b]) + 1)
<1> DEFINE N == Len(program.code[b])
<1> DEFINE n == N + 1 - k
<1> DEFINE S == {j \in 0 .. n : Fine(r, b, k + j)}
<1>1. N \in Nat /\ DOMAIN program.code[b] = 1 .. N
  BY BlockFacts
<1>2. n \in Nat /\ k \in Nat /\ k + n = N + 1 /\ k + 0 = k
  BY <1>1
<1>3. 0 \in S
  BY <1>2
<1>4. ASSUME NEW j \in 1 .. n, j - 1 \in S PROVE j \in S
  <2>1. k + (j - 1) \in DOMAIN program.code[b] /\ (k + (j - 1)) + 1 = k + j
    BY <1>1, <1>2
  <2>2. Fine(r, b, k + (j - 1))
    BY <1>4
  <2>3. ~ (CertainWrites(program) /\ Covered(r, b, k + (j - 1)))
    BY <2>1, HandledCovers
  <2> DEFINE m == k + (j - 1)
  <2> HIDE DEF m
  <2>4. m \in DOMAIN program.code[b] /\ m + 1 = k + j /\ Fine(r, b, m)
        /\ ~ (CertainWrites(program) /\ Covered(r, b, m))
    BY <2>1, <2>2, <2>3 DEF m
  <2>5. Fine(r, b, m + 1)
    BY <2>4, FineOn
  <2>6. QED
    BY <1>2, <2>4, <2>5
<1> HIDE DEF n, S, N
<1>5. \A j \in 0 .. n : j \in S
  BY <1>2, <1>3, <1>4, Induction
<1>6. n \in S
  BY <1>2, <1>5
<1>7. Fine(r, b, k + n)
  BY <1>6 DEF S
<1>8. QED
  BY <1>2, <1>7 DEF N

-----------------------------------------------------------------------------
(* Records cross the edges of the graph.                                   *)

(* A record crosses an edge of the graph: what stands for it crosses it    *)
(* too, and is marked when the record has gone around a cycle, because no  *)
(* cycle is without a marked edge.                                         *)
LEMMA FineInto ==
  ASSUME Settings, NEW b \in Blocks, NEW c \in GraphEdges(program, b), NEW r,
         Fine(r, b, Len(program.code[b]) + 1)
  PROVE  c \in Blocks /\ Fine(Carried(r, c), c, 1)
<1> DEFINE N == Len(program.code[b])
<1> DEFINE q == Carried(r, c)
<1>1. program \in Programs /\ b \in 1 .. program.count /\ N \in Nat /\ (N + 1) - 1 = N
  BY BlockFacts
<1>2. PICK k \in DOMAIN program.successors[b] : program.successors[b][k] = c
  <2>1. {program.successors[b][k] : k \in DOMAIN program.successors[b]} = GraphEdges(program, b)
    BY <1>1, ProgramFacts
  <2>2. QED
    BY <2>1
<1>3. c \in Blocks
  BY <1>1, <1>2, GraphFacts
<1> DEFINE marked == <<b, k>> \in loop_edges
<1>4. outputs[b] = Frontiers(program, b, inputs[b])[N]
      /\ Marked(outputs[b], marked) \subseteq inputs[c]
      /\ inputs[c] = Frontiers(program, c, inputs[c])[0]
  <2>1. Consistent(b) /\ HandedOn(b)
    BY DEF Settings, FixedPoint
  <2>2. inputs[c] = Frontiers(program, c, inputs[c])[0]
    BY <1>1, <1>3, FrontierSteps
  <2>3. Marked(outputs[b], marked) \subseteq inputs[c]
    BY <1>2, <2>1 DEF HandedOn
  <2>4. outputs[b] = Frontiers(program, b, inputs[b])[N]
    BY <2>1 DEF Consistent, TransferBlock
  <2>5. QED
    BY <2>2, <2>3, <2>4
<1> DEFINE around == r.cycled \/ c \in r.seen
<1>5. Placed(r, b, N + 1)
  BY DEF Fine
<1>6. r = [cell |-> r.cell, site |-> r.site, role |-> r.role, seen |-> r.seen, cycled |-> r.cycled]
  BY <1>5 DEF Placed
<1>7. /\ q.cell = r.cell /\ q.site = r.site /\ q.role = r.role
      /\ q.cycled \in BOOLEAN
      /\ around => q.cycled = TRUE /\ q.seen = {}
      /\ ~ around => q.cycled = r.cycled /\ q.seen = r.seen \cup {c}
      /\ q = [cell |-> q.cell, site |-> q.site, role |-> q.role, seen |-> q.seen, cycled |-> q.cycled]
  <2>1. CASE around
    <3>1. q = [r EXCEPT !.cycled = TRUE, !.seen = {}]
      BY <2>1 DEF Carried
    <3>2. q = [cell |-> r.cell, site |-> r.site, role |-> r.role, seen |-> {}, cycled |-> TRUE]
      BY <1>6, <3>1
    <3> HIDE DEF q
    <3>3. q.cell = r.cell /\ q.site = r.site /\ q.role = r.role /\ q.cycled = TRUE /\ q.seen = {}
      BY <3>2
    <3>4. q.cycled \in BOOLEAN
      BY <3>3, Zenon
    <3>5. QED
      BY <2>1, <3>2, <3>3, <3>4
  <2>2. CASE ~ around
    <3>1. q = [r EXCEPT !.seen = r.seen \cup {c}]
      BY <2>2 DEF Carried
    <3>2. q = [cell |-> r.cell, site |-> r.site, role |-> r.role, seen |-> r.seen \cup {c}, cycled |-> r.cycled]
      BY <1>6, <3>1
    <3> HIDE DEF q
    <3>3. q.cell = r.cell /\ q.site = r.site /\ q.role = r.role /\ q.cycled = r.cycled /\ q.seen = r.seen \cup {c}
      BY <3>2
    <3>4. q.cycled \in BOOLEAN
      BY <1>5, <3>3 DEF Placed
    <3>5. QED
      BY <2>2, <3>2, <3>3, <3>4
  <2>3. QED
    BY <2>1, <2>2
<1> HIDE DEF q
<1>8. Placed(q, c, 1)
  <2>1. /\ q.site \in AllSites(program) /\ q.cell \in Spots(q.site)
        /\ \/ q.role = "write" /\ Writes(q.site.mode)
           \/ q.role = "read" /\ Reads(q.site.mode)
    BY <1>5, <1>7 DEF Placed
  <2>2. q.seen \in SUBSET Blocks
    BY <1>3, <1>5, <1>7 DEF Placed
  <2>3. ASSUME ~ q.cycled
        PROVE  q.site.instruction[1] \in q.seen /\ q.site.instruction[1] # c
    <3>1. ~ around /\ ~ r.cycled
      BY <1>7, <2>3
    <3>2. r.site.instruction[1] \in r.seen
      BY <1>5, <3>1 DEF Placed
    <3>3. QED
      BY <1>7, <3>1, <3>2
  <2>4. QED
    BY <1>7, <2>1, <2>2, <2>3 DEF Placed
<1>9. ASSUME Retained(program, q.site)
      PROVE  \E e \in Frontiers(program, c, inputs[c])[0] : Stands(e, q, c)
  <2>1. PICK a \in Frontiers(program, b, inputs[b])[N] : Stands(a, r, b)
    BY <1>1, <1>7, <1>9 DEF Fine
  <2> DEFINE e == [a EXCEPT !.loop_carried = a.loop_carried \/ marked]
  <2>2. e \in Frontiers(program, c, inputs[c])[0]
    BY <1>4, <2>1 DEF Marked
  <2>3. a = [site |-> a.site, loop_carried |-> a.loop_carried]
    BY <2>1 DEF Stands
  <2>4. e = [site |-> a.site, loop_carried |-> a.loop_carried \/ marked]
    BY <2>3
  <2> HIDE DEF e, marked
  <2>5. e.site = a.site /\ e.loop_carried = (a.loop_carried \/ marked)
        /\ e = [site |-> e.site, loop_carried |-> e.loop_carried]
    BY <2>4
  <2>6. CASE a.site = r.site /\ (r.cycled => a.loop_carried) /\ (a.loop_carried \/ Chained(r.seen, b))
    <3>1. ASSUME ~ e.loop_carried
          PROVE  /\ ~ a.loop_carried /\ ~ marked /\ ~ r.cycled
                 /\ Chained(r.seen, b) /\ Search!Unmarked(b, c)
      <4>1. ~ a.loop_carried /\ ~ marked
        BY <2>5, <3>1
      <4>2. Search!Unmarked(b, c)
        BY <1>2, <4>1 DEF Search!Unmarked, marked
      <4>3. QED
        BY <2>6, <4>1, <4>2
    <3>2. ASSUME ~ e.loop_carried PROVE c \notin r.seen
      <4>1. SUFFICES ASSUME c \in r.seen PROVE FALSE
        OBVIOUS
      <4>2. r.seen \in SUBSET Blocks /\ r.seen # {}
        BY <1>5, <4>1 DEF Placed
      <4>3. PICK x \in r.seen : \A y \in r.seen : ~ Search!Unmarked(x, y)
        BY <4>2 DEF Settings, Acyclic
      <4>4. x # b
        BY <3>1, <3>2, <4>1, <4>3
      <4>5. QED
        BY <3>1, <3>2, <4>3, <4>4 DEF Chained
    <3>3. q.cycled => e.loop_carried
      <4>1. SUFFICES ASSUME ~ e.loop_carried PROVE ~ q.cycled
        OBVIOUS
      <4>2. ~ around
        BY <3>1, <3>2, <4>1
      <4>3. QED
        BY <1>7, <4>2
    <3>4. e.loop_carried \/ Chained(q.seen, c)
      <4>1. SUFFICES ASSUME ~ e.loop_carried PROVE Chained(q.seen, c)
        OBVIOUS
      <4>2. ~ around /\ Chained(r.seen, b) /\ Search!Unmarked(b, c)
        BY <3>1, <3>2, <4>1
      <4>3. q.seen = r.seen \cup {c}
        BY <1>7, <4>2
      <4>4. QED
        BY <4>2, <4>3 DEF Chained
    <3>5. e.site = q.site
      BY <1>7, <2>5, <2>6
    <3>6. Stands(e, q, c)
      BY <2>5, <3>3, <3>4, <3>5 DEF Stands
    <3>7. QED
      BY <2>2, <3>6
  <2>7. CASE /\ ~ CertainWrites(program) /\ a.site \in AllSites(program) /\ Writes(a.site.mode)
             /\ r.cell \in Spots(a.site)
             /\ a.site.instruction \in OrderedAfter(r.site.instruction)
    <3>1. Stands(e, q, c)
      BY <1>7, <2>5, <2>7 DEF Stands
    <3>2. QED
      BY <2>2, <3>1
  <2>8. QED
    BY <2>1, <2>6, <2>7 DEF Stands
<1>10. QED
  BY <1>3, <1>8, <1>9 DEF Fine, q

-----------------------------------------------------------------------------
(* The steps of an execution.                                              *)

(* A record of an evaluation is stood for by the site itself.              *)
LEMMA FineNew ==
  ASSUME Settings, at \in Blocks, ip \in DOMAIN Code, NEW f \in Evaluations(program, at, ip),
         NEW s \in DOMAIN f, NEW c \in f[s], NEW role,
         \/ role = "write" /\ Writes(s.mode)
         \/ role = "read" /\ Reads(s.mode)
  PROVE  Fine(Record(f, role, s, c), at, ip + 1)
<1> DEFINE r == Record(f, role, s, c)
<1>1. /\ r.cell = c /\ r.site = s /\ r.role = role /\ r.seen = {at} /\ r.cycled = FALSE
      /\ r = [cell |-> r.cell, site |-> r.site, role |-> r.role, seen |-> r.seen, cycled |-> r.cycled]
  BY DEF Record
<1> HIDE DEF r
<1>2. DOMAIN f = AccessSites(program, at, ip) /\ f[s] \in Touches(program, s)
  BY DEF Evaluations
<1>3. /\ program \in Programs /\ ip \in 1 .. Len(program.code[at]) /\ ip \in Nat
      /\ s \in AllSites(program) /\ s.instruction[1] = at /\ s.instruction[2] = ip
  BY <1>2, BlockFacts DEF Code
<1>4. c \in Spots(s)
  BY <1>2 DEF Spots
<1>5. Placed(r, at, ip + 1)
  <2>1. r.cycled \in BOOLEAN /\ ~ r.cycled
    BY <1>1, Zenon
  <2>2. r.seen \in SUBSET Blocks /\ r.site.instruction[1] \in r.seen /\ r.site.instruction[2] < ip + 1
    BY <1>1, <1>3
  <2>3. QED
    BY <1>1, <1>3, <1>4, <2>1, <2>2 DEF Placed
<1>6. (ip + 1) - 1 = ip
  BY <1>3
<1>7. ASSUME Retained(program, r.site)
      PROVE  \E a \in Frontiers(program, at, inputs[at])[ip] : Stands(a, r, at)
  <2> DEFINE a == [site |-> s, loop_carried |-> FALSE]
  <2> DEFINE F == Frontiers(program, at, inputs[at])
  <2>1. F[ip] = Update(program, at, ip, F[ip - 1])
    BY <1>3, FrontierSteps
  <2> HIDE DEF F
  <2>2. a \in F[ip]
    BY <1>1, <1>2, <1>7, <2>1, UpdateFacts
  <2>3. a.site = s /\ a = [site |-> a.site, loop_carried |-> a.loop_carried]
    OBVIOUS
  <2> HIDE DEF a
  <2>4. Chained(r.seen, at)
    BY <1>1 DEF Chained
  <2>5. Stands(a, r, at)
    BY <1>1, <2>3, <2>4 DEF Stands
  <2>6. QED
    BY <2>2, <2>5 DEF F
<1>8. QED
  BY <1>5, <1>6, <1>7 DEF Fine, r

(* The records after an evaluation: all of them when its writes are        *)
(* carried out, and also when they are not but were uncertain.             *)
LEMMA FineAfter ==
  ASSUME Settings, at \in Blocks, ip \in DOMAIN Code, NEW f \in Evaluations(program, at, ip),
         \A r \in live : Fine(r, at, ip)
  PROVE  /\ \A r \in AfterWrites(f) : Fine(r, at, ip + 1)
         /\ ~ CertainWrites(program) \/ program.handler[at] # 0 =>
              \A r \in AfterReads(f) : Fine(r, at, ip + 1)
<1>1. \A r \in NewReads(f) \cup NewWrites(f) : Fine(r, at, ip + 1)
  <2>1. ASSUME NEW r \in NewReads(f) PROVE Fine(r, at, ip + 1)
    <3>1. PICK s \in DOMAIN f : Reads(s.mode) /\ \E c \in f[s] : r = Record(f, "read", s, c)
      BY DEF NewReads
    <3>2. QED
      BY <3>1, FineNew
  <2>2. ASSUME NEW r \in NewWrites(f) PROVE Fine(r, at, ip + 1)
    <3>1. PICK s \in DOMAIN f : Writes(s.mode) /\ \E c \in f[s] : r = Record(f, "write", s, c)
      BY DEF NewWrites
    <3>2. QED
      BY <3>1, FineNew
  <2>3. QED
    BY <2>1, <2>2
<1>2. ip \in DOMAIN program.code[at]
  BY DEF Code
<1>3. ASSUME NEW r \in live, r.cell \notin WrittenCells(f) PROVE Fine(r, at, ip + 1)
  <2>1. ~ Covered(r, at, ip)
    <3>1. SUFFICES ASSUME NEW w \in AccessSites(program, at, ip), Writes(w.mode),
                          \A T \in Touches(program, w) : r.cell \in T
                   PROVE  FALSE
      BY DEF Covered
    <3>2. w \in DOMAIN f /\ f[w] \in Touches(program, w)
      BY DEF Evaluations
    <3>3. r.cell \in WrittenCells(f)
      BY <3>1, <3>2 DEF WrittenCells
    <3>4. QED
      BY <1>3, <3>3
  <2>2. QED
    BY <1>2, <2>1, FineOn
<1>4. ASSUME NEW r \in live, ~ CertainWrites(program) \/ program.handler[at] # 0
      PROVE  Fine(r, at, ip + 1)
  <2>1. ~ (CertainWrites(program) /\ Covered(r, at, ip))
    BY <1>2, <1>4, HandledCovers
  <2>2. QED
    BY <1>2, <2>1, FineOn
<1>5. \A r \in AfterWrites(f) : Fine(r, at, ip + 1)
  BY <1>1, <1>3 DEF AfterWrites, AfterReads
<1>6. ASSUME ~ CertainWrites(program) \/ program.handler[at] # 0
      PROVE  \A r \in AfterReads(f) : Fine(r, at, ip + 1)
  BY <1>1, <1>4, <1>6 DEF AfterReads
<1>7. QED
  BY <1>5, <1>6

(* Everything a record is judged by is left alone by an execution.         *)
LEMMA StillTracked ==
  ASSUME UNCHANGED <<vars, binding>>, complete, Bound,
         at' \in Blocks, ip' \in 1 .. Len(program.code[at']) + 1,
         \A r \in live' : Fine(r, at', ip')
  PROVE  Tracked'
<1>1. /\ program' = program /\ inputs' = inputs /\ dependences' = dependences
      /\ loop_edges' = loop_edges /\ complete' = complete /\ binding' = binding
  BY DEF vars, search, fixpoint
<1>2. Bound' /\ complete' /\ Blocks' = Blocks
  BY <1>1 DEF Bound, Blocks
<1>3. \A s : Spots(s)' = Spots(s)
  BY <1>1 DEF Spots, Touches
<1>4. \A i : OrderedAfter(i)' = OrderedAfter(i)
  BY <1>1 DEF OrderedAfter, Follows
<1>5. \A x, y : Search!Unmarked(x, y)' = Search!Unmarked(x, y)
  BY <1>1 DEF Search!Unmarked
<1>6. ASSUME NEW r \in live' PROVE Fine(r, at, ip)'
  <2>1. Fine(r, at', ip')
    OBVIOUS
  <2>2. Placed(r, at, ip)'
    <3>1. Placed(r, at', ip')
      BY <2>1 DEF Fine
    <3>2. QED
      BY <1>1, <1>2, <1>3, <3>1 DEF Placed
  <2>3. ASSUME NEW a, Stands(a, r, at') PROVE Stands(a, r, at)'
    <3>1. Chained(r.seen, at)' <=> Chained(r.seen, at')
      BY <1>5 DEF Chained
    <3>2. QED
      BY <1>1, <1>3, <1>4, <2>3, <3>1 DEF Stands
  <2>4. QED
    BY <1>1, <2>1, <2>2, <2>3 DEF Fine
<1>7. QED
  BY <1>1, <1>2, <1>6 DEF Tracked, Code

-----------------------------------------------------------------------------

(* Once the table is complete the analysis has stopped.                    *)
LEMMA AnalysisOver == IInv /\ complete => ~ Next
<1> SUFFICES ASSUME IInv, complete, Next PROVE FALSE
  OBVIOUS
<1>1. program.count \in Nat
  BY GraphFacts DEF IInv, Basic
<1>2. Search!Done /\ current = 0
  BY DEF IInv, Over, Early
<1>3. CASE BuildGraph
  <2>1. start = program.count + 1 /\ stack = <<>>
    BY <1>2 DEF Search!Done
  <2>2. start \notin 1 .. program.count
    BY <1>1, <2>1
  <2>3. QED
    BY <1>3, <2>1, <2>2 DEF BuildGraph, Search!Next, Search!Start, Search!Leave, Search!Follow,
                            Search!Blocks
<1>4. CASE Take
  BY <1>4 DEF Take
<1>5. CASE HandOn
  BY <1>2, <1>5 DEF HandOn
<1>6. CASE Leave
  BY <1>2, <1>6 DEF Leave
<1>7. CASE Collect
  BY <1>7 DEF Collect
<1>8. QED
  BY <1>3, <1>4, <1>5, <1>6, <1>7 DEF Next

(* The table does not change once it has been computed.                    *)
LEMMA TableKept == Spec => []Table
<1>1. Init => Table
  BY DEF Init, Table
<1>2. IInv /\ Table /\ [Next]_vars => Table'
  <2> SUFFICES ASSUME IInv, Table, [Next]_vars PROVE Table'
    OBVIOUS
  <2>1. CASE UNCHANGED vars
    <3>1. UNCHANGED <<program, inputs, complete, dependences>>
      BY <2>1 DEF vars, fixpoint
    <3>2. Drafts' = Drafts
      BY <3>1 DEF Drafts, Blocks
    <3>3. QED
      BY <3>1, <3>2 DEF Table
  <2>2. CASE Collect
    <3>1. UNCHANGED <<program, inputs>> /\ dependences' = Canonical(Drafts)
      BY <2>2 DEF Collect, fixpoint
    <3>2. Drafts' = Drafts
      BY <3>1 DEF Drafts, Blocks
    <3>3. QED
      BY <3>1, <3>2 DEF Table
  <2>3. CASE BuildGraph \/ Take \/ HandOn \/ Leave
    <3>1. complete' = complete
      BY <2>3 DEF BuildGraph, Take, HandOn, Leave
    <3>2. ~ complete
      BY <2>3, AnalysisOver DEF Next
    <3>3. QED
      BY <3>1, <3>2 DEF Table
  <2>4. QED
    BY <2>1, <2>2, <2>3 DEF Next
<1>3. QED
  BY <1>1, <1>2, Invariant, PTL DEF Spec

(* When the table is complete every cycle of the graph is cut.             *)
LEMMA GraphCut == Spec => []Acyclic
<1>1. \A g \in Programs : Cut!IsGraph(g)
  BY ProgramsAssumption DEF WellFormed, Cut!IsGraph, Cut!Blocks
<1>2. Cut!Spec => []Cut!NoneCircular
  BY <1>1, Cut!NothingCircular
<1>3. IInv /\ Cut!NoneCircular => Acyclic
  <2>1. IInv /\ complete => Cut!Done
    BY DEF IInv, Early, Search!Done, Cut!Done
  <2>2. QED
    BY <2>1 DEF Acyclic, Cut!NoneCircular, Cut!Blocks, Blocks, Cut!Unmarked, Search!Unmarked
<1>4. QED
  BY <1>2, <1>3, AnalysisSearches, Invariant, PTL

Analysed == IInv /\ Table /\ FixedPoint /\ Acyclic

(* What is known of the analysis holds throughout an execution.            *)
LEMMA AlwaysAnalysed == ExecSpec => []Analysed
<1>1. Spec => []Analysed
  BY Invariant, TableKept, TableFromFixedPoint, GraphCut, PTL DEF Analysed
<1>2. QED
  BY <1>1, ExecutionAnalyses, PTL

-----------------------------------------------------------------------------

(* A step that enters a block with records that are stood for.             *)
LEMMA EnterStep ==
  ASSUME Settings, at \in Blocks, NEW c \in GraphEdges(program, at), NEW R,
         \A r \in R : Fine(r, at, Len(program.code[at]) + 1), Enter(c, R)
  PROVE  Tracked'
<1>1. /\ at' = c /\ ip' = 1 /\ live' = {Carried(r, c) : r \in R}
      /\ UNCHANGED <<vars, binding>>
  BY DEF Enter
<1>2. c \in GraphEdges(program, at) => c \in Blocks
  <2>1. program \in Programs /\ at \in 1 .. program.count
    BY BlockFacts
  <2>2. {program.successors[at][k] : k \in DOMAIN program.successors[at]} = GraphEdges(program, at)
    BY <2>1, ProgramFacts
  <2>3. \A k \in DOMAIN program.successors[at] : program.successors[at][k] \in Blocks
    BY <2>1, GraphFacts
  <2>4. QED
    BY <2>2, <2>3
<1>3. \A r \in R : Fine(Carried(r, c), c, 1)
  BY FineInto
<1>4. \A r \in live' : Fine(r, at', ip')
  BY <1>1, <1>3
<1>5. ip' \in 1 .. Len(program.code[at']) + 1 /\ at' \in Blocks
  <2>1. Len(program.code[c]) \in Nat
    BY <1>2, BlockFacts
  <2>2. QED
    BY <1>1, <1>2, <2>1
<1>6. QED
  BY <1>1, <1>4, <1>5, StillTracked DEF Settings

(* What is known of the instruction that is executed.                      *)
LEMMA InstructionFacts ==
  ASSUME Settings, at \in Blocks, ip \in DOMAIN Code
  PROVE  /\ ip \in Nat /\ ip \in 1 .. Len(program.code[at]) /\ Len(program.code[at]) \in Nat
         /\ ip + 1 \in 1 .. Len(program.code[at]) + 1
         /\ CertainWrites(program) => Code[ip].commits = "always"
         /\ Code[ip].commits = "entering" => ip = Len(program.code[at]) /\ Len(program.next[at]) = 2
<1>1. /\ program \in Programs /\ at \in 1 .. program.count
      /\ Len(program.code[at]) \in Nat /\ DOMAIN program.code[at] = 1 .. Len(program.code[at])
  BY BlockFacts
<1>2. at \in DOMAIN program.code
  BY <1>1, ProgramFacts
<1>3. Verified(program)
  BY BoundFacts DEF Settings
<1>4. QED
  BY <1>1, <1>2, <1>3 DEF Code, CertainWrites, Verified

(* An execution starts without records.                                    *)
LEMMA StartTracked ==
  ASSUME Analysed, Start
  PROVE  Tracked'
<1>1. /\ complete /\ program \in Executed /\ binding' \in Bindings(program)
      /\ at' = 1 /\ ip' = 1 /\ live' = {} /\ UNCHANGED vars
  BY DEF Start
<1>2. program' = program /\ complete' = complete /\ Blocks' = Blocks
  BY <1>1 DEF vars, Blocks
<1>3. program \in Programs
  BY DEF Analysed, IInv, Basic
<1>4. 1 \in 1 .. program.count /\ Len(program.code[1]) \in Nat
  BY <1>3, ProgramFacts
<1>5. Bound'
  BY <1>1, <1>2 DEF Bound
<1>6. QED
  BY <1>1, <1>2, <1>4, <1>5 DEF Tracked, Code, Blocks

(* An instruction is executed.                                             *)
LEMMA CommitTracked ==
  ASSUME Settings, Tracked, Commit
  PROVE  Tracked'
<1>1. at \in Blocks /\ ip \in DOMAIN Code /\ \A r \in live : Fine(r, at, ip)
  BY DEF Commit, Running, Tracked
<1>2. PICK f \in Evaluations(program, at, ip) :
        \/ live' = AfterWrites(f)
        \/ Code[ip].commits = "sometimes" /\ live' = AfterReads(f)
  BY DEF Commit
<1>3. \A r \in live' : Fine(r, at, ip + 1)
  BY <1>1, <1>2, FineAfter, InstructionFacts
<1>4. ip' = ip + 1 /\ at' = at /\ UNCHANGED <<vars, binding>>
  BY DEF Commit
<1>5. ip' \in 1 .. Len(program.code[at']) + 1
  BY <1>1, <1>4, InstructionFacts
<1>6. \A r \in live' : Fine(r, at', ip')
  BY <1>3, <1>4
<1>7. QED
  BY <1>1, <1>4, <1>5, <1>6, StillTracked DEF Settings

(* The branch of a loop is taken, with or without its write.               *)
LEMMA IterateTracked ==
  ASSUME Settings, Tracked, Iterate
  PROVE  Tracked'
<1>1. /\ at \in Blocks /\ ip \in DOMAIN Code /\ \A r \in live : Fine(r, at, ip)
      /\ Code[ip].commits = "entering"
  BY DEF Iterate, Running, Tracked
<1>2. /\ ip = Len(program.code[at]) /\ Len(program.next[at]) = 2 /\ ~ CertainWrites(program)
  BY <1>1, InstructionFacts
<1>3. PICK f \in Evaluations(program, at, ip) :
       \/ Enter(program.next[at][1], AfterWrites(f))
       \/ Enter(program.next[at][2], AfterReads(f))
  BY DEF Iterate
<1>4. program.next[at][1] \in GraphEdges(program, at) /\ program.next[at][2] \in GraphEdges(program, at)
  <2>1. program \in Programs /\ at \in 1 .. program.count
    BY <1>1, BlockFacts
  <2>2. DOMAIN program.next[at] = 1 .. Len(program.next[at])
    BY <2>1, ProgramFacts
  <2>3. 1 \in DOMAIN program.next[at] /\ 2 \in DOMAIN program.next[at]
    BY <1>2, <2>2
  <2>4. QED
    BY <2>3 DEF GraphEdges
<1>5. /\ \A r \in AfterWrites(f) : Fine(r, at, Len(program.code[at]) + 1)
      /\ \A r \in AfterReads(f) : Fine(r, at, Len(program.code[at]) + 1)
  BY <1>1, <1>2, FineAfter
<1>6. QED
  BY <1>1, <1>3, <1>4, <1>5, EnterStep

(* An instruction fails, and its handler is entered.                       *)
LEMMA FailTracked ==
  ASSUME Settings, Tracked, Fail
  PROVE  Tracked'
<1>1. /\ at \in Blocks /\ ip \in DOMAIN Code /\ \A r \in live : Fine(r, at, ip)
      /\ program.handler[at] # 0
  BY DEF Fail, Running, Tracked
<1>2. PICK f \in Evaluations(program, at, ip) : Enter(program.handler[at], AfterReads(f))
  BY DEF Fail
<1>3. \A r \in AfterReads(f) : Fine(r, at, ip + 1)
  BY <1>1, FineAfter
<1>4. ip + 1 \in 1 .. Len(program.code[at]) + 1
  BY <1>1, InstructionFacts
<1>5. \A r \in AfterReads(f) : Fine(r, at, Len(program.code[at]) + 1)
  BY <1>1, <1>3, <1>4, FineThrough
<1>6. program.handler[at] \in GraphEdges(program, at)
  BY <1>1 DEF GraphEdges
<1>7. QED
  BY <1>1, <1>2, <1>5, <1>6, EnterStep

(* The terminator of a block is executed.                                  *)
LEMMA BranchTracked ==
  ASSUME Settings, Tracked, Branch
  PROVE  Tracked'
<1>1. /\ at \in Blocks /\ \A r \in live : Fine(r, at, Len(program.code[at]) + 1)
  BY DEF Branch, Tracked, Code
<1>2. PICK k \in DOMAIN program.next[at] : Enter(program.next[at][k], live)
  BY DEF Branch
<1>3. program.next[at][k] \in GraphEdges(program, at)
  BY DEF GraphEdges
<1>4. QED
  BY <1>1, <1>2, <1>3, EnterStep

(* No step of the analysis or of the execution loses track of a record.    *)
LEMMA TrackedStep == Analysed /\ Tracked /\ [ExecNext]_allVars => Tracked'
<1> SUFFICES ASSUME Analysed, Tracked, [ExecNext]_allVars PROVE Tracked'
  OBVIOUS
<1>1. at # 0 => Settings
  BY DEF Analysed, Tracked, Settings
<1>2. CASE Analyse
  <2>1. UNCHANGED execution /\ Next
    BY <1>2 DEF Analyse
  <2>2. at = 0
    BY <2>1, AnalysisOver DEF Analysed, Tracked
  <2>3. at' = 0
    BY <2>1, <2>2 DEF execution
  <2>4. QED
    BY <2>3 DEF Tracked
<1>3. CASE Start
  BY <1>3, StartTracked
<1>4. CASE Commit
  BY <1>1, <1>4, CommitTracked DEF Commit, Running
<1>5. CASE Iterate
  BY <1>1, <1>5, IterateTracked DEF Iterate, Running
<1>6. CASE Fail
  BY <1>1, <1>6, FailTracked DEF Fail, Running
<1>7. CASE Branch
  BY <1>1, <1>7, BranchTracked DEF Branch
<1>8. CASE UNCHANGED allVars
  <2>1. UNCHANGED <<vars, binding>> /\ at' = at /\ ip' = ip /\ live' = live
    BY <1>8 DEF allVars, execution
  <2>2. CASE at = 0
    BY <2>1, <2>2 DEF Tracked
  <2>3. CASE at # 0
    BY <2>1, <2>3, StillTracked DEF Tracked, Code
  <2>4. QED
    BY <2>2, <2>3
<1>9. QED
  BY <1>2, <1>3, <1>4, <1>5, <1>6, <1>7, <1>8 DEF ExecNext

(* Every record of every execution is stood for.                           *)
LEMMA AlwaysTracked == ExecSpec => [](Analysed /\ Tracked)
<1>1. ExecInit => Tracked
  BY DEF ExecInit, Tracked
<1>2. QED
  BY <1>1, TrackedStep, AlwaysAnalysed, PTL DEF ExecSpec

-----------------------------------------------------------------------------

(* What a hazard is.                                                       *)
LEMMA HazardFacts ==
  ASSUME Settings, Tracked, Running, NEW h \in Hazards
  PROVE  \E r \in live, t \in AccessSites(program, at, ip) :
           /\ Fine(r, at, ip) /\ r.cell \in Spots(t) /\ h.kind \in Kinds(r.site, t)
           /\ h.source = r.site /\ h.target = t /\ h.cycled = r.cycled
           /\ Retained(program, r.site)
<1>1. PICK f \in Evaluations(program, at, ip) : \E t \in DOMAIN f :
        h \in {[source |-> r.site, target |-> t, kind |-> "flow", cycled |-> r.cycled] :
                 r \in {x \in live : x.role = "write" /\ Reads(t.mode) /\ x.cell \in f[t]}}
              \cup
              {[source |-> r.site, target |-> t,
                kind |-> IF r.role = "write" THEN "output" ELSE "anti", cycled |-> r.cycled] :
                 r \in {x \in live : Writes(t.mode) /\ x.cell \in f[t]}}
  BY DEF Hazards
<1>2. PICK t \in DOMAIN f : \E r \in live :
        /\ r.cell \in f[t] /\ h.source = r.site /\ h.target = t /\ h.cycled = r.cycled
        /\ \/ r.role = "write" /\ Reads(t.mode) /\ h.kind = "flow"
           \/ Writes(t.mode) /\ h.kind = IF r.role = "write" THEN "output" ELSE "anti"
  BY <1>1
<1>3. PICK r \in live :
        /\ r.cell \in f[t] /\ h.source = r.site /\ h.target = t /\ h.cycled = r.cycled
        /\ \/ r.role = "write" /\ Reads(t.mode) /\ h.kind = "flow"
           \/ Writes(t.mode) /\ h.kind = IF r.role = "write" THEN "output" ELSE "anti"
  BY <1>2
<1>4. t \in AccessSites(program, at, ip) /\ f[t] \in Touches(program, t)
  BY DEF Evaluations
<1>5. r.cell \in Spots(t)
  BY <1>3, <1>4 DEF Spots
<1>6. at \in Blocks /\ Fine(r, at, ip) /\ ip \in DOMAIN program.code[at]
  BY DEF Tracked, Running, Code
<1>7. /\ r.site \in AllSites(program) /\ r.cell \in Spots(r.site)
      /\ \/ r.role = "write" /\ Writes(r.site.mode)
         \/ r.role = "read" /\ Reads(r.site.mode)
  BY <1>6 DEF Fine, Placed
<1>8. h.kind \in Kinds(r.site, t)
  BY <1>3, <1>7 DEF Kinds
<1>9. Retained(program, r.site)
  <2>1. CASE r.role = "write"
    BY <1>7, <2>1 DEF Retained
  <2>2. CASE r.role = "read"
    <3>1. Writes(t.mode) /\ Reads(r.site.mode)
      BY <1>3, <1>7, <2>2
    <3>2. t \in AllSites(program)
      BY <1>4, <1>6, BlockFacts
    <3>3. /\ SiteRelation(program, r.site, t) # "no_alias"
          /\ ~ ScalarAggregateDisjoint(program, r.site, t)
      BY <1>5, <1>7, <3>2, CommonSpot DEF Settings
    <3>4. QED
      BY <3>1, <3>2, <3>3 DEF Retained
  <2>3. QED
    BY <1>7, <2>1, <2>2
<1>10. QED
  BY <1>3, <1>4, <1>5, <1>6, <1>8, <1>9

(* Every dependence of every execution of every function whose writes are  *)
(* certain is in the table of analyze_function, marked if it goes around a *)
(* loop: whatever memory the parameters share, whatever unknown memory is, *)
(* whatever the kills and the skipped reads, whatever the shape of the     *)
(* loops.                                                                  *)
THEOREM DependencesAreFound == ExecSpec => []NoDependenceLostIfCertain
<1>1. Analysed /\ Tracked => NoDependenceLostIfCertain
  <2> SUFFICES ASSUME Analysed, Tracked, CertainWrites(program), Running, NEW h \in Hazards
               PROVE  \E d \in dependences : SameKey(d, h) /\ (h.cycled => d.loop_carried)
    BY DEF NoDependenceLostIfCertain, NoDependenceLost
  <2>1. Settings /\ at \in Blocks /\ ip \in DOMAIN program.code[at]
    BY DEF Analysed, Tracked, Running, Settings, Code
  <2>2. PICK r \in live, t \in AccessSites(program, at, ip) :
           /\ Fine(r, at, ip) /\ r.cell \in Spots(t) /\ h.kind \in Kinds(r.site, t)
           /\ h.source = r.site /\ h.target = t /\ h.cycled = r.cycled
           /\ Retained(program, r.site)
    BY <2>1, HazardFacts
  <2>3. PICK a \in Frontiers(program, at, inputs[at])[ip - 1] : Stands(a, r, at)
    BY <2>2 DEF Fine
  <2>4. a.site = r.site /\ (r.cycled => a.loop_carried)
    BY <2>3 DEF Stands
  <2>5. PICK d \in dependences : /\ d.source = r.site /\ d.target = t /\ d.kind = h.kind
                                 /\ r.cycled => d.loop_carried
    BY <2>1, <2>2, <2>3, <2>4, Reported DEF Fine
  <2>6. QED
    BY <2>2, <2>5 DEF SameKey
<1>2. QED
  BY <1>1, AlwaysTracked, PTL

(* Where writes are uncertain a kill may hide a dependence, but never the  *)
(* order: a chain of dependences of the table leads from its source to its *)
(* target, for every execution of every function.                          *)
THEOREM OrderIsKept == ExecSpec => []OrderKept
<1>1. Analysed /\ Tracked => OrderKept
  <2> SUFFICES ASSUME Analysed, Tracked, Running, NEW h \in Hazards
               PROVE  h.target.instruction \in OrderedAfter(h.source.instruction)
    BY DEF OrderKept
  <2>1. Settings /\ at \in Blocks /\ ip \in DOMAIN program.code[at]
    BY DEF Analysed, Tracked, Running, Settings, Code
  <2>2. PICK r \in live, t \in AccessSites(program, at, ip) :
           /\ Fine(r, at, ip) /\ r.cell \in Spots(t) /\ h.kind \in Kinds(r.site, t)
           /\ h.source = r.site /\ h.target = t /\ h.cycled = r.cycled
           /\ Retained(program, r.site)
    BY <2>1, HazardFacts
  <2>3. PICK a \in Frontiers(program, at, inputs[at])[ip - 1] : Stands(a, r, at)
    BY <2>2 DEF Fine
  <2>4. CASE a.site = r.site /\ (r.cycled => a.loop_carried)
    <3>1. PICK d \in dependences : /\ d.source = r.site /\ d.target = t /\ d.kind = h.kind
                                   /\ r.cycled => d.loop_carried
      BY <2>1, <2>2, <2>3, <2>4, Reported DEF Fine
    <3>2. complete /\ Table /\ program \in Programs
      BY <2>1, BoundFacts DEF Settings
    <3>3. QED
      BY <2>2, <3>1, <3>2, OrderedFacts
  <2>5. CASE /\ a.site \in AllSites(program) /\ Writes(a.site.mode) /\ r.cell \in Spots(a.site)
             /\ a.site.instruction \in OrderedAfter(r.site.instruction)
    BY <2>1, <2>2, <2>3, <2>5, OrderedOn
  <2>6. QED
    BY <2>3, <2>4, <2>5 DEF Stands
<1>2. QED
  BY <1>1, AlwaysTracked, PTL
=============================================================================
