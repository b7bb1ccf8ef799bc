------------------------ MODULE FeedbackEdgesProofs ------------------------
(***************************************************************************)
(* Proofs about the search that marks feedback edges, for every graph.     *)
(***************************************************************************)
EXTENDS FeedbackEdges, SequenceTheorems, WellFoundedInduction, TLAPS

Frames == [block : Blocks(graph), next_successor : Nat \ {0}]

(* What the assumption on graphs says of the graph being searched.         *)
LEMMA GraphFacts ==
  ASSUME TypeOK
  PROVE  /\ graph.count \in Nat
         /\ \A b \in Blocks(graph) :
              /\ graph.successors[b] \in Seq(Blocks(graph))
              /\ Len(graph.successors[b]) \in Nat
              /\ DOMAIN graph.successors[b] = 1 .. Len(graph.successors[b])
              /\ \A k \in DOMAIN graph.successors[b] : graph.successors[b][k] \in Blocks(graph)
  BY DEF TypeOK, IsGraph

(* The innermost frame of a stack that is not empty.                       *)
LEMMA TopFacts ==
  ASSUME TypeOK, stack # <<>>
  PROVE  /\ Len(stack) \in Nat \ {0}
         /\ DOMAIN stack = 1 .. Len(stack)
         /\ Top = stack[Len(stack)]
         /\ Top \in Frames
         /\ Top.block \in Blocks(graph)
         /\ Top.next_successor \in Nat \ {0}
  <1>1. stack \in Seq(Frames)
    BY DEF TypeOK, Frames
  <1>2. Len(stack) \in Nat \ {0} /\ DOMAIN stack = 1 .. Len(stack)
    BY <1>1
  <1>3. Top \in Frames
    BY <1>1, <1>2 DEF Top
  <1> QED
    BY <1>2, <1>3 DEF Top, Frames

(* The stack without its innermost frame.                                  *)
LEMMA PoppedFacts ==
  ASSUME TypeOK, stack # <<>>
  PROVE  /\ Popped \in Seq(Frames)
         /\ Len(Popped) = Len(stack) - 1
         /\ \A i \in 1 .. Len(stack) - 1 : Popped[i] = stack[i]
  <1>1. stack \in Seq(Frames) /\ Len(stack) \in Nat \ {0}
    BY TopFacts DEF TypeOK, Frames
  <1> DEFINE n == Len(stack) - 1
  <1>2. \A i \in 1 .. n : stack[i] \in Frames
    BY <1>1
  <1>3. n \in Int /\ 1 \in Int /\ n >= 0
    BY <1>1
  <1>5. Popped = SubSeq(stack, 1, n)
    BY DEF Popped
  <1> HIDE DEF n
  <1>4. /\ SubSeq(stack, 1, n) \in Seq(Frames)
        /\ Len(SubSeq(stack, 1, n)) = IF 1 <= n THEN n - 1 + 1 ELSE 0
        /\ \A i \in 1 .. n - 1 + 1 : SubSeq(stack, 1, n)[i] = stack[1 + i - 1]
    BY <1>2, <1>3, SubSeqProperties
  <1>6. /\ Popped \in Seq(Frames)
        /\ Len(Popped) = n
        /\ \A i \in 1 .. n : Popped[i] = stack[i]
    BY <1>3, <1>4, <1>5
  <1> QED
    BY <1>6 DEF n

(* The stack once its innermost frame has moved to its next successor.     *)
LEMMA AdvancedFacts ==
  ASSUME TypeOK, stack # <<>>
  PROVE  /\ Advanced \in Seq(Frames)
         /\ Len(Advanced) = Len(stack)
         /\ \A i \in 1 .. Len(stack) - 1 : Advanced[i] = stack[i]
         /\ Advanced[Len(stack)].block = Top.block
         /\ Advanced[Len(stack)].next_successor = Top.next_successor + 1
  <1>1. stack \in Seq(Frames) /\ Len(stack) \in Nat \ {0} /\ DOMAIN stack = 1 .. Len(stack)
    BY TopFacts DEF TypeOK, Frames
  <1> DEFINE moved == [stack[Len(stack)] EXCEPT !.next_successor = @ + 1]
  <1>2. moved \in Frames /\ moved.block = Top.block
        /\ moved.next_successor = Top.next_successor + 1
    BY TopFacts DEF Frames, Top
  <1>3. Advanced = [stack EXCEPT ![Len(stack)] = moved]
    BY DEF Advanced
  <1> HIDE DEF moved
  <1>5. Len(stack) \in 1 .. Len(stack) /\ moved \in Frames
    BY <1>1, <1>2
  <1>6. /\ Advanced \in Seq(Frames)
        /\ Len(Advanced) = Len(stack)
        /\ \A j \in 1 .. Len(stack) : Advanced[j] = IF j = Len(stack) THEN moved ELSE stack[j]
    <2>1. stack \in Seq(Frames)
      BY <1>1
    <2> HIDE DEF Frames
    <2> DEFINE except == [stack EXCEPT ![Len(stack)] = moved]
    <2>2. /\ except \in Seq(Frames)
          /\ Len(except) = Len(stack)
          /\ \A j \in 1 .. Len(stack) : except[j] = IF j = Len(stack) THEN moved ELSE stack[j]
      BY <2>1, <1>5
    <2>3. Advanced = except
      BY <1>3
    <2> HIDE DEF except
    <2> QED
      BY <2>2, <2>3
  <1>7. Advanced[Len(stack)] = moved
    BY <1>5, <1>6
  <1>8. ASSUME NEW i \in 1 .. Len(stack) - 1 PROVE Advanced[i] = stack[i]
    <2> DEFINE n == Len(stack)
    <2>0. n \in Nat /\ i \in 1 .. n - 1
      BY <1>1
    <2> HIDE DEF n
    <2>2. i \in 1 .. n /\ i # n
      BY <2>0
    <2>1. i \in 1 .. Len(stack) /\ i # Len(stack)
      BY <2>2 DEF n
    <2> QED
      BY <1>6, <2>1
  <1> QED
    BY <1>2, <1>6, <1>7, <1>8

(* A stack of one frame, and a stack with one frame more.                  *)
LEMMA PushFacts ==
  ASSUME TypeOK, NEW b \in Blocks(graph), NEW s \in Seq(Frames)
  PROVE  /\ Append(s, Frame(b)) \in Seq(Frames)
         /\ Len(Append(s, Frame(b))) = Len(s) + 1
         /\ \A i \in 1 .. Len(s) : Append(s, Frame(b))[i] = s[i]
         /\ Append(s, Frame(b))[Len(s) + 1] = Frame(b)
         /\ <<Frame(b)>> = Append(<<>>, Frame(b))
  <1>1. Frame(b) \in Frames
    BY DEF Frame, Frames
  <1> QED
    BY <1>1

(* The four kinds of steps, with what they do to the stack spelled out.    *)
Enter ==
  /\ Start
  /\ visits[start] = "white"

Skip ==
  /\ Start
  /\ visits[start] # "white"

Descend ==
  /\ Follow
  /\ visits[graph.successors[Top.block][Top.next_successor]] = "white"

Pass ==
  /\ Follow
  /\ visits[graph.successors[Top.block][Top.next_successor]] # "white"

Target == graph.successors[Top.block][Top.next_successor]

LEMMA NextCases == Next => Enter \/ Skip \/ Leave \/ Descend \/ Pass
  BY DEF Next, Enter, Skip, Descend, Pass, Start, Follow

(* The type invariant is inductive.                                        *)
LEMMA InitType == (\A g \in Graphs : IsGraph(g)) /\ Init => TypeOK
  <1> SUFFICES ASSUME \A g \in Graphs : IsGraph(g), Init PROVE TypeOK
    OBVIOUS
  <1>0. IsGraph(graph)
    BY DEF Init
  <1>1. graph.count \in Nat
    BY <1>0 DEF IsGraph
  <1>2. start \in 1 .. graph.count + 1
    BY <1>1 DEF Init
  <1> QED
    BY <1>0, <1>2 DEF Init, TypeOK

LEMMA NextType == TypeOK /\ [Next]_vars => TypeOK'
  <1> SUFFICES ASSUME TypeOK, [Next]_vars PROVE TypeOK'
    OBVIOUS
  <1>f. /\ graph \in Graphs
        /\ IsGraph(graph)
        /\ visits \in [Blocks(graph) -> {"white", "gray", "black"}]
        /\ stack \in Seq(Frames)
        /\ start \in 1 .. graph.count + 1
        /\ loop_edges \subseteq Blocks(graph) \X (Nat \ {0})
        /\ finished \in Seq(Blocks(graph))
        /\ graph.count \in Nat
    BY GraphFacts DEF TypeOK, Frames
  <1>t. ASSUME graph' = graph,
               visits' \in [Blocks(graph) -> {"white", "gray", "black"}],
               stack' \in Seq(Frames),
               start' \in 1 .. graph.count + 1,
               loop_edges' \subseteq Blocks(graph) \X (Nat \ {0}),
               finished' \in Seq(Blocks(graph))
        PROVE  TypeOK'
    BY <1>f, <1>t DEF TypeOK, Frames
  <1>1. CASE Enter
    <2>1. /\ graph' = graph
          /\ start \in Blocks(graph) /\ start' = start + 1
          /\ visits' = [visits EXCEPT ![start] = "gray"]
          /\ stack' = <<Frame(start)>>
          /\ UNCHANGED <<loop_edges, finished>>
      BY <1>1 DEF Enter, Start
    <2>2. stack' \in Seq(Frames)
      <3>1. <<>> \in Seq(Frames)
        OBVIOUS
      <3> QED
        BY <2>1, <3>1, PushFacts
    <2>3. start' \in 1 .. graph.count + 1
      BY <1>f, <2>1 DEF Blocks
    <2>4. visits' \in [Blocks(graph) -> {"white", "gray", "black"}]
      BY <1>f, <2>1
    <2> QED
      BY <1>f, <1>t, <2>1, <2>2, <2>3, <2>4
  <1>2. CASE Skip
    <2>1. /\ graph' = graph
          /\ start \in Blocks(graph) /\ start' = start + 1
          /\ UNCHANGED <<visits, stack, loop_edges, finished>>
      BY <1>2 DEF Skip, Start
    <2>3. start' \in 1 .. graph.count + 1
      BY <1>f, <2>1 DEF Blocks
    <2> QED
      BY <1>f, <1>t, <2>1, <2>3
  <1>3. CASE Leave
    <2>1. /\ stack # <<>>
          /\ visits' = [visits EXCEPT ![Top.block] = "black"]
          /\ stack' = Popped
          /\ finished' = Append(finished, Top.block)
          /\ UNCHANGED <<graph, start, loop_edges>>
      BY <1>3 DEF Leave
    <2>2. stack' \in Seq(Frames) /\ Top.block \in Blocks(graph)
      BY <2>1, PoppedFacts, TopFacts
    <2>3. visits' \in [Blocks(graph) -> {"white", "gray", "black"}]
      BY <1>f, <2>1
    <2>4. finished' \in Seq(Blocks(graph))
      BY <1>f, <2>1, <2>2
    <2> QED
      BY <1>f, <1>t, <2>1, <2>2, <2>3, <2>4
  <1>4. CASE Descend
    <2>1. /\ stack # <<>>
          /\ Top.next_successor \in DOMAIN graph.successors[Top.block]
          /\ loop_edges' \in {loop_edges, loop_edges \cup {<<Top.block, Top.next_successor>>}}
          /\ visits' = [visits EXCEPT ![Target] = "gray"]
          /\ stack' = Append(Advanced, Frame(Target))
          /\ UNCHANGED <<graph, start, finished>>
      BY <1>4 DEF Descend, Follow, Target
    <2>2. Target \in Blocks(graph) /\ Top.block \in Blocks(graph)
          /\ Top.next_successor \in Nat \ {0}
      BY <2>1, GraphFacts, TopFacts DEF Target
    <2>3. stack' \in Seq(Frames)
      BY <2>1, <2>2, AdvancedFacts, PushFacts
    <2>4. visits' \in [Blocks(graph) -> {"white", "gray", "black"}]
      BY <1>f, <2>1
    <2>5. loop_edges' \subseteq Blocks(graph) \X (Nat \ {0})
      BY <1>f, <2>1, <2>2
    <2> QED
      BY <1>f, <1>t, <2>1, <2>3, <2>4, <2>5
  <1>5. CASE Pass
    <2>1. /\ stack # <<>>
          /\ loop_edges' \in {loop_edges, loop_edges \cup {<<Top.block, Top.next_successor>>}}
          /\ stack' = Advanced
          /\ UNCHANGED <<graph, visits, start, finished>>
      BY <1>5 DEF Pass, Follow
    <2>2. stack' \in Seq(Frames)
      BY <2>1, AdvancedFacts
    <2>3. loop_edges' \subseteq Blocks(graph) \X (Nat \ {0})
      BY <1>f, <2>1, TopFacts
    <2> QED
      BY <1>f, <1>t, <2>1, <2>2, <2>3
  <1>6. CASE UNCHANGED vars
    BY <1>f, <1>6, <1>t DEF vars
  <1> QED
    BY <1>1, <1>2, <1>3, <1>4, <1>5, <1>6, NextCases

(* Type correctness of the search, on every graph.                         *)
THEOREM TypeCorrect == (\A g \in Graphs : IsGraph(g)) => (Spec => []TypeOK)
  BY InitType, NextType, PTL DEF Spec

-----------------------------------------------------------------------------
(* Every cycle is cut.  A block that turns black is finished; the edges of *)
(* a finished block are marked or lead to blocks finished before it, so    *)
(* the first finished block of a cycle has its cycle edge marked.          *)

Seen(b, k) ==
  \/ <<b, k>> \in loop_edges
  \/ visits[graph.successors[b][k]] = "black"

(* The edges a frame has moved past are settled, except the one that leads *)
(* to the next frame.                                                      *)
Looked ==
  \A i \in 1 .. Len(stack) : \A k \in 1 .. stack[i].next_successor - 1 :
    \/ Seen(stack[i].block, k)
    \/ /\ i < Len(stack)
       /\ graph.successors[stack[i].block][k] = stack[i + 1].block

Ordered ==
  \A i \in 1 .. Len(finished) : \A k \in DOMAIN graph.successors[finished[i]] :
    \/ <<finished[i], k>> \in loop_edges
    \/ \E j \in 1 .. i - 1 : finished[j] = graph.successors[finished[i]][k]

BlackFinished ==
  \A b \in Blocks(graph) :
    visits[b] = "black" => \E i \in 1 .. Len(finished) : finished[i] = b

Reached ==
  \A b \in Blocks(graph) :
    /\ b < start => visits[b] # "white"
    /\ visits[b] = "gray" => \E i \in 1 .. Len(stack) : stack[i].block = b

CutInv == Looked /\ Ordered /\ BlackFinished /\ Reached

LEMMA InitCut == Init => CutInv
  <1> SUFFICES ASSUME Init PROVE CutInv
    OBVIOUS
  <1>1. Looked /\ Ordered
    BY DEF Init, Looked, Ordered
  <1>2. BlackFinished /\ Reached
    BY DEF Init, BlackFinished, Reached, Blocks
  <1> QED
    BY <1>1, <1>2 DEF CutInv

(* A block enters the empty stack.                                         *)
LEMMA EnterCut == TypeOK /\ CutInv /\ Enter => CutInv'
  <1> SUFFICES ASSUME TypeOK, CutInv, Enter PROVE CutInv'
    OBVIOUS
  <1>1. /\ graph' = graph /\ loop_edges' = loop_edges /\ finished' = finished
        /\ stack = <<>>
        /\ start \in Blocks(graph) /\ start' = start + 1
        /\ visits[start] = "white"
        /\ visits' = [visits EXCEPT ![start] = "gray"]
        /\ stack' = <<Frame(start)>>
    BY DEF Enter, Start
  <1>2. /\ Len(stack') = 1 /\ stack'[1].block = start /\ stack'[1].next_successor = 1
    BY <1>1 DEF Frame
  <1>3. visits \in [Blocks(graph) -> {"white", "gray", "black"}]
    BY DEF TypeOK
  <1>4. Looked'
    BY <1>2 DEF Looked
  <1>5. Ordered'
    BY <1>1 DEF CutInv, Ordered
  <1>6. BlackFinished'
    BY <1>1, <1>3 DEF CutInv, BlackFinished
  <1>7. Reached'
    <2> SUFFICES ASSUME NEW b \in Blocks(graph)
                 PROVE  /\ b < start' => visits'[b] # "white"
                        /\ visits'[b] = "gray" => \E i \in 1 .. Len(stack') : stack'[i].block = b
      BY <1>1 DEF Reached
    <2>1. CASE b = start
      BY <2>1, <1>1, <1>2, <1>3
    <2>2. CASE b # start
      <3>1. visits'[b] = visits[b] /\ visits[b] # "gray"
        BY <2>2, <1>1, <1>3 DEF CutInv, Reached
      <3>2. b < start' => b < start
        BY <2>2, <1>1 DEF Blocks, TypeOK
      <3> QED
        BY <3>1, <3>2 DEF CutInv, Reached
    <2> QED
      BY <2>1, <2>2
  <1> QED
    BY <1>4, <1>5, <1>6, <1>7 DEF CutInv

(* A block that was reached before starts nothing.                         *)
LEMMA SkipCut == TypeOK /\ CutInv /\ Skip => CutInv'
  <1> SUFFICES ASSUME TypeOK, CutInv, Skip PROVE CutInv'
    OBVIOUS
  <1>1. /\ graph' = graph /\ loop_edges' = loop_edges /\ finished' = finished
        /\ stack' = stack /\ visits' = visits
        /\ start \in Blocks(graph) /\ start' = start + 1
        /\ visits[start] # "white"
    BY DEF Skip, Start
  <1>2. Looked' /\ Ordered' /\ BlackFinished'
    BY <1>1 DEF CutInv, Looked, Ordered, BlackFinished, Seen
  <1>3. Reached'
    <2> SUFFICES ASSUME NEW b \in Blocks(graph), b < start + 1 PROVE visits[b] # "white"
      BY <1>1 DEF CutInv, Reached
    <2>1. b < start \/ b = start
      BY <1>1 DEF Blocks
    <2> QED
      BY <1>1, <2>1 DEF CutInv, Reached
  <1> QED
    BY <1>2, <1>3 DEF CutInv

(* The innermost block is finished: every edge of it is settled.           *)
LEMMA LeaveCut == TypeOK /\ CutInv /\ Leave => CutInv'
  <1> SUFFICES ASSUME TypeOK, CutInv, Leave PROVE CutInv'
    OBVIOUS
  <1> DEFINE n == Len(stack)
             top == Top.block
  <1>1. /\ graph' = graph /\ loop_edges' = loop_edges /\ start' = start
        /\ stack # <<>>
        /\ Top.next_successor = Len(graph.successors[top]) + 1
        /\ visits' = [visits EXCEPT ![top] = "black"]
        /\ stack' = Popped
        /\ finished' = Append(finished, top)
    BY DEF Leave
  <1>2. n \in Nat \ {0} /\ top \in Blocks(graph) /\ Top = stack[n]
    BY <1>1, TopFacts
  <1>3. Len(stack') = n - 1 /\ \A i \in 1 .. n - 1 : stack'[i] = stack[i]
    BY <1>1, PoppedFacts
  <1>4. /\ visits \in [Blocks(graph) -> {"white", "gray", "black"}]
        /\ finished \in Seq(Blocks(graph))
    BY DEF TypeOK
  <1>5. /\ visits'[top] = "black"
        /\ \A b \in Blocks(graph) : b # top => visits'[b] = visits[b]
        /\ \A b \in Blocks(graph) : visits[b] = "black" => visits'[b] = "black"
    BY <1>1, <1>2, <1>4
  <1>6. /\ Len(finished) \in Nat
        /\ Len(finished') = Len(finished) + 1
        /\ finished'[Len(finished) + 1] = top
        /\ \A i \in 1 .. Len(finished) : finished'[i] = finished[i] /\ finished[i] \in Blocks(graph)
    BY <1>1, <1>2, <1>4
  <1>7. stack \in Seq(Frames) /\ \A i \in 1 .. n : stack[i].block \in Blocks(graph)
        /\ stack[i].next_successor \in Nat
    <2>1. stack \in Seq(Frames)
      BY DEF TypeOK, Frames
    <2>2. \A i \in 1 .. n : stack[i] \in Frames
      BY <2>1, <1>2
    <2> QED
      BY <2>1, <2>2 DEF Frames
  <1> HIDE DEF n, top
  <1>8. Looked'
    <2> SUFFICES ASSUME NEW i \in 1 .. n - 1, NEW k \in 1 .. stack[i].next_successor - 1
                 PROVE  \/ Seen(stack[i].block, k)'
                        \/ /\ i < n - 1
                           /\ graph.successors[stack[i].block][k] = stack'[i + 1].block
      BY <1>1, <1>3 DEF Looked, Seen
    <2>0. i \in 1 .. n /\ (i < n - 1 => i + 1 \in 1 .. n - 1) /\ (i >= n - 1 => i + 1 = n)
      BY <1>2
    <2>1. CASE Seen(stack[i].block, k)
      <3>1. CASE <<stack[i].block, k>> \in loop_edges
        BY <3>1, <1>1, <1>3 DEF Seen
      <3>2. CASE visits[graph.successors[stack[i].block][k]] = "black"
        <4>1. visits'[graph.successors[stack[i].block][k]] = "black"
          BY <3>2, <1>1, <1>4, <1>2
        <4> QED
          BY <4>1, <1>1, <1>3 DEF Seen
      <3> QED
        BY <2>1, <3>1, <3>2 DEF Seen
    <2>2. CASE graph.successors[stack[i].block][k] = stack[i + 1].block
      <3>1. CASE i < n - 1
        BY <2>0, <2>2, <3>1, <1>3
      <3>2. CASE i >= n - 1
        <4>1. graph.successors[stack[i].block][k] = top
          BY <2>0, <2>2, <3>2, <1>2 DEF top
        <4> QED
          BY <4>1, <1>1, <1>3, <1>5 DEF Seen
      <3> QED
        BY <3>1, <3>2, <1>2
    <2> QED
      BY <2>0, <2>1, <2>2 DEF CutInv, Looked, n
  <1>9. BlackFinished'
    <2> SUFFICES ASSUME NEW b \in Blocks(graph), visits'[b] = "black"
                 PROVE  \E i \in 1 .. Len(finished') : finished'[i] = b
      BY <1>1 DEF BlackFinished
    <2>1. CASE b = top
      BY <2>1, <1>6
    <2>2. CASE b # top
      <3>1. PICK i \in 1 .. Len(finished) : finished[i] = b
        BY <2>2, <1>5 DEF CutInv, BlackFinished
      <3> QED
        BY <3>1, <1>6
    <2> QED
      BY <2>1, <2>2
  <1>10. Ordered'
    <2>0. /\ graph' = graph /\ loop_edges' = loop_edges
          /\ Len(finished') = Len(finished) + 1
      BY <1>1, <1>6
    <2> SUFFICES ASSUME NEW i \in 1 .. Len(finished) + 1,
                        NEW k \in DOMAIN graph.successors[finished'[i]]
                 PROVE  \/ <<finished'[i], k>> \in loop_edges
                        \/ \E j \in 1 .. i - 1 : finished'[j] = graph.successors[finished'[i]][k]
      BY <2>0 DEF Ordered
    <2>1. CASE i \in 1 .. Len(finished)
      <3>1. finished'[i] = finished[i] /\ i - 1 <= Len(finished)
        BY <2>1, <1>6
      <3>2. \A j \in 1 .. i - 1 : finished'[j] = finished[j]
        BY <2>1, <1>6
      <3> QED
        BY <2>1, <3>1, <3>2 DEF CutInv, Ordered
    <2>2. CASE i = Len(finished) + 1
      <3>1. finished'[i] = top
        BY <2>2, <1>6
      <3>2. graph.successors[top][k] \in Blocks(graph) /\ k \in 1 .. Len(graph.successors[top])
            /\ Len(graph.successors[top]) \in Nat
        BY <3>1, <1>2, GraphFacts
      <3>3. k \in 1 .. stack[n].next_successor - 1 /\ stack[n].block = top
        BY <3>2, <1>1, <1>2 DEF top
      <3>4. Seen(top, k)
        <4>1. n \in 1 .. n /\ ~ (n < n)
          BY <1>2
        <4> QED
          BY <3>3, <4>1 DEF CutInv, Looked, n
      <3>5. CASE visits[graph.successors[top][k]] = "black"
        <4>1. PICK j \in 1 .. Len(finished) : finished[j] = graph.successors[top][k]
          BY <3>2, <3>5 DEF CutInv, BlackFinished
        <4>2. j \in 1 .. i - 1 /\ finished'[j] = graph.successors[top][k]
          BY <2>2, <4>1, <1>6
        <4> QED
          BY <4>2, <3>1
      <3> QED
        BY <3>1, <3>4, <3>5 DEF Seen
    <2> QED
      BY <2>1, <2>2, <1>6
  <1>11. Reached'
    <2> SUFFICES ASSUME NEW b \in Blocks(graph)
                 PROVE  /\ b < start => visits'[b] # "white"
                        /\ visits'[b] = "gray" => \E i \in 1 .. n - 1 : stack'[i].block = b
      BY <1>1, <1>3 DEF Reached
    <2>1. CASE b = top
      BY <2>1, <1>5
    <2>2. CASE b # top
      <3>1. visits'[b] = visits[b]
        BY <2>2, <1>5
      <3>2. ASSUME visits[b] = "gray"
            PROVE  \E i \in 1 .. n - 1 : stack'[i].block = b
        <4>1. PICK i \in 1 .. n : stack[i].block = b
          BY <3>2 DEF CutInv, Reached, n
        <4>2. i # n
          BY <4>1, <2>2, <1>2 DEF top
        <4>3. i \in 1 .. n - 1
          BY <4>1, <4>2, <1>2
        <4> QED
          BY <4>1, <4>3, <1>3
      <3> QED
        BY <3>1, <3>2 DEF CutInv, Reached
    <2> QED
      BY <2>1, <2>2
  <1> QED
    BY <1>8, <1>9, <1>10, <1>11 DEF CutInv

(* The edge followed leads to a white block, which is pushed: the edge is  *)
(* the one that leads to the new innermost frame.                          *)
LEMMA DescendCut == TypeOK /\ CutInv /\ Descend => CutInv'
  <1> SUFFICES ASSUME TypeOK, CutInv, Descend PROVE CutInv'
    OBVIOUS
  <1> DEFINE n == Len(stack)
             top == Top.block
             SeenNext(b, k) == \/ <<b, k>> \in loop_edges'
                               \/ visits'[graph.successors[b][k]] = "black"
  <1>1. /\ graph' = graph /\ start' = start /\ finished' = finished
        /\ stack # <<>>
        /\ Top.next_successor \in DOMAIN graph.successors[top]
        /\ loop_edges \subseteq loop_edges'
        /\ visits[Target] = "white"
        /\ visits' = [visits EXCEPT ![Target] = "gray"]
        /\ stack' = Append(Advanced, Frame(Target))
    BY DEF Descend, Follow, Target
  <1>2. n \in Nat \ {0} /\ top \in Blocks(graph) /\ Top = stack[n]
        /\ Target \in Blocks(graph) /\ Top.next_successor \in Nat \ {0}
    BY <1>1, TopFacts, GraphFacts DEF Target
  <1>3. /\ Len(stack') = n + 1
        /\ \A i \in 1 .. n - 1 : stack'[i] = stack[i]
        /\ stack'[n].block = top /\ stack'[n].next_successor = Top.next_successor + 1
        /\ stack'[n + 1] = Frame(Target)
    <2>1. /\ Advanced \in Seq(Frames) /\ Len(Advanced) = n
          /\ \A i \in 1 .. n - 1 : Advanced[i] = stack[i]
          /\ Advanced[n].block = top /\ Advanced[n].next_successor = Top.next_successor + 1
      BY <1>1, AdvancedFacts
    <2>2. /\ Len(stack') = Len(Advanced) + 1
          /\ \A i \in 1 .. Len(Advanced) : stack'[i] = Advanced[i]
          /\ stack'[Len(Advanced) + 1] = Frame(Target)
      BY <1>1, <1>2, <2>1, PushFacts
    <2> HIDE DEF n, top
    <2> QED
      BY <1>2, <2>1, <2>2
  <1>4. visits \in [Blocks(graph) -> {"white", "gray", "black"}]
    BY DEF TypeOK
  <1>5. /\ visits'[Target] = "gray"
        /\ \A b \in Blocks(graph) : b # Target => visits'[b] = visits[b]
        /\ \A b : visits[b] = "black" => visits'[b] = "black"
    BY <1>1, <1>2, <1>4
  <1>6. \A b, k : Seen(b, k) => SeenNext(b, k)
    BY <1>1, <1>5 DEF Seen
  <1>7. graph.successors[top][Top.next_successor] = Target
    BY DEF Target
  <1>8. \A i \in 1 .. n : stack[i].next_successor \in Nat
    <2>1. stack \in Seq(Frames)
      BY DEF TypeOK, Frames
    <2>2. \A i \in 1 .. n : stack[i] \in Frames
      BY <2>1, <1>2
    <2> QED
      BY <2>2 DEF Frames
  <1>9. stack[n].block = top
    BY <1>2
  <1> HIDE DEF n, top, SeenNext
  <1>10. Looked'
    <2> SUFFICES ASSUME NEW i \in 1 .. n + 1, NEW k \in 1 .. stack'[i].next_successor - 1
                 PROVE  \/ SeenNext(stack'[i].block, k)
                        \/ /\ i < n + 1
                           /\ graph.successors[stack'[i].block][k] = stack'[i + 1].block
      BY <1>1, <1>3 DEF Looked, Seen, SeenNext
    <2>1. CASE i = n + 1
      BY <2>1, <1>3 DEF Frame
    <2>2. CASE i = n
      <3>1. k \in 1 .. Top.next_successor
        BY <2>2, <1>2, <1>3
      <3>2. CASE k = Top.next_successor
        BY <2>2, <3>2, <1>2, <1>3, <1>7 DEF Frame
      <3>3. CASE k # Top.next_successor
        <4>1. k \in 1 .. stack[n].next_successor - 1
          BY <3>1, <3>3, <1>2
        <4>2. n \in 1 .. n /\ ~ (n < n)
          BY <1>2
        <4>3. Seen(top, k)
          BY <4>1, <4>2, <1>9 DEF CutInv, Looked, n
        <4> QED
          BY <4>3, <2>2, <1>3, <1>6
      <3> QED
        BY <3>2, <3>3
    <2>3. CASE i \in 1 .. n - 1
      <3>1. stack'[i] = stack[i] /\ i \in 1 .. n
        BY <2>3, <1>2, <1>3
      <3>2. i + 1 \in 1 .. n /\ stack'[i + 1].block = stack[i + 1].block
        <4>1. i + 1 \in 1 .. n
          BY <2>3, <1>2
        <4>2. CASE i + 1 = n
          BY <4>2, <1>3, <1>9
        <4>3. CASE i + 1 # n
          <5>1. i + 1 \in 1 .. n - 1
            BY <4>1, <4>3, <1>2
          <5> QED
            BY <4>1, <5>1, <1>3
        <4> QED
          BY <4>1, <4>2, <4>3
      <3>3. \/ Seen(stack[i].block, k)
            \/ graph.successors[stack[i].block][k] = stack[i + 1].block
        BY <3>1 DEF CutInv, Looked, n
      <3>4. i < n + 1
        BY <2>3, <1>2
      <3> QED
        BY <3>1, <3>2, <3>3, <3>4, <1>6
    <2> QED
      BY <2>1, <2>2, <2>3, <1>2
  <1>11. Ordered'
    BY <1>1 DEF CutInv, Ordered
  <1>12. BlackFinished'
    BY <1>1, <1>5 DEF CutInv, BlackFinished
  <1>13. Reached'
    <2> SUFFICES ASSUME NEW b \in Blocks(graph)
                 PROVE  /\ b < start => visits'[b] # "white"
                        /\ visits'[b] = "gray" => \E i \in 1 .. n + 1 : stack'[i].block = b
      BY <1>1, <1>3 DEF Reached
    <2>1. CASE b = Target
      <3>1. n + 1 \in 1 .. n + 1 /\ stack'[n + 1].block = Target
        BY <1>2, <1>3 DEF Frame
      <3> QED
        BY <2>1, <3>1, <1>5
    <2>2. CASE b # Target
      <3>1. visits'[b] = visits[b]
        BY <2>2, <1>5
      <3>2. ASSUME visits[b] = "gray"
            PROVE  \E i \in 1 .. n + 1 : stack'[i].block = b
        <4>1. PICK i \in 1 .. n : stack[i].block = b
          BY <3>2 DEF CutInv, Reached, n
        <4>2. stack'[i].block = b
          <5>1. CASE i = n
            BY <4>1, <5>1, <1>3, <1>9
          <5>2. CASE i # n
            <6>1. i \in 1 .. n - 1
              BY <5>2, <1>2
            <6> QED
              BY <4>1, <6>1, <1>3
          <5> QED
            BY <5>1, <5>2
        <4>3. i \in 1 .. n + 1
          BY <1>2
        <4> QED
          BY <4>2, <4>3
      <3> QED
        BY <3>1, <3>2 DEF CutInv, Reached
    <2> QED
      BY <2>1, <2>2
  <1> QED
    BY <1>10, <1>11, <1>12, <1>13 DEF CutInv

(* The edge followed leads to a gray block and is marked, or to a black    *)
(* one.                                                                    *)
LEMMA PassCut == TypeOK /\ CutInv /\ Pass => CutInv'
  <1> SUFFICES ASSUME TypeOK, CutInv, Pass PROVE CutInv'
    OBVIOUS
  <1> DEFINE n == Len(stack)
             top == Top.block
             SeenNext(b, k) == \/ <<b, k>> \in loop_edges'
                               \/ visits'[graph.successors[b][k]] = "black"
  <1>1. /\ graph' = graph /\ start' = start /\ finished' = finished /\ visits' = visits
        /\ stack # <<>>
        /\ loop_edges \subseteq loop_edges'
        /\ visits[Target] = "gray" => <<top, Top.next_successor>> \in loop_edges'
        /\ visits[Target] # "white"
        /\ Top.next_successor \in DOMAIN graph.successors[top]
        /\ stack' = Advanced
    BY DEF Pass, Follow, Target, ClosesLoop
  <1>2. n \in Nat \ {0} /\ top \in Blocks(graph) /\ Top = stack[n]
        /\ Target \in Blocks(graph) /\ Top.next_successor \in Nat \ {0}
    BY <1>1, TopFacts, GraphFacts DEF Target
  <1>3. /\ Len(stack') = n
        /\ \A i \in 1 .. n - 1 : stack'[i] = stack[i]
        /\ stack'[n].block = top /\ stack'[n].next_successor = Top.next_successor + 1
    BY <1>1, AdvancedFacts
  <1>4. \A b, k : Seen(b, k) => SeenNext(b, k)
    BY <1>1 DEF Seen
  <1>5. SeenNext(top, Top.next_successor)
    <2>1. visits[Target] \in {"white", "gray", "black"}
      BY <1>2 DEF TypeOK
    <2> QED
      BY <1>1, <2>1 DEF Target
  <1>6. stack[n].block = top
    BY <1>2
  <1>7. \A i \in 1 .. n : stack'[i].block = stack[i].block
    <2> SUFFICES ASSUME NEW i \in 1 .. n PROVE stack'[i].block = stack[i].block
      OBVIOUS
    <2>1. CASE i = n
      BY <2>1, <1>3, <1>6
    <2>2. CASE i # n
      <3> HIDE DEF n
      <3>1. i \in 1 .. n - 1
        BY <2>2, <1>2
      <3> QED
        BY <3>1, <1>3
    <2> QED
      BY <2>1, <2>2
  <1> HIDE DEF n, top, SeenNext
  <1>10. Looked'
    <2> SUFFICES ASSUME NEW i \in 1 .. n, NEW k \in 1 .. stack'[i].next_successor - 1
                 PROVE  \/ SeenNext(stack'[i].block, k)
                        \/ /\ i < n
                           /\ graph.successors[stack'[i].block][k] = stack'[i + 1].block
      BY <1>1, <1>3 DEF Looked, Seen, SeenNext
    <2>2. CASE i = n
      <3>1. k \in 1 .. Top.next_successor
        BY <2>2, <1>2, <1>3
      <3>2. CASE k = Top.next_successor
        BY <2>2, <3>2, <1>3, <1>5
      <3>3. CASE k # Top.next_successor
        <4>1. k \in 1 .. stack[n].next_successor - 1
          BY <3>1, <3>3, <1>2
        <4>2. n \in 1 .. n /\ ~ (n < n)
          BY <1>2
        <4>3. Seen(top, k)
          BY <4>1, <4>2, <1>6 DEF CutInv, Looked, n
        <4> QED
          BY <4>3, <2>2, <1>3, <1>4
      <3> QED
        BY <3>2, <3>3
    <2>3. CASE i # n
      <3>1. i \in 1 .. n - 1 /\ i + 1 \in 1 .. n /\ i < n
        BY <2>3, <1>2
      <3>2. k \in 1 .. stack[i].next_successor - 1
        BY <3>1, <1>3
      <3>3. \/ Seen(stack[i].block, k)
            \/ graph.successors[stack[i].block][k] = stack[i + 1].block
        BY <3>2 DEF CutInv, Looked, n
      <3> QED
        BY <3>1, <3>3, <1>4, <1>7
    <2> QED
      BY <2>2, <2>3
  <1>11. Ordered'
    BY <1>1 DEF CutInv, Ordered
  <1>12. BlackFinished'
    BY <1>1 DEF CutInv, BlackFinished
  <1>13. Reached'
    BY <1>1, <1>3, <1>7 DEF CutInv, Reached, n
  <1> QED
    BY <1>10, <1>11, <1>12, <1>13 DEF CutInv

LEMMA NextCut == TypeOK /\ CutInv /\ [Next]_vars => CutInv'
  <1> SUFFICES ASSUME TypeOK, CutInv, [Next]_vars PROVE CutInv'
    OBVIOUS
  <1>1. CASE UNCHANGED vars
    BY <1>1 DEF vars, CutInv, Looked, Seen, Ordered, BlackFinished, Reached
  <1> QED
    BY <1>1, NextCases, EnterCut, SkipCut, LeaveCut, DescendCut, PassCut

(* A set of natural numbers that is not empty has a least element.         *)
LEMMA Least ==
  ASSUME NEW S, S \subseteq Nat, S # {}
  PROVE  \E m \in S : \A x \in S : m <= x
  <1>1. PICK m \in S : \A x \in S : ~ (<<x, m>> \in OpToRel(<, Nat))
    BY NatLessThanWellFounded, WFMin
  <1>2. \A x \in S : ~ (x < m)
    BY <1>1 DEF OpToRel
  <1>3. m \in Nat /\ \A x \in S : x \in Nat
    OBVIOUS
  <1>4. \A x \in S : m <= x
    BY <1>2, <1>3
  <1> QED
    BY <1>4

(* No set of blocks is left where every block has an unmarked edge to one  *)
(* of the set: the one that was finished first has none.                   *)
NoneCircular ==
  Done => \A S \in SUBSET Blocks(graph) :
            S # {} => \E b \in S : \A c \in S : ~ Unmarked(b, c)

LEMMA NoneCircularWhenDone == TypeOK /\ CutInv => NoneCircular
  <1> SUFFICES ASSUME TypeOK, CutInv, Done,
                      NEW S \in SUBSET Blocks(graph), S # {},
                      \A b \in S : \E c \in S : Unmarked(b, c)
               PROVE  FALSE
    BY DEF NoneCircular
  <1>1. \A b \in Blocks(graph) : \E i \in 1 .. Len(finished) : finished[i] = b
    <2> SUFFICES ASSUME NEW b \in Blocks(graph)
                 PROVE  \E i \in 1 .. Len(finished) : finished[i] = b
      OBVIOUS
    <2>1. b < start /\ Len(stack) = 0
      BY GraphFacts DEF Done, Blocks
    <2>2. visits[b] = "black"
      BY <2>1 DEF CutInv, Reached, TypeOK
    <2> QED
      BY <2>2 DEF CutInv, BlackFinished
  <1>2. Len(finished) \in Nat
    <2>1. finished \in Seq(Blocks(graph))
      BY DEF TypeOK
    <2> QED
      BY <2>1
  <1> DEFINE positions == {i \in 1 .. Len(finished) : finished[i] \in S}
  <1>3. positions \subseteq Nat /\ positions # {}
    BY <1>1, <1>2
  <1>4. PICK i \in positions : \A x \in positions : i <= x
    BY <1>3, Least
  <1>5. i \in 1 .. Len(finished) /\ finished[i] \in S
    OBVIOUS
  <1>6. PICK c \in S : Unmarked(finished[i], c)
    BY <1>5
  <1>7. PICK k \in DOMAIN graph.successors[finished[i]] :
          graph.successors[finished[i]][k] = c /\ <<finished[i], k>> \notin loop_edges
    BY <1>6 DEF Unmarked
  <1>8. PICK j \in 1 .. i - 1 : finished[j] = c
    BY <1>5, <1>7 DEF CutInv, Ordered
  <1>9. j \in positions /\ j < i
    BY <1>2, <1>5, <1>8
  <1> QED
    BY <1>2, <1>4, <1>5, <1>9

(* The blocks of a cycle are such a set.                                   *)
LEMMA CutWhenDone == TypeOK /\ CutInv => EveryCycleCut
  <1> SUFFICES ASSUME TypeOK, CutInv, Done,
                      NEW n \in Blocks(graph), NEW cycle \in [1..n -> Blocks(graph)],
                      \A i \in 1..n : Unmarked(cycle[i], cycle[IF i = n THEN 1 ELSE i + 1])
               PROVE  FALSE
    BY DEF EveryCycleCut
  <1>1. n \in Nat /\ n >= 1
    BY GraphFacts DEF Blocks
  <1> DEFINE S == {cycle[i] : i \in 1 .. n}
  <1>2. S \in SUBSET Blocks(graph) /\ cycle[1] \in S
    BY <1>1
  <1>3. PICK b \in S : \A c \in S : ~ Unmarked(b, c)
    BY <1>2, NoneCircularWhenDone DEF NoneCircular
  <1>4. PICK i \in 1 .. n : b = cycle[i]
    OBVIOUS
  <1>5. (IF i = n THEN 1 ELSE i + 1) \in 1 .. n
    BY <1>1
  <1>6. cycle[IF i = n THEN 1 ELSE i + 1] \in S
    BY <1>5
  <1> QED
    BY <1>3, <1>4, <1>6

(* Every cycle of every graph crosses an edge the search has marked.       *)
THEOREM CyclesCut == (\A g \in Graphs : IsGraph(g)) => (Spec => []EveryCycleCut)
  <1>1. (\A g \in Graphs : IsGraph(g)) /\ Init => TypeOK /\ CutInv
    BY InitType, InitCut
  <1>2. TypeOK /\ CutInv /\ [Next]_vars => (TypeOK /\ CutInv)'
    BY NextType, NextCut
  <1>3. TypeOK /\ CutInv => EveryCycleCut
    BY CutWhenDone
  <1> QED
    BY <1>1, <1>2, <1>3, PTL DEF Spec

(* The same of sets of blocks, which is what walks along the edges need.   *)
LEMMA NothingCircular == (\A g \in Graphs : IsGraph(g)) => (Spec => []NoneCircular)
  <1>1. (\A g \in Graphs : IsGraph(g)) /\ Init => TypeOK /\ CutInv
    BY InitType, InitCut
  <1>2. TypeOK /\ CutInv /\ [Next]_vars => (TypeOK /\ CutInv)'
    BY NextType, NextCut
  <1>3. TypeOK /\ CutInv => NoneCircular
    BY NoneCircularWhenDone
  <1> QED
    BY <1>1, <1>2, <1>3, PTL DEF Spec

-----------------------------------------------------------------------------
(* Marked edges close cycles.  A block on the stack leads to every block   *)
(* above it; an edge is marked when its target is on the stack.            *)

OnPath ==
  \A i, j \in 1 .. Len(stack) : i <= j => LeadsTo(graph, stack[i].block, stack[j].block)

MarkInv == OnPath /\ MarksCloseCycles

LEMMA LeadsOn ==
  ASSUME NEW g, NEW b, NEW c, LeadsTo(g, b, c),
         \A d \in Blocks(g) : \A k \in DOMAIN g.successors[d] : g.successors[d][k] \in Blocks(g),
         c \in Blocks(g), NEW k \in DOMAIN g.successors[c]
  PROVE  LeadsTo(g, b, g.successors[c][k])
  BY DEF LeadsTo, Closed

LEMMA LeadsToItself ==
  ASSUME NEW g, NEW b PROVE LeadsTo(g, b, b)
  BY DEF LeadsTo

LEMMA InitMark == Init => MarkInv
  BY DEF Init, MarkInv, OnPath, MarksCloseCycles

(* The stack grows by a block that the innermost one leads to.             *)
LEMMA DescendMark == TypeOK /\ MarkInv /\ Descend => MarkInv'
  <1> SUFFICES ASSUME TypeOK, MarkInv, Descend PROVE MarkInv'
    OBVIOUS
  <1> DEFINE n == Len(stack)
  <1>1. /\ graph' = graph /\ loop_edges' = loop_edges
        /\ stack # <<>>
        /\ Top.next_successor \in DOMAIN graph.successors[Top.block]
        /\ stack' = Append(Advanced, Frame(Target))
    BY DEF Descend, Follow, Target, ClosesLoop
  <1>2. /\ n \in Nat \ {0} /\ Top = stack[n] /\ Top.block \in Blocks(graph)
        /\ Target \in Blocks(graph)
    BY <1>1, TopFacts, GraphFacts DEF Target
  <1>3. /\ Len(stack') = n + 1
        /\ \A i \in 1 .. n : stack'[i].block = stack[i].block
        /\ stack'[n + 1].block = Target
    <2>1. /\ Advanced \in Seq(Frames) /\ Len(Advanced) = n
          /\ \A i \in 1 .. n - 1 : Advanced[i] = stack[i]
          /\ Advanced[n].block = stack[n].block
      BY <1>1, <1>2, AdvancedFacts
    <2>2. /\ Len(stack') = n + 1
          /\ \A i \in 1 .. n : stack'[i] = Advanced[i]
          /\ stack'[n + 1] = Frame(Target)
      BY <1>1, <1>2, <2>1, PushFacts
    <2>3. \A i \in 1 .. n : i \in 1 .. n - 1 \/ i = n
      BY <1>2
    <2> QED
      BY <2>1, <2>2, <2>3 DEF Frame
  <1>4. \A d \in Blocks(graph) :
          \A k \in DOMAIN graph.successors[d] : graph.successors[d][k] \in Blocks(graph)
    BY GraphFacts
  <1> HIDE DEF n
  <1>5. ASSUME NEW i \in 1 .. n + 1, NEW j \in 1 .. n + 1, i <= j
        PROVE  LeadsTo(graph, stack'[i].block, stack'[j].block)
    <2>1. CASE j <= n
      <3>1. i \in 1 .. n /\ j \in 1 .. n
        BY <1>2, <1>5, <2>1
      <3> QED
        BY <1>3, <1>5, <3>1 DEF MarkInv, OnPath, n
    <2>2. CASE i <= n /\ j = n + 1
      <3>1. i \in 1 .. n /\ n \in 1 .. n /\ i <= n
        BY <1>2, <2>2
      <3>2. LeadsTo(graph, stack[i].block, Top.block)
        BY <1>2, <3>1 DEF MarkInv, OnPath, n
      <3>3. LeadsTo(graph, stack[i].block, Target)
        BY <1>1, <1>2, <1>4, <3>1, <3>2, LeadsOn DEF Target
      <3> QED
        BY <1>3, <2>2, <3>1, <3>3
    <2>3. CASE i = n + 1 /\ j = n + 1
      BY <2>3, LeadsToItself
    <2> QED
      BY <1>2, <1>5, <2>1, <2>2, <2>3
  <1>6. OnPath'
    BY <1>1, <1>3, <1>5 DEF OnPath
  <1>7. MarksCloseCycles'
    BY <1>1 DEF MarkInv, MarksCloseCycles
  <1> QED
    BY <1>6, <1>7 DEF MarkInv

(* An edge is marked only into a block of the stack.                       *)
LEMMA PassMark == TypeOK /\ CutInv /\ MarkInv /\ Pass => MarkInv'
  <1> SUFFICES ASSUME TypeOK, CutInv, MarkInv, Pass PROVE MarkInv'
    OBVIOUS
  <1> DEFINE n == Len(stack)
             edge == <<Top.block, Top.next_successor>>
  <1>1. /\ graph' = graph
        /\ stack # <<>>
        /\ Top.next_successor \in DOMAIN graph.successors[Top.block]
        /\ stack' = Advanced
        /\ loop_edges' = IF visits[Target] = "gray" THEN loop_edges \cup {edge} ELSE loop_edges
    BY DEF Pass, Follow, Target, ClosesLoop
  <1>2. /\ n \in Nat \ {0} /\ Top = stack[n] /\ Target \in Blocks(graph)
    BY <1>1, TopFacts, GraphFacts DEF Target
  <1>3. Len(stack') = n /\ \A i \in 1 .. n : stack'[i].block = stack[i].block
    <2>1. /\ Len(Advanced) = n
          /\ \A i \in 1 .. n - 1 : Advanced[i] = stack[i]
          /\ Advanced[n].block = stack[n].block
      BY <1>1, <1>2, AdvancedFacts
    <2>2. \A i \in 1 .. n : i \in 1 .. n - 1 \/ i = n
      BY <1>2
    <2> QED
      BY <1>1, <2>1, <2>2
  <1> HIDE DEF n
  <1>4. OnPath'
    BY <1>1, <1>3 DEF MarkInv, OnPath, n
  <1>5. visits[Target] = "gray" => LeadsTo(graph, Target, Top.block)
    <2> SUFFICES ASSUME visits[Target] = "gray" PROVE LeadsTo(graph, Target, Top.block)
      OBVIOUS
    <2>1. PICK i \in 1 .. n : stack[i].block = Target
      BY <1>2 DEF CutInv, Reached, n
    <2>2. i <= n /\ n \in 1 .. n
      BY <1>2
    <2> QED
      BY <1>2, <2>1, <2>2 DEF MarkInv, OnPath, n
  <1>6. \A e \in loop_edges' : LeadsTo(graph, graph.successors[e[1]][e[2]], e[1])
    BY <1>1, <1>5 DEF MarkInv, MarksCloseCycles, Target
  <1>7. MarksCloseCycles'
    BY <1>1, <1>6 DEF MarksCloseCycles
  <1> QED
    BY <1>4, <1>7 DEF MarkInv

LEMMA NextMark == TypeOK /\ CutInv /\ MarkInv /\ [Next]_vars => MarkInv'
  <1> SUFFICES ASSUME TypeOK, CutInv, MarkInv, [Next]_vars PROVE MarkInv'
    OBVIOUS
  <1>1. CASE Enter
    <2>1. /\ graph' = graph /\ loop_edges' = loop_edges
          /\ stack' = <<Frame(start)>>
      BY <1>1 DEF Enter, Start
    <2>2. OnPath'
      BY <2>1, LeadsToItself DEF OnPath
    <2> QED
      BY <2>1, <2>2 DEF MarkInv, MarksCloseCycles
  <1>2. CASE Skip \/ UNCHANGED vars
    <2>1. graph' = graph /\ loop_edges' = loop_edges /\ stack' = stack
      BY <1>2 DEF Skip, Start, vars
    <2> QED
      BY <2>1 DEF MarkInv, OnPath, MarksCloseCycles
  <1>3. CASE Leave
    <2>1. /\ graph' = graph /\ loop_edges' = loop_edges
          /\ stack # <<>> /\ stack' = Popped
      BY <1>3 DEF Leave
    <2>2. /\ Len(stack') = Len(stack) - 1 /\ Len(stack) \in Nat
          /\ \A i \in 1 .. Len(stack) - 1 : stack'[i] = stack[i]
      BY <2>1, PoppedFacts, TopFacts
    <2>3. \A i \in 1 .. Len(stack) - 1 : i \in 1 .. Len(stack)
      BY <2>2
    <2>4. OnPath'
      BY <2>1, <2>2, <2>3 DEF MarkInv, OnPath
    <2> QED
      BY <2>1, <2>4 DEF MarkInv, MarksCloseCycles
  <1> QED
    BY <1>1, <1>2, <1>3, DescendMark, PassMark, NextCases

(* Whatever the graph, a marked edge closes a cycle: its target leads back *)
(* to its source, so that a graph without cycles has no mark.              *)
THEOREM MarksAreCycles == (\A g \in Graphs : IsGraph(g)) => (Spec => []MarksCloseCycles)
  <1>1. (\A g \in Graphs : IsGraph(g)) /\ Init => TypeOK /\ CutInv /\ MarkInv
    BY InitType, InitCut, InitMark
  <1>2. TypeOK /\ CutInv /\ MarkInv /\ [Next]_vars => (TypeOK /\ CutInv /\ MarkInv)'
    BY NextType, NextCut, NextMark
  <1>3. MarkInv => MarksCloseCycles
    BY DEF MarkInv
  <1> QED
    BY <1>1, <1>2, <1>3, PTL DEF Spec
=============================================================================
