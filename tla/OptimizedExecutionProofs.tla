---------------------- MODULE OptimizedExecutionProofs ----------------------
(***************************************************************************)
(* For every set of verified functions: no reference to a removed block    *)
(* survives at any moment of the cleanup, and the optimized function goes  *)
(* through the blocks the original goes through and reads the same values. *)
(*                                                                         *)
(* The invariant that carries the second theorem is a map from the blocks  *)
(* of the original to those where the cleanup lets their predecessors go:  *)
(* the identity on the blocks kept, and constant along the blocks removed. *)
(*                                                                         *)
(* The third rests on what a replaced value and the end of its chain of    *)
(* copies have in common: the end is defined above, and neither is         *)
(* assigned where the other is still seen, so that the two are equal in    *)
(* every run from the moment the replaced one is.  The lemmas before it    *)
(* are about iterated functions, subsequences, concatenation, dominance,   *)
(* substitutions, the inventory of the pass and the blocks left.           *)
(*                                                                         *)
(* The fourth, that the verifier accepts what is left, adds that no pass   *)
(* makes a way around a kept block, so that dominance survives; the fifth, *)
(* that nothing is left to propagate, that a candidate which is not queued *)
(* need not be looked at again before one of its inputs changes.           *)
(***************************************************************************)
EXTENDS OptimizedExecution, FiniteSetTheorems, WellFoundedInduction, TLAPS

(* What the passes do not touch, and which blocks there are.               *)
Frame ==
  /\ original \in Programs
  /\ DOMAIN program = Fields
  /\ pass \in {"mir-copy-propagation", "mir-cfg-cleanup", "done"}
  /\ pass = "mir-copy-propagation" => program = original /\ kept = original.blocks
  /\ kept \subseteq original.blocks
  /\ kept \subseteq program.blocks
  /\ program.entry = original.entry
  /\ program.retained = original.retained

(* The terminators and handlers of the kept blocks.                        *)
Terminators ==
  \A b \in kept :
    /\ program.kind[b] = original.kind[b]
    /\ program.handler[b] = original.handler[b]
    /\ DOMAIN program.next[b] = DOMAIN original.next[b]

(* Removed blocks had no exception edge.                                   *)
NoHandlerLost == \A b \in original.blocks \ kept : original.handler[b] = NoBlock

Graph == Frame /\ Terminators /\ NothingDangles /\ NoHandlerLost

(* Where the passes lead the edges to the blocks of the original.          *)
Leads(f) ==
  /\ f \in [original.blocks -> original.blocks]
  /\ \A b \in kept : f[b] = b
  /\ \A b \in original.blocks \ kept :
       /\ \A i \in DOMAIN original.next[b] : f[original.next[b][i]] = f[b]
       /\ original.next[b] = <<>> => f[b] = b
  /\ \A a \in kept : \A i \in DOMAIN original.next[a] :
       program.next[a][i] = f[original.next[a][i]]

Twins(f) ==
  /\ at # NoBlock => at \in original.blocks /\ twinAt = f[at]
  /\ at = NoBlock => twinAt = NoBlock

(* Nothing runs before the pipeline is through.                            *)
Waiting == pass # "done" => at = original.entry /\ twinAt = original.entry

Paths == Waiting /\ \E f : Leads(f) /\ Twins(f)

-----------------------------------------------------------------------------
LEMMA ProgramFacts ==
  ASSUME NEW p \in Programs
  PROVE  /\ DOMAIN p = Fields
         /\ p.blocks \subseteq Nat
         /\ NoBlock \notin p.blocks
         /\ p.entry \in p.blocks
         /\ p.retained \subseteq p.blocks
         /\ \A b \in p.blocks : \A i \in DOMAIN p.next[b] : p.next[b][i] \in p.blocks
         /\ \A b \in p.blocks : p.handler[b] \in p.blocks \cup {NoBlock}
         /\ \A b \in p.blocks : p.kind[b] = "unreachable" => p.next[b] = <<>>
         /\ \A b \in p.blocks : p.kind[b] = "branch" => DOMAIN p.next[b] = {1}
<1>1. IsProgram(p) /\ Verified(p)
  BY ProgramsAssumption
<1>2. p.entry \in p.blocks /\ p.retained \subseteq p.blocks /\ EdgesFit(p)
  BY <1>1 DEF Verified
<1>3. DOMAIN p = Fields /\ p.blocks \subseteq Nat /\ NoBlock \notin p.blocks
  <2>. DEFINE N == Cardinality(p.blocks)
  <2>1. DOMAIN p = Fields /\ p.blocks = 1..N /\ NoBlock \notin p.blocks /\ IsFiniteSet(p.blocks)
    BY <1>1 DEF IsProgram
  <2>2. N \in Nat
    BY <2>1, FS_CardinalityType
  <2>. QED  BY <2>1, <2>2
<1>4. \A b \in p.blocks : \A i \in DOMAIN p.next[b] : p.next[b][i] \in p.blocks
  BY <1>2 DEF EdgesFit
<1>5. \A b \in p.blocks : p.handler[b] \in p.blocks \cup {NoBlock}
  BY <1>2 DEF EdgesFit
<1>6. ASSUME NEW b \in p.blocks, p.kind[b] = "unreachable"
      PROVE  p.next[b] = <<>>
  BY <1>2, <1>6 DEF EdgesFit, TerminatorFits
<1>7. ASSUME NEW b \in p.blocks, p.kind[b] = "branch"
      PROVE  DOMAIN p.next[b] = {1}
  <2>1. Len(p.next[b]) = 1
    BY <1>2, <1>7 DEF EdgesFit, TerminatorFits
  <2>2. p.next[b] \in Seq(Nat)
    BY <1>1 DEF IsProgram
  <2>. QED  BY <2>1, <2>2
<1>. QED  BY <1>2, <1>3, <1>4, <1>5, <1>6, <1>7

LEMMA GraphInitially == Init => Graph
<1>. SUFFICES ASSUME Init PROVE Graph
  OBVIOUS
<1>1. original \in Programs /\ program = original /\ kept = original.blocks
  BY DEF Init
<1>2. Frame
  BY <1>1, ProgramFacts DEF Init, Frame
<1>3. Terminators /\ NoHandlerLost
  BY <1>1 DEF Terminators, NoHandlerLost
<1>4. NothingDangles
  BY <1>1, ProgramFacts DEF NothingDangles
<1>. QED  BY <1>2, <1>3, <1>4 DEF Graph

(* The only thing copy propagation changes here are values.                *)
LEMMA PropagationKeepsGraph ==
  ASSUME Frame, pass = "mir-copy-propagation", Propagate
  PROVE  /\ DOMAIN program' = Fields
         /\ program'.blocks = program.blocks
         /\ program'.entry = program.entry
         /\ program'.retained = program.retained
         /\ program'.next = program.next
         /\ program'.handler = program.handler
         /\ program'.kind = program.kind
<1>1. DOMAIN program = Fields
  BY DEF Frame
<1>2. CASE program' = program
  BY <1>1, <1>2
<1>3. CASE program' = Propagated(program, substitution)
  BY <1>1, <1>3 DEF Propagated, Fields
<1>. QED  BY <1>2, <1>3 DEF Propagate

LEMMA CopyKeepsGraph ==
  ASSUME Graph, CopyNext, UNCHANGED <<kept, original>>
  PROVE  Graph' /\ program'.next = program.next
<1>1. CASE Keep \/ Replace
  <2>1. UNCHANGED <<program, pass>>
    BY <1>1 DEF Keep, Replace
  <2>. QED  BY <2>1 DEF Graph, Frame, Terminators, NothingDangles, NoHandlerLost
<1>2. CASE Propagate
  <2>1. pass = "mir-copy-propagation" /\ pass' = "mir-cfg-cleanup"
    BY <1>2 DEF Propagate
  <2>2. /\ DOMAIN program' = Fields
        /\ program'.blocks = program.blocks
        /\ program'.entry = program.entry
        /\ program'.retained = program.retained
        /\ program'.next = program.next
        /\ program'.handler = program.handler
        /\ program'.kind = program.kind
    BY <1>2, <2>1, PropagationKeepsGraph DEF Graph
  <2>3. Frame'
    BY <2>1, <2>2 DEF Graph, Frame
  <2>4. Terminators' /\ NothingDangles' /\ NoHandlerLost'
    BY <2>2 DEF Graph, Terminators, NothingDangles, NoHandlerLost
  <2>. QED  BY <2>2, <2>3, <2>4 DEF Graph
<1>. QED  BY <1>1, <1>2 DEF CopyNext

-----------------------------------------------------------------------------
(* Taking out one block.                                                   *)

LEMMA RemovedBlock ==
  ASSUME Graph, NEW b \in kept, FirstRemovable(program, b)
  PROVE  /\ b \notin {program.entry} \cup program.retained
         /\ original.handler[b] = NoBlock
         /\ \A a \in kept : program.handler[a] # b
         /\ \/ Forwarding(program, b)
            \/ /\ ~ Forwarding(program, b)
               /\ original.next[b] = <<>>
               /\ \A a \in kept : \A i \in DOMAIN program.next[a] : program.next[a][i] # b
<1>1. b \notin {program.entry} \cup Structural(program)
  BY DEF FirstRemovable, Removable
<1>2. b \notin {program.entry} \cup program.retained
  BY <1>1 DEF Structural
<1>3. \A a \in kept : program.handler[a] # NoBlock => HasHandler(program, a)
  BY DEF Graph, NothingDangles, HasHandler
<1>4. ~ HasHandler(program, b)
  BY <1>1 DEF Structural
<1>5. original.handler[b] = NoBlock
  BY <1>3, <1>4 DEF Graph, Terminators
<1>6. NoBlock \notin original.blocks
  BY ProgramFacts DEF Graph, Frame
<1>7. ASSUME NEW a \in kept, program.handler[a] = b
      PROVE  FALSE
  <2>1. HasHandler(program, a)
    BY <1>3, <1>6, <1>7 DEF Graph, Frame
  <2>. QED  BY <1>1, <1>7, <2>1 DEF Structural
<1>8. CASE Forwarding(program, b)
  BY <1>2, <1>5, <1>7, <1>8
<1>9. CASE ~ Forwarding(program, b)
  <2>1. UnreachableEmpty(program, b)
    BY <1>9 DEF FirstRemovable, Removable
  <2>2. original.next[b] = <<>>
    BY <2>1, ProgramFacts DEF UnreachableEmpty, Graph, Frame, Terminators
  <2>3. \A a \in kept : \A i \in DOMAIN program.next[a] : program.next[a][i] # b
    BY <2>1 DEF UnreachableEmpty, HasPredecessor, Flows
  <2>. QED  BY <1>2, <1>5, <1>7, <1>9, <2>2, <2>3
<1>. QED  BY <1>8, <1>9

LEMMA RemovalEffect ==
  ASSUME Graph, NEW b \in kept, FirstRemovable(program, b),
         program' = [program EXCEPT !.next = Redirected(program, b)]
  PROVE  /\ DOMAIN program' = Fields
         /\ program'.blocks = program.blocks
         /\ program'.entry = program.entry
         /\ program'.retained = program.retained
         /\ program'.handler = program.handler
         /\ program'.kind = program.kind
         /\ \A a \in kept \ {b} :
              /\ DOMAIN program'.next[a] = DOMAIN program.next[a]
              /\ \A i \in DOMAIN program.next[a] :
                   program'.next[a][i] = IF program.next[a][i] = b THEN program.next[b][1]
                                                                   ELSE program.next[a][i]
<1>1. DOMAIN program = Fields /\ kept \subseteq program.blocks
  BY DEF Graph, Frame
<1>2. /\ DOMAIN program' = Fields
      /\ program'.blocks = program.blocks
      /\ program'.entry = program.entry
      /\ program'.retained = program.retained
      /\ program'.handler = program.handler
      /\ program'.kind = program.kind
      /\ program'.next = Redirected(program, b)
  BY <1>1 DEF Fields
<1>3. CASE Forwarding(program, b)
  <2>1. \A a \in kept \ {b} :
          Redirected(program, b)[a] =
            [i \in DOMAIN program.next[a] |->
               IF program.next[a][i] = b THEN program.next[b][1] ELSE program.next[a][i]]
    BY <1>1, <1>3 DEF Redirected
  <2>2. ASSUME NEW a \in kept \ {b}
        PROVE  /\ DOMAIN program'.next[a] = DOMAIN program.next[a]
               /\ \A i \in DOMAIN program.next[a] :
                    program'.next[a][i] = IF program.next[a][i] = b THEN program.next[b][1]
                                                                    ELSE program.next[a][i]
    <3>1. program'.next[a] =
            [i \in DOMAIN program.next[a] |->
               IF program.next[a][i] = b THEN program.next[b][1] ELSE program.next[a][i]]
      BY <1>2, <2>1
    <3>. QED  BY <3>1
  <2>. QED  BY <1>2, <2>2
<1>4. CASE ~ Forwarding(program, b)
  <2>1. program'.next = program.next
    BY <1>2, <1>4 DEF Redirected
  <2>2. \A a \in kept : \A i \in DOMAIN program.next[a] : program.next[a][i] # b
    BY <1>4, RemovedBlock
  <2>. QED  BY <1>2, <2>1, <2>2
<1>. QED  BY <1>3, <1>4

LEMMA RemovalKeepsGraph ==
  ASSUME Graph, RemoveBlock, original' = original
  PROVE  Graph'
<1>1. PICK b \in kept :
        /\ FirstRemovable(program, b)
        /\ program' = [program EXCEPT !.next = Redirected(program, b)]
        /\ kept' = kept \ {b}
  BY DEF RemoveBlock
<1>2. pass = "mir-cfg-cleanup" /\ pass' = pass
  BY DEF RemoveBlock
<1>3. /\ DOMAIN program' = Fields
      /\ program'.blocks = program.blocks
      /\ program'.entry = program.entry
      /\ program'.retained = program.retained
      /\ program'.handler = program.handler
      /\ program'.kind = program.kind
  BY <1>1, RemovalEffect
<1>4. \A a \in kept \ {b} :
        /\ DOMAIN program'.next[a] = DOMAIN program.next[a]
        /\ \A i \in DOMAIN program.next[a] :
             program'.next[a][i] = IF program.next[a][i] = b THEN program.next[b][1]
                                                             ELSE program.next[a][i]
  BY <1>1, RemovalEffect
<1>5. /\ b \notin {program.entry} \cup program.retained
      /\ original.handler[b] = NoBlock
      /\ \A a \in kept : program.handler[a] # b
      /\ \/ Forwarding(program, b)
         \/ \A a \in kept : \A i \in DOMAIN program.next[a] : program.next[a][i] # b
  BY <1>1, RemovedBlock
<1>6. Frame'
  BY <1>1, <1>2, <1>3 DEF Graph, Frame
<1>7. Terminators'
  BY <1>1, <1>3, <1>4 DEF Graph, Terminators
<1>8. NoHandlerLost'
  BY <1>1, <1>5 DEF Graph, NoHandlerLost
<1>9. NothingDangles'
  <2>1. program'.entry \in kept' /\ program'.retained \subseteq kept'
    BY <1>1, <1>3, <1>5 DEF Graph, NothingDangles
  <2>2. \A a \in kept' : program'.handler[a] \in kept' \cup {NoBlock}
    BY <1>1, <1>3, <1>5 DEF Graph, NothingDangles
  <2>3. ASSUME NEW a \in kept', NEW i \in DOMAIN program'.next[a]
        PROVE  program'.next[a][i] \in kept'
    <3>1. a \in kept \ {b} /\ i \in DOMAIN program.next[a] /\ program.next[a][i] \in kept
      BY <1>1, <1>4 DEF Graph, NothingDangles
    <3>2. CASE program.next[a][i] # b
      BY <1>1, <1>4, <3>1, <3>2
    <3>3. CASE program.next[a][i] = b
      <4>1. Forwarding(program, b)
        BY <1>5, <3>1, <3>3
      <4>2. program.next[b][1] \in kept \ {b}
        BY <4>1 DEF Forwarding
      <4>. QED  BY <1>1, <1>4, <3>1, <3>3, <4>2
    <3>. QED  BY <3>2, <3>3
  <2>. QED  BY <2>1, <2>2, <2>3 DEF NothingDangles
<1>. QED  BY <1>6, <1>7, <1>8, <1>9 DEF Graph

LEMMA CompactionKeepsGraph ==
  ASSUME Graph, Compact, original' = original
  PROVE  /\ Graph'
         /\ \A b \in kept : program'.next[b] = program.next[b]
<1>1. program' = Compacted(program) /\ pass' = "done" /\ kept' = kept /\ pass = "mir-cfg-cleanup"
  BY DEF Compact
<1>2. DOMAIN program = Fields
  BY DEF Graph, Frame
<1>3. /\ DOMAIN program' = Fields
      /\ program'.blocks = kept
      /\ program'.entry = program.entry
      /\ program'.retained = program.retained
      /\ program'.handler = [b \in kept |-> program.handler[b]]
      /\ program'.kind = [b \in kept |-> program.kind[b]]
      /\ program'.next = [b \in kept |-> program.next[b]]
  BY <1>1, <1>2 DEF Compacted, Fields
<1>4. Frame'
  BY <1>1, <1>3 DEF Graph, Frame
<1>5. Terminators' /\ NothingDangles' /\ NoHandlerLost'
  BY <1>1, <1>3 DEF Graph, Terminators, NothingDangles, NoHandlerLost
<1>. QED  BY <1>3, <1>4, <1>5 DEF Graph

LEMMA GraphKept == Graph /\ [Next]_vars => Graph'
<1>. SUFFICES ASSUME Graph, [Next]_vars PROVE Graph'
  OBVIOUS
<1>1. CASE Optimize
  <2>1. original' = original
    BY <1>1 DEF Optimize
  <2>2. CASE CopyNext /\ UNCHANGED kept
    BY <2>1, <2>2, CopyKeepsGraph
  <2>3. CASE RemoveBlock
    BY <2>1, <2>3, RemovalKeepsGraph
  <2>4. CASE Compact
    BY <2>1, <2>4, CompactionKeepsGraph
  <2>. QED  BY <1>1, <2>2, <2>3, <2>4 DEF Optimize, CleanupNext
<1>2. CASE Execute
  <2>1. UNCHANGED <<program, pass, kept, original>>
    BY <1>2 DEF Execute
  <2>. QED  BY <2>1 DEF Graph, Frame, Terminators, NothingDangles, NoHandlerLost
<1>3. CASE UNCHANGED vars
  <2>1. UNCHANGED <<program, pass, kept, original>>
    BY <1>3 DEF vars
  <2>. QED  BY <2>1 DEF Graph, Frame, Terminators, NothingDangles, NoHandlerLost
<1>. QED  BY <1>1, <1>2, <1>3 DEF Next

(* Compaction never finds a reference to a removed block: the invariant is *)
(* NothingDangles together with what the passes leave as it was.           *)
THEOREM ReferencesStayValid == Spec => []NothingDangles
<1>1. Graph => NothingDangles
  BY DEF Graph
<1>. QED  BY <1>1, GraphInitially, GraphKept, PTL DEF Spec

-----------------------------------------------------------------------------
LEMMA PathsInitially == Init => Paths
<1>. SUFFICES ASSUME Init PROVE Paths
  OBVIOUS
<1>. DEFINE same == [b \in original.blocks |-> b]
<1>1. /\ original \in Programs /\ program = original /\ kept = original.blocks
      /\ at = original.entry /\ twinAt = original.entry
  BY DEF Init
<1>2. Leads(same)
  BY <1>1, ProgramFacts DEF Leads
<1>3. Twins(same)
  BY <1>1, ProgramFacts DEF Twins
<1>. QED  BY <1>1, <1>2, <1>3 DEF Paths, Waiting

(* A map stays one as long as neither the kept blocks nor their successors *)
(* change.                                                                 *)
LEMMA LeadsStill ==
  ASSUME NEW f, Leads(f), UNCHANGED <<kept, original>>,
         \A b \in kept : program'.next[b] = program.next[b]
  PROVE  Leads(f)'
BY DEF Leads

(* When b is taken out, what led to b leads to where b forwards.           *)
LEMMA LeadsAfterRemoval ==
  ASSUME Graph, RemoveBlock, original' = original, NEW f, Leads(f)
  PROVE  \E g : Leads(g)'
<1>1. PICK b \in kept :
        /\ FirstRemovable(program, b)
        /\ program' = [program EXCEPT !.next = Redirected(program, b)]
        /\ kept' = kept \ {b}
  BY DEF RemoveBlock
<1>. DEFINE t == program.next[b][1]
            moved == [x \in original.blocks |-> IF f[x] = b THEN t ELSE f[x]]
<1>2. /\ kept \subseteq original.blocks
      /\ \A a \in kept : DOMAIN program.next[a] = DOMAIN original.next[a]
  BY DEF Graph, Frame, Terminators
<1>3. \A a \in kept \ {b} : \A i \in DOMAIN program.next[a] :
        program'.next[a][i] = IF program.next[a][i] = b THEN t ELSE program.next[a][i]
  BY <1>1, RemovalEffect
<1>4. /\ f \in [original.blocks -> original.blocks]
      /\ \A a \in kept : f[a] = a
      /\ \A a \in original.blocks \ kept :
           /\ \A i \in DOMAIN original.next[a] : f[original.next[a][i]] = f[a]
           /\ original.next[a] = <<>> => f[a] = a
      /\ \A a \in kept : \A i \in DOMAIN original.next[a] :
           program.next[a][i] = f[original.next[a][i]]
  BY DEF Leads
<1>5. \A a \in original.blocks : \A i \in DOMAIN original.next[a] :
        original.next[a][i] \in original.blocks
  BY ProgramFacts DEF Graph, Frame
<1>6. CASE Forwarding(program, b)
  <2>1. t \in kept \ {b}
    BY <1>6 DEF Forwarding
  <2>2. DOMAIN original.next[b] = {1}
    BY <1>1, <1>2, <1>6, ProgramFacts DEF Forwarding, Graph, Frame, Terminators
  <2>3. moved \in [original.blocks -> original.blocks]
    BY <1>2, <1>4, <2>1
  <2>4. \A a \in kept' : moved[a] = a
    BY <1>1, <1>2, <1>4
  <2>5. ASSUME NEW a \in original.blocks \ kept', NEW i \in DOMAIN original.next[a]
        PROVE  moved[original.next[a][i]] = moved[a]
    <3>1. a \in original.blocks /\ original.next[a][i] \in original.blocks
      BY <1>5, <2>5
    <3>2. CASE a = b
      <4>1. i = 1 /\ f[b] = b /\ t = f[original.next[b][1]]
        BY <1>4, <2>2, <2>5, <3>2
      <4>. QED  BY <2>1, <3>1, <3>2, <4>1
    <3>3. CASE a # b
      <4>1. f[original.next[a][i]] = f[a]
        BY <1>1, <1>4, <2>5, <3>3
      <4>. QED  BY <3>1, <4>1
    <3>. QED  BY <3>2, <3>3
  <2>6. ASSUME NEW a \in kept', NEW i \in DOMAIN original.next[a]
        PROVE  program'.next[a][i] = moved[original.next[a][i]]
    <3>1. a \in kept \ {b} /\ a \in original.blocks /\ i \in DOMAIN program.next[a]
      BY <1>1, <1>2, <2>6
    <3>2. original.next[a][i] \in original.blocks
      BY <1>5, <3>1, <2>6
    <3>3. program.next[a][i] = f[original.next[a][i]]
      BY <1>4, <2>6, <3>1
    <3>. QED  BY <1>3, <3>1, <3>2, <3>3
  <2>7. ASSUME NEW a \in original.blocks \ kept', original.next[a] = <<>>
        PROVE  moved[a] = a
    <3>1. a # b
      BY <2>2, <2>7
    <3>. QED  BY <1>1, <1>4, <2>7, <3>1
  <2>. HIDE DEF moved
  <2>8. ASSUME NEW g, g = moved
        PROVE  Leads(g)'
    BY <2>3, <2>4, <2>5, <2>6, <2>7, <2>8 DEF Leads
  <2>. QED  BY <2>8
<1>7. CASE ~ Forwarding(program, b)
  <2>1. original.next[b] = <<>>
    BY <1>1, <1>7, RemovedBlock
  <2>2. \A a \in kept : \A i \in DOMAIN program.next[a] : program.next[a][i] # b
    BY <1>1, <1>7, RemovedBlock
  <2>3. DOMAIN original.next[b] = {}
    BY <2>1
  <2>4. \A a \in kept' : f[a] = a
    BY <1>1, <1>4
  <2>5. \A a \in original.blocks \ kept' : \A i \in DOMAIN original.next[a] :
          f[original.next[a][i]] = f[a]
    BY <1>1, <1>4, <2>3
  <2>6. \A a \in kept' : \A i \in DOMAIN original.next[a] :
          program'.next[a][i] = f[original.next[a][i]]
    BY <1>1, <1>2, <1>3, <1>4, <2>2
  <2>7. \A a \in original.blocks \ kept' : original.next[a] = <<>> => f[a] = a
    BY <1>1, <1>4
  <2>8. Leads(f)'
    BY <1>4, <2>4, <2>5, <2>6, <2>7 DEF Leads
  <2>. QED  BY <2>8
<1>. QED  BY <1>6, <1>7

LEMMA PathsThroughOptimize ==
  ASSUME Graph, Paths, Optimize
  PROVE  Paths'
<1>1. original' = original /\ UNCHANGED <<at, twinAt>>
  BY DEF Optimize, runVars
<1>2. PICK f : Leads(f) /\ Twins(f)
  BY DEF Paths
<1>3. pass # "done"
  BY DEF Optimize, CopyNext, CleanupNext, Keep, Replace, Propagate, RemoveBlock, Compact
<1>4. at = original.entry /\ twinAt = original.entry
  BY <1>3 DEF Paths, Waiting
<1>5. \E g : Leads(g)'
  <2>1. CASE CopyNext /\ UNCHANGED kept
    BY <1>1, <1>2, <2>1, CopyKeepsGraph, LeadsStill
  <2>2. CASE RemoveBlock
    BY <1>1, <1>2, <2>2, LeadsAfterRemoval
  <2>3. CASE Compact
    <3>1. kept' = kept
      BY <2>3 DEF Compact
    <3>. QED  BY <1>1, <1>2, <2>3, <3>1, CompactionKeepsGraph, LeadsStill
  <2>. QED  BY <2>1, <2>2, <2>3 DEF Optimize, CleanupNext
<1>6. PICK g : Leads(g)'
  BY <1>5
<1>7. Graph'
  BY GraphKept DEF Next
<1>8. /\ original.entry \in kept' /\ original.entry \in original.blocks
      /\ NoBlock \notin original.blocks
  BY <1>1, <1>7, ProgramFacts DEF Graph, Frame, NothingDangles
<1>9. Twins(g)'
  BY <1>1, <1>4, <1>6, <1>8 DEF Twins, Leads
<1>10. Waiting'
  BY <1>1, <1>4 DEF Waiting
<1>. QED  BY <1>6, <1>9, <1>10 DEF Paths

(* A block where the original fails, or halts, is one the twin is in.      *)
LEMMA HandledBlocksAreKept ==
  ASSUME Graph, at \in original.blocks, original.handler[at] # NoBlock
  PROVE  at \in kept
BY DEF Graph, NoHandlerLost

LEMMA PathsThroughExecute ==
  ASSUME Graph, Paths, at # NoBlock, Execute
  PROVE  Paths'
<1>1. UNCHANGED <<program, pass, kept, original>>
  BY DEF Execute
<1>2. PICK f : Leads(f) /\ Twins(f)
  BY DEF Paths
<1>3. Leads(f)'
  BY <1>1, <1>2 DEF Leads
<1>4. at \in original.blocks /\ twinAt = f[at] /\ (at \in kept => twinAt = at)
  BY <1>2 DEF Twins, Leads
<1>5. pass = "done"
  BY DEF Execute, Leave, Fail, Halt, Running
<1>6. Waiting'
  BY <1>1, <1>5 DEF Waiting
<1>7. NoBlock \notin original.blocks
  BY ProgramFacts DEF Graph, Frame
<1>8. ASSUME NEW i \in DOMAIN original.next[at], Leave(i)
      PROVE  Twins(f)'
  <2>1. at' = original.next[at][i] /\ at' \in original.blocks
    BY <1>4, <1>8, ProgramFacts DEF Leave, Graph, Frame
  <2>2. CASE at \in kept
    <3>1. twinAt' = program.next[at][i]
      BY <1>4, <1>8, <2>2 DEF Leave
    <3>2. program.next[at][i] = f[original.next[at][i]]
      BY <1>2, <1>8, <2>2 DEF Leads
    <3>. QED  BY <1>1, <1>7, <2>1, <3>1, <3>2 DEF Twins
  <2>3. CASE at \notin kept
    <3>1. twinAt' = twinAt
      BY <1>8, <2>3 DEF Leave
    <3>2. f[original.next[at][i]] = f[at]
      BY <1>2, <1>4, <1>8, <2>3 DEF Leads
    <3>. QED  BY <1>1, <1>4, <1>7, <2>1, <3>1, <3>2 DEF Twins
  <2>. QED  BY <2>2, <2>3
<1>9. ASSUME NEW n, Fail(n)
      PROVE  Twins(f)'
  <2>1. at \in kept /\ at' = original.handler[at] /\ twinAt' = program.handler[at]
    BY <1>4, <1>9, HandledBlocksAreKept DEF Fail
  <2>2. program.handler[at] = original.handler[at] /\ original.handler[at] \in kept
    BY <1>9, <2>1 DEF Fail, Graph, Terminators, NothingDangles
  <2>3. at' \in kept /\ at' \in original.blocks /\ twinAt' = at'
    BY <2>1, <2>2 DEF Graph, Frame
  <2>. QED  BY <1>1, <1>2, <1>7, <2>3 DEF Twins, Leads
<1>10. ASSUME Halt
       PROVE  Twins(f)'
  <2>1. at' = NoBlock /\ twinAt' = NoBlock
    BY <1>10 DEF Halt
  <2>. QED  BY <2>1 DEF Twins
<1>11. Twins(f)'
  BY <1>8, <1>9, <1>10 DEF Execute
<1>. QED  BY <1>3, <1>6, <1>11 DEF Paths

LEMMA PathsKept == Graph /\ Paths /\ [Next]_vars => Paths'
<1>. SUFFICES ASSUME Graph, Paths, [Next]_vars PROVE Paths'
  OBVIOUS
<1>1. CASE Optimize
  BY <1>1, PathsThroughOptimize
<1>2. CASE at # NoBlock /\ Execute
  BY <1>2, PathsThroughExecute
<1>3. CASE UNCHANGED vars
  <2>1. UNCHANGED <<program, pass, kept, original, at, twinAt>>
    BY <1>3 DEF vars
  <2>. QED  BY <2>1 DEF Paths, Waiting, Leads, Twins
<1>. QED  BY <1>1, <1>2, <1>3 DEF Next

(* Whatever branches are taken and wherever the function fails, the        *)
(* optimized function is in the block the original is in, except while the *)
(* original crosses blocks that were removed.                              *)
THEOREM PathsAgree == Spec => []SamePath
<1>1. Init => Graph /\ Paths
  BY GraphInitially, PathsInitially
<1>2. (Graph /\ Paths) /\ [Next]_vars => (Graph /\ Paths)'
  BY GraphKept, PathsKept
<1>3. Graph /\ Paths => SamePath
  <2>. SUFFICES ASSUME Graph, Paths, at \in kept \cup {NoBlock} PROVE twinAt = at
    BY DEF SamePath
  <2>1. PICK f : Leads(f) /\ Twins(f)
    BY DEF Paths
  <2>2. CASE at = NoBlock
    BY <2>1, <2>2 DEF Twins
  <2>3. CASE at \in kept /\ at # NoBlock
    BY <2>1, <2>3 DEF Twins, Leads
  <2>. QED  BY <2>2, <2>3
<1>. QED  BY <1>1, <1>2, <1>3, PTL DEF Spec

(***************************************************************************)
(* Recursion and sequences.                                                *)
(***************************************************************************)

(* A set of natural numbers that is not empty has a least element.         *)
LEMMA Least ==
  ASSUME NEW S, S \subseteq Nat, S # {}
  PROVE  \E m \in S : \A x \in S : m <= x
<1>1. PICK m \in S : \A x \in S : ~ (<<x, m>> \in OpToRel(<, Nat))
  BY NatLessThanWellFounded, WFMin
<1>2. \A x \in S : ~ (x < m)
  BY <1>1 DEF OpToRel
<1>3. m \in Nat /\ \A x \in S : x \in Nat
  OBVIOUS
<1>. QED  BY <1>2, <1>3

LEMMA Induction ==
  ASSUME NEW n \in Nat, NEW S, 0 \in S, \A k \in 1..n : k - 1 \in S => k \in S
  PROVE  \A k \in 0..n : k \in S
<1>. DEFINE failing == {k \in 0..n : k \notin S}
<1>. SUFFICES ASSUME failing # {} PROVE FALSE
  OBVIOUS
<1>1. failing \subseteq Nat
  OBVIOUS
<1>2. PICK m \in failing : \A x \in failing : m <= x
  <2>. HIDE DEF failing
  <2>. QED  BY <1>1, Least
<1>3. m \in 1..n /\ m - 1 \in 0..n /\ ~ (m <= m - 1)
  BY <1>2
<1>4. m - 1 \in S
  BY <1>2, <1>3
<1>. QED  BY <1>2, <1>3, <1>4

(* A function defined by recursion over 0 .. n exists, whatever its step.  *)
Iterates(h, n, X, start, step) ==
  /\ h \in [0..n -> X]
  /\ h[0] = start
  /\ \A k \in 1..n : h[k] = step[<<k, h[k - 1]>>]

LEMMA Recursion ==
  ASSUME NEW n \in Nat, NEW X, NEW start \in X, NEW step \in [(1..n) \X X -> X]
  PROVE  \E h : Iterates(h, n, X, start, step)
<1>. DEFINE Fits(h, m) == /\ h \in [0..m -> X] /\ h[0] = start
                          /\ \A k \in 1..m : h[k] = step[<<k, h[k - 1]>>]
            S == {m \in 0..n : \E h : Fits(h, m)}
<1>1. 0 \in S
  <2>1. Fits([k \in 0..0 |-> start], 0)
    OBVIOUS
  <2>. HIDE DEF Fits
  <2>. QED  BY <2>1
<1>2. ASSUME NEW m \in 1..n, m - 1 \in S
      PROVE  m \in S
  <2>1. PICK h : Fits(h, m - 1)
    BY <1>2
  <2>. DEFINE e == [k \in 0..m |-> IF k = m THEN step[<<m, h[m - 1]>>] ELSE h[k]]
  <2>2. m \in Nat /\ m - 1 \in 0..(m - 1) /\ m # 0 /\ \A k \in 0..m : k # m => k \in 0..(m - 1)
    OBVIOUS
  <2>3. h[m - 1] \in X
    BY <2>1, <2>2
  <2>4. step[<<m, h[m - 1]>>] \in X
    BY <2>3
  <2>5. e \in [0..m -> X]
    BY <2>1, <2>2, <2>4
  <2>6. e[0] = start
    BY <2>1, <2>2
  <2>7. ASSUME NEW k \in 1..m PROVE e[k] = step[<<k, e[k - 1]>>]
    <3>1. k - 1 \in 0..m /\ k - 1 # m /\ k \in 0..m
      BY <2>2
    <3>2. e[k - 1] = h[k - 1]
      BY <3>1
    <3>3. CASE k = m
      BY <3>1, <3>2, <3>3
    <3>4. CASE k # m
      <4>1. k \in 1..(m - 1)
        BY <2>2, <3>4
      <4>2. h[k] = step[<<k, h[k - 1]>>]
        BY <2>1, <4>1
      <4>. QED  BY <3>1, <3>2, <3>4, <4>2
    <3>. QED  BY <3>3, <3>4
  <2>8. Fits(e, m)
    BY <2>5, <2>6, <2>7
  <2>. HIDE DEF Fits, e
  <2>. QED  BY <2>8
<1>3. n \in S
  <2>1. \A k \in 0..n : k \in S
    <3>. HIDE DEF S
    <3>. QED  BY <1>1, <1>2, Induction
  <2>. QED  BY <2>1
<1>4. PICK h : Fits(h, n)
  BY <1>3
<1>5. Iterates(h, n, X, start, step)
  BY <1>4 DEF Iterates
<1>. QED  BY <1>5

(* The positions of a set in increasing order.                             *)
Listing(order, n, S) ==
  /\ order \in Seq(Nat)
  /\ \A i \in DOMAIN order : order[i] \in 1..n /\ order[i] \in S
  /\ \A i, j \in DOMAIN order : i < j => order[i] < order[j]
  /\ \A k \in 1..n : k \in S => \E i \in DOMAIN order : order[i] = k

LEMMA ListingLonger ==
  ASSUME NEW n \in Nat, n # 0, NEW S, NEW order, Listing(order, n - 1, S)
  PROVE  Listing(IF n \in S THEN Append(order, n) ELSE order, n, S)
<1>1. \A k \in 1..n : k # n => k \in 1..(n - 1)
  OBVIOUS
<1>2. n \in 1..n /\ \A k \in 1..(n - 1) : k \in 1..n /\ k < n
  OBVIOUS
<1>3. CASE n \in S
  <2>. DEFINE longer == Append(order, n)
  <2>1. /\ longer \in Seq(Nat) /\ DOMAIN order = 1..Len(order) /\ Len(order) \in Nat
        /\ DOMAIN longer = 1..(Len(order) + 1)
        /\ longer[Len(order) + 1] = n
        /\ \A i \in DOMAIN order : longer[i] = order[i]
    BY DEF Listing
  <2>. HIDE DEF longer
  <2>2. \A i \in DOMAIN longer : i \in DOMAIN order \/ i = Len(order) + 1
    BY <2>1
  <2>3. \A i \in DOMAIN order : i \in DOMAIN longer /\ ~ (Len(order) + 1 < i)
    BY <2>1
  <2>4. \A i \in DOMAIN longer : longer[i] \in 1..n /\ longer[i] \in S
    BY <1>2, <1>3, <2>1, <2>2 DEF Listing
  <2>5. ASSUME NEW i \in DOMAIN longer, NEW j \in DOMAIN longer, i < j
        PROVE  longer[i] < longer[j]
    <3>1. i \in DOMAIN order
      BY <2>1, <2>5
    <3>2. CASE j \in DOMAIN order
      BY <2>1, <2>5, <3>1, <3>2 DEF Listing
    <3>3. CASE j = Len(order) + 1
      BY <1>2, <2>1, <3>1, <3>3 DEF Listing
    <3>. QED  BY <2>2, <3>2, <3>3
  <2>6. ASSUME NEW k \in 1..n, k \in S PROVE \E i \in DOMAIN longer : longer[i] = k
    <3>1. CASE k = n
      BY <2>1, <3>1
    <3>2. CASE k # n
      <4>1. PICK i \in DOMAIN order : order[i] = k
        BY <1>1, <2>6, <3>2 DEF Listing
      <4>. QED  BY <2>1, <2>3, <4>1
    <3>. QED  BY <3>1, <3>2
  <2>7. Listing(longer, n, S)
    BY <2>1, <2>4, <2>5, <2>6 DEF Listing
  <2>. QED  BY <1>3, <2>7 DEF longer
<1>4. CASE n \notin S
  <2>1. \A k \in 1..n : k \in S => k \in 1..(n - 1)
    BY <1>1, <1>4
  <2>. QED  BY <1>2, <1>4, <2>1 DEF Listing
<1>. QED  BY <1>3, <1>4

LEMMA InOrderFacts ==
  ASSUME NEW n \in Nat, NEW S
  PROVE  Listing(InOrder(n, S), n, S)
<1>. DEFINE chosen == CHOOSE h : h = [k \in 0..n |-> IF k = 0 THEN <<>>
                                    ELSE IF k \in S THEN Append(h[k - 1], k) ELSE h[k - 1]]
            step == [x \in (1..n) \X Seq(Nat) |-> IF x[1] \in S THEN Append(x[2], x[1]) ELSE x[2]]
            X == Seq(Nat)
            start == <<>>
            listed == {k \in 0..n : Listing(chosen[k], k, S)}
<1>1. PICK h : Iterates(h, n, X, start, step)
  <2>1. start \in X
    OBVIOUS
  <2>2. step \in [(1..n) \X X -> X]
    <3>1. \A x \in (1..n) \X Seq(Nat) : (IF x[1] \in S THEN Append(x[2], x[1]) ELSE x[2]) \in Seq(Nat)
      OBVIOUS
    <3>. QED  BY <3>1
  <2>. HIDE DEF step, start, X
  <2>. QED  BY <2>1, <2>2, Recursion
<1>2. ASSUME NEW k \in 0..n
      PROVE  h[k] = IF k = 0 THEN <<>> ELSE IF k \in S THEN Append(h[k - 1], k) ELSE h[k - 1]
  <2>1. CASE k = 0
    BY <1>1, <2>1 DEF Iterates
  <2>2. CASE k # 0
    <3>1. k \in 1..n /\ k - 1 \in 0..n
      BY <2>2
    <3>2. h[k] = step[<<k, h[k - 1]>>] /\ h[k - 1] \in X
      BY <1>1, <3>1 DEF Iterates
    <3>3. step[<<k, h[k - 1]>>] = IF k \in S THEN Append(h[k - 1], k) ELSE h[k - 1]
      BY <3>1, <3>2
    <3>. QED  BY <2>2, <3>2, <3>3
  <2>. QED  BY <2>1, <2>2
<1>3. h = [k \in 0..n |-> IF k = 0 THEN <<>>
                           ELSE IF k \in S THEN Append(h[k - 1], k) ELSE h[k - 1]]
  <2>1. h = [k \in 0..n |-> h[k]]
    BY <1>1 DEF Iterates
  <2>. QED  BY <1>2, <2>1
<1>4. chosen = [k \in 0..n |-> IF k = 0 THEN <<>>
                               ELSE IF k \in S THEN Append(chosen[k - 1], k) ELSE chosen[k - 1]]
  BY <1>3
<1>5. InOrder(n, S) = chosen[n]
  BY DEF InOrder
<1>. HIDE DEF chosen
<1>6. ASSUME NEW k \in 0..n
      PROVE  chosen[k] = IF k = 0 THEN <<>>
                         ELSE IF k \in S THEN Append(chosen[k - 1], k) ELSE chosen[k - 1]
  BY <1>4, Zenon
<1>7. 0 \in listed
  <2>1. chosen[0] = <<>>
    BY <1>6
  <2>2. Listing(<<>>, 0, S)
    BY DEF Listing
  <2>. QED  BY <2>1, <2>2
<1>8. ASSUME NEW k \in 1..n, k - 1 \in listed PROVE k \in listed
  <2>1. k \in Nat /\ k # 0 /\ k \in 0..n /\ Listing(chosen[k - 1], k - 1, S)
    BY <1>8
  <2>2. Listing(IF k \in S THEN Append(chosen[k - 1], k) ELSE chosen[k - 1], k, S)
    BY <2>1, ListingLonger
  <2>3. Listing(chosen[k], k, S)
    BY <1>6, <2>1, <2>2
  <2>. QED  BY <2>1, <2>3
<1>9. n \in listed
  <2>1. n \in 0..n
    OBVIOUS
  <2>. HIDE DEF listed
  <2>. QED  BY <1>7, <1>8, <2>1, Induction
<1>. QED  BY <1>5, <1>9

(* What At returns: the elements at the listed positions.                  *)
LEMMA AtFacts ==
  ASSUME NEW X, NEW seq \in Seq(X), NEW S
  PROVE  LET order == InOrder(Len(seq), S)
         IN  /\ At(seq, S) \in Seq(X)
             /\ DOMAIN At(seq, S) = DOMAIN order
             /\ Len(At(seq, S)) = Len(order)
             /\ \A n \in DOMAIN order :
                  order[n] \in DOMAIN seq /\ order[n] \in S /\ At(seq, S)[n] = seq[order[n]]
             /\ \A k \in DOMAIN seq : k \in S => \E n \in DOMAIN order : order[n] = k
<1>. DEFINE order == InOrder(Len(seq), S)
<1>1. Len(seq) \in Nat /\ DOMAIN seq = 1..Len(seq)
  OBVIOUS
<1>2. Listing(order, Len(seq), S)
  BY <1>1, InOrderFacts
<1>. HIDE DEF order
<1>3. order \in Seq(Nat) /\ DOMAIN order = 1..Len(order) /\ Len(order) \in Nat
  BY <1>2 DEF Listing
<1>4. At(seq, S) = [n \in DOMAIN order |-> seq[order[n]]]
  BY DEF At, order
<1>5. \A n \in DOMAIN order : order[n] \in DOMAIN seq /\ order[n] \in S /\ seq[order[n]] \in X
  BY <1>1, <1>2 DEF Listing
<1>6. \A k \in DOMAIN seq : k \in S => \E n \in DOMAIN order : order[n] = k
  BY <1>1, <1>2 DEF Listing
<1>7. At(seq, S) \in Seq(X) /\ Len(At(seq, S)) = Len(order)
  BY <1>3, <1>4, <1>5
<1>. QED  BY <1>4, <1>5, <1>6, <1>7 DEF order

(* The elements of the first m of some sequences, one after the other.     *)
Joins(s, seqs, m, X) ==
  /\ s \in Seq(X)
  /\ \A n \in DOMAIN s : \E i \in 1..m : \E j \in DOMAIN seqs[i] : s[n] = seqs[i][j]
  /\ \A i \in 1..m : \A j \in DOMAIN seqs[i] : \E n \in DOMAIN s : s[n] = seqs[i][j]

LEMMA JoinsLonger ==
  ASSUME NEW X, NEW seqs, NEW m \in Nat, NEW s, Joins(s, seqs, m, X), seqs[m + 1] \in Seq(X)
  PROVE  Joins(s \o seqs[m + 1], seqs, m + 1, X)
<1>. DEFINE t == seqs[m + 1]
            u == s \o t
<1>1. s \in Seq(X) /\ t \in Seq(X)
  BY DEF Joins
<1>2. /\ u \in Seq(X) /\ Len(u) = Len(s) + Len(t)
      /\ \A n \in DOMAIN u : u[n] = IF n <= Len(s) THEN s[n] ELSE t[n - Len(s)]
  BY <1>1
<1>3. /\ Len(s) \in Nat /\ Len(t) \in Nat /\ DOMAIN s = 1..Len(s) /\ DOMAIN t = 1..Len(t)
      /\ DOMAIN u = 1..(Len(s) + Len(t))
  BY <1>1, <1>2
<1>4. /\ \A n \in DOMAIN s : n \in DOMAIN u /\ u[n] = s[n]
      /\ \A n \in DOMAIN t : n + Len(s) \in DOMAIN u /\ u[n + Len(s)] = t[n]
      /\ \A n \in DOMAIN u : n \notin DOMAIN s => n - Len(s) \in DOMAIN t /\ u[n] = t[n - Len(s)]
  BY <1>2, <1>3
<1>5. m + 1 \in 1..(m + 1) /\ \A i \in 1..m : i \in 1..(m + 1)
  OBVIOUS
<1>6. \A i \in 1..(m + 1) : i = m + 1 \/ i \in 1..m
  OBVIOUS
<1>. HIDE DEF u
<1>7. ASSUME NEW n \in DOMAIN u
      PROVE  \E i \in 1..(m + 1) : \E j \in DOMAIN seqs[i] : u[n] = seqs[i][j]
  <2>1. CASE n \in DOMAIN s
    <3>1. PICK i \in 1..m : \E j \in DOMAIN seqs[i] : s[n] = seqs[i][j]
      BY <2>1 DEF Joins
    <3>. QED  BY <1>4, <1>5, <2>1, <3>1
  <2>2. CASE n \notin DOMAIN s
    BY <1>4, <1>5, <2>2
  <2>. QED  BY <2>1, <2>2
<1>8. ASSUME NEW i \in 1..(m + 1), NEW j \in DOMAIN seqs[i]
      PROVE  \E n \in DOMAIN u : u[n] = seqs[i][j]
  <2>1. CASE i = m + 1
    BY <1>4, <2>1
  <2>2. CASE i \in 1..m
    <3>1. PICK n \in DOMAIN s : s[n] = seqs[i][j]
      BY <2>2 DEF Joins
    <3>. QED  BY <1>4, <3>1
  <2>. QED  BY <1>6, <2>1, <2>2
<1>9. Joins(u, seqs, m + 1, X)
  BY <1>2, <1>7, <1>8 DEF Joins
<1>. QED  BY <1>9 DEF u

LEMMA FlattenJoins ==
  ASSUME NEW X, NEW seqs \in Seq(Seq(X))
  PROVE  Joins(FlattenSeq(seqs), seqs, Len(seqs), X)
<1>. DEFINE N == Len(seqs)
            flatten == CHOOSE f : f = [i \in 1..N |-> IF i = 1 THEN seqs[i] ELSE f[i - 1] \o seqs[i]]
            step == [x \in (1..N) \X Seq(X) |-> IF x[1] = 1 THEN seqs[1] ELSE x[2] \o seqs[x[1]]]
            Y == Seq(X)
            start == <<>>
            joined == {m \in 0..N : m = 0 \/ Joins(flatten[m], seqs, m, X)}
<1>1. N \in Nat /\ DOMAIN seqs = 1..N /\ \A i \in 1..N : seqs[i] \in Seq(X)
  OBVIOUS
<1>2. CASE N = 0
  <2>1. FlattenSeq(seqs) = seqs /\ seqs = <<>>
    BY <1>1, <1>2 DEF FlattenSeq
  <2>. QED  BY <1>2, <2>1 DEF Joins
<1>3. CASE N # 0
  <2>1. FlattenSeq(seqs) = flatten[N]
    BY <1>3 DEF FlattenSeq
  <2>. HIDE DEF N
  <2>2. PICK h : Iterates(h, N, Y, start, step)
    <3>1. start \in Y
      OBVIOUS
    <3>2. step \in [(1..N) \X Y -> Y]
      <4>1. ASSUME NEW x \in (1..N) \X Seq(X)
            PROVE  (IF x[1] = 1 THEN seqs[1] ELSE x[2] \o seqs[x[1]]) \in Seq(X)
        <5>1. x[1] \in 1..N /\ x[2] \in Seq(X)
          OBVIOUS
        <5>. QED  BY <1>1, <5>1
      <4>. QED  BY <4>1
    <3>. HIDE DEF step, start, Y
    <3>. QED  BY <1>1, <3>1, <3>2, Recursion
  <2>. DEFINE g == [i \in 1..N |-> h[i]]
  <2>3. ASSUME NEW i \in 1..N
        PROVE  h[i] = IF i = 1 THEN seqs[i] ELSE g[i - 1] \o seqs[i]
    <3>1. i - 1 \in 0..N /\ h[i - 1] \in Seq(X) /\ h[i] = step[<<i, h[i - 1]>>]
      <4>1. i - 1 \in 0..N
        BY <1>1
      <4>. HIDE DEF step, start
      <4>. QED  BY <2>2, <4>1 DEF Iterates
    <3>2. step[<<i, h[i - 1]>>] = IF i = 1 THEN seqs[1] ELSE h[i - 1] \o seqs[i]
      BY <3>1
    <3>3. i # 1 => i - 1 \in 1..N
      BY <1>1
    <3>. QED  BY <3>1, <3>2, <3>3
  <2>4. g = [i \in 1..N |-> IF i = 1 THEN seqs[i] ELSE g[i - 1] \o seqs[i]]
    BY <2>3
  <2>. HIDE DEF g
  <2>5. flatten = [i \in 1..N |-> IF i = 1 THEN seqs[i] ELSE flatten[i - 1] \o seqs[i]]
    BY <2>4
  <2>. HIDE DEF flatten
  <2>6. ASSUME NEW i \in 1..N
        PROVE  flatten[i] = IF i = 1 THEN seqs[i] ELSE flatten[i - 1] \o seqs[i]
    BY <2>5, Zenon
  <2>7. 0 \in joined
    BY <1>1
  <2>8. ASSUME NEW m \in 1..N, m - 1 \in joined
        PROVE  m \in joined
    <3>1. m \in 0..N /\ m - 1 \in Nat /\ (m - 1) + 1 = m /\ seqs[m] \in Seq(X)
      BY <1>1
    <3>2. CASE m = 1
      <4>1. flatten[1] = seqs[1] /\ seqs[1] \in Seq(X)
        BY <2>6, <3>1, <3>2
      <4>2. \A i \in 1..1 : i = 1
        OBVIOUS
      <4>3. 1 \in 1..1
        OBVIOUS
      <4>4. Joins(seqs[1], seqs, 1, X)
        BY <4>1, <4>2, <4>3 DEF Joins
      <4>. QED  BY <3>1, <3>2, <4>1, <4>4
    <3>3. CASE m # 1
      <4>1. Joins(flatten[m - 1], seqs, m - 1, X)
        BY <2>8, <3>3
      <4>2. Joins(flatten[m - 1] \o seqs[m], seqs, m, X)
        <5>. DEFINE l == m - 1
        <5>1. l \in Nat /\ l + 1 = m /\ Joins(flatten[l], seqs, l, X) /\ seqs[l + 1] \in Seq(X)
          BY <3>1, <4>1
        <5>. HIDE DEF l
        <5>2. Joins(flatten[l] \o seqs[l + 1], seqs, l + 1, X)
          BY <5>1, JoinsLonger
        <5>3. Joins(flatten[l] \o seqs[m], seqs, m, X)
          BY <5>1, <5>2
        <5>. QED  BY <5>3 DEF l
      <4>3. flatten[m] = flatten[m - 1] \o seqs[m]
        BY <2>6, <3>3
      <4>4. Joins(flatten[m], seqs, m, X)
        BY <4>2, <4>3
      <4>. QED  BY <3>1, <4>4
    <3>. QED  BY <3>2, <3>3
  <2>9. N \in joined
    <3>1. N \in 0..N
      BY <1>1
    <3>. HIDE DEF joined
    <3>. QED  BY <1>1, <2>7, <2>8, <3>1, Induction
  <2>10. Joins(flatten[N], seqs, N, X)
    BY <1>3, <2>9
  <2>. QED  BY <2>1, <2>10 DEF N
<1>. QED  BY <1>2, <1>3

(* What FlattenSeq returns: the elements of the sequences.                 *)
LEMMA FlattenFacts ==
  ASSUME NEW X, NEW seqs \in Seq(Seq(X))
  PROVE  /\ FlattenSeq(seqs) \in Seq(X)
         /\ \A n \in DOMAIN FlattenSeq(seqs) :
              \E i \in DOMAIN seqs : \E j \in DOMAIN seqs[i] : FlattenSeq(seqs)[n] = seqs[i][j]
         /\ \A i \in DOMAIN seqs : \A j \in DOMAIN seqs[i] :
              \E n \in DOMAIN FlattenSeq(seqs) : FlattenSeq(seqs)[n] = seqs[i][j]
<1>1. DOMAIN seqs = 1..Len(seqs)
  OBVIOUS
<1>2. Joins(FlattenSeq(seqs), seqs, Len(seqs), X)
  BY FlattenJoins
<1>. QED  BY <1>1, <1>2 DEF Joins

(***************************************************************************)
(* Dominance.                                                              *)
(***************************************************************************)

(* S holds the roots, and what can be reached from it, except for d.       *)
Spreads(p, d, S) ==
  /\ Roots(p) \ {d} \subseteq S
  /\ \A a \in S : \A b \in p.blocks \ {d} : Flows(p, a, b) => b \in S

Rounds(p, d) ==
  CHOOSE reached : reached = [n \in 0..Cardinality(p.blocks) |->
    IF n = 0 THEN Roots(p) \ {d} ELSE Onwards(p, d, reached[n - 1])]

LEMMA RoundsRecur ==
  ASSUME NEW p, IsFiniteSet(p.blocks), NEW d
  PROVE  /\ Cardinality(p.blocks) \in Nat
         /\ Rounds(p, d) \in [0..Cardinality(p.blocks) -> SUBSET p.blocks]
         /\ Rounds(p, d)[0] = Roots(p) \ {d}
         /\ \A n \in 1..Cardinality(p.blocks) :
              Rounds(p, d)[n] = Onwards(p, d, Rounds(p, d)[n - 1])
         /\ ReachedWithout(p, d) = Rounds(p, d)[Cardinality(p.blocks)]
<1>. DEFINE N == Cardinality(p.blocks)
            Y == SUBSET p.blocks
            start == Roots(p) \ {d}
            step == [x \in (1..N) \X Y |-> Onwards(p, d, x[2])]
            r == Rounds(p, d)
<1>1. N \in Nat
  BY FS_CardinalityType
<1>2. r = CHOOSE reached : reached = [n \in 0..N |->
            IF n = 0 THEN start ELSE Onwards(p, d, reached[n - 1])]
  BY DEF Rounds
<1>3. ReachedWithout(p, d) = r[N]
  BY DEF ReachedWithout, Rounds
<1>. HIDE DEF N, r
<1>4. start \in Y
  BY DEF Roots
<1>5. \A S \in Y : Onwards(p, d, S) \in Y
  BY DEF Onwards
<1>6. PICK h : Iterates(h, N, Y, start, step)
  <2>1. step \in [(1..N) \X Y -> Y]
    <3>1. \A x \in (1..N) \X Y : Onwards(p, d, x[2]) \in Y
      BY <1>5
    <3>. QED  BY <3>1
  <2>. HIDE DEF step, start, Y
  <2>. QED  BY <1>1, <1>4, <2>1, Recursion
<1>. HIDE DEF start, Y
<1>7. ASSUME NEW n \in 0..N
      PROVE  h[n] = IF n = 0 THEN start ELSE Onwards(p, d, h[n - 1])
  <2>1. CASE n = 0
    BY <1>6, <2>1 DEF Iterates
  <2>2. CASE n # 0
    <3>1. n \in 1..N /\ n - 1 \in 0..N
      BY <1>1, <2>2
    <3>2. h[n] = step[<<n, h[n - 1]>>] /\ h[n - 1] \in Y
      <4>. HIDE DEF step
      <4>. QED  BY <1>6, <3>1 DEF Iterates
    <3>3. step[<<n, h[n - 1]>>] = Onwards(p, d, h[n - 1])
      BY <3>1, <3>2
    <3>. QED  BY <2>2, <3>2, <3>3
  <2>. QED  BY <2>1, <2>2
<1>8. h = [n \in 0..N |-> IF n = 0 THEN start ELSE Onwards(p, d, h[n - 1])]
  <2>1. h = [n \in 0..N |-> h[n]]
    <3>. HIDE DEF step
    <3>. QED  BY <1>6 DEF Iterates
  <2>. QED  BY <1>7, <2>1
<1>9. r = [n \in 0..N |-> IF n = 0 THEN start ELSE Onwards(p, d, r[n - 1])]
  BY <1>2, <1>8
<1>10. ASSUME NEW n \in 0..N
       PROVE  r[n] = IF n = 0 THEN start ELSE Onwards(p, d, r[n - 1])
  BY <1>9, Zenon
<1>11. 0 \in 0..N /\ \A n \in 1..N : n \in 0..N /\ n # 0
  BY <1>1
<1>12. r[0] = start /\ \A n \in 1..N : r[n] = Onwards(p, d, r[n - 1])
  BY <1>10, <1>11
<1>13. r \in [0..N -> Y]
  <2>. DEFINE typed == {n \in 0..N : r[n] \in Y}
  <2>1. 0 \in typed
    BY <1>4, <1>11, <1>12
  <2>2. \A n \in 1..N : n - 1 \in typed => n \in typed
    BY <1>5, <1>11, <1>12
  <2>3. \A n \in 0..N : n \in typed
    <3>. HIDE DEF typed
    <3>. QED  BY <1>1, <2>1, <2>2, Induction
  <2>4. \A n \in 0..N : r[n] \in Y
    BY <2>3
  <2>5. r = [n \in 0..N |-> r[n]]
    BY <1>9
  <2>. QED  BY <2>4, <2>5
<1>. QED  BY <1>1, <1>3, <1>12, <1>13 DEF N, Y, start, r

LEMMA SmallBlocks ==
  ASSUME NEW S, IsFiniteSet(S)
  PROVE  \A X \in SUBSET S :
           IsFiniteSet(X) /\ Cardinality(X) \in Nat /\ Cardinality(X) <= Cardinality(S)
BY FS_Subset, FS_CardinalityType

LEMMA ReachedFacts ==
  ASSUME NEW p, IsFiniteSet(p.blocks), NEW d
  PROVE  /\ ReachedWithout(p, d) \subseteq p.blocks \ {d}
         /\ Spreads(p, d, ReachedWithout(p, d))
<1>. DEFINE N == Cardinality(p.blocks)
            r == Rounds(p, d)
            Grown(n) == /\ Roots(p) \ {d} \subseteq r[n] /\ d \notin r[n]
                        /\ Spreads(p, d, r[n]) \/ Cardinality(r[n]) >= n
            grown == {n \in 0..N : Grown(n)}
<1>1. /\ N \in Nat /\ r \in [0..N -> SUBSET p.blocks] /\ r[0] = Roots(p) \ {d}
      /\ \A n \in 1..N : r[n] = Onwards(p, d, r[n - 1])
      /\ ReachedWithout(p, d) = r[N]
  BY RoundsRecur
<1>2. \A X \in SUBSET p.blocks : IsFiniteSet(X) /\ Cardinality(X) \in Nat /\ Cardinality(X) <= N
  BY SmallBlocks
<1>3. \A X \in SUBSET p.blocks : Cardinality(X) = N => X = p.blocks
  BY FS_Subset
<1>. HIDE DEF N, r
<1>4. 0 \in 0..N /\ N \in 0..N /\ \A n \in 1..N : n \in 0..N /\ n - 1 \in 0..N
  BY <1>1
<1>5. 0 \in grown
  <2>1. r[0] \in SUBSET p.blocks
    BY <1>1, <1>4
  <2>2. Cardinality(r[0]) >= 0
    BY <1>2, <2>1
  <2>. QED  BY <1>1, <1>4, <2>2
<1>6. ASSUME NEW n \in 1..N, n - 1 \in grown
      PROVE  n \in grown
  <2>. DEFINE m == n - 1
  <2>1. Grown(m) /\ r[m] \in SUBSET p.blocks /\ r[n] = Onwards(p, d, r[m]) /\ r[n] \in SUBSET p.blocks
    BY <1>1, <1>4, <1>6
  <2>2. m \in Nat /\ n = m + 1
    BY <1>1
  <2>. HIDE DEF m
  <2>3. r[m] \subseteq r[n] /\ d \notin r[n] /\ Roots(p) \ {d} \subseteq r[n]
    BY <2>1 DEF Onwards
  <2>4. CASE Spreads(p, d, r[m])
    <3>1. r[n] = r[m]
      BY <2>1, <2>4 DEF Onwards, Spreads
    <3>. QED  BY <1>4, <2>1, <2>4, <3>1
  <2>5. CASE ~ Spreads(p, d, r[m])
    <3>1. r[n] # r[m]
      BY <2>1, <2>5 DEF Onwards, Spreads
    <3>2. IsFiniteSet(r[n]) /\ r[m] \in SUBSET r[n]
      BY <1>2, <2>1, <2>3
    <3>3. /\ Cardinality(r[m]) <= Cardinality(r[n])
          /\ Cardinality(r[m]) = Cardinality(r[n]) => r[m] = r[n]
      BY <3>2, FS_Subset
    <3>4. Cardinality(r[n]) \in Nat /\ Cardinality(r[m]) \in Nat /\ Cardinality(r[m]) >= m
      BY <1>2, <2>1, <2>5
    <3>5. Cardinality(r[n]) >= n
      BY <2>2, <3>1, <3>3, <3>4
    <3>. QED  BY <1>4, <2>3, <3>5
  <2>. QED  BY <2>4, <2>5
<1>7. Grown(N)
  <2>1. \A n \in 0..N : n \in grown
    <3>. HIDE DEF grown
    <3>. QED  BY <1>1, <1>5, <1>6, Induction
  <2>. QED  BY <1>4, <2>1
<1>8. r[N] \in SUBSET p.blocks
  BY <1>1, <1>4
<1>9. Spreads(p, d, r[N])
  <2>1. CASE Cardinality(r[N]) >= N
    <3>1. r[N] = p.blocks
      BY <1>1, <1>2, <1>3, <1>8, <2>1
    <3>. QED  BY <1>7, <3>1 DEF Spreads
  <2>. QED  BY <1>7, <2>1
<1>. QED  BY <1>1, <1>7, <1>8, <1>9

(* Nothing else is reached.                                                *)
LEMMA ReachedLeast ==
  ASSUME NEW p, IsFiniteSet(p.blocks), NEW d, NEW S, Spreads(p, d, S)
  PROVE  ReachedWithout(p, d) \subseteq S
<1>. DEFINE N == Cardinality(p.blocks)
            r == Rounds(p, d)
            within == {n \in 0..N : r[n] \subseteq S}
<1>1. /\ N \in Nat /\ r[0] = Roots(p) \ {d}
      /\ \A n \in 1..N : r[n] = Onwards(p, d, r[n - 1])
      /\ ReachedWithout(p, d) = r[N]
  BY RoundsRecur
<1>. HIDE DEF N, r
<1>2. 0 \in 0..N /\ N \in 0..N /\ \A n \in 1..N : n \in 0..N /\ n - 1 \in 0..N
  BY <1>1
<1>3. 0 \in within
  BY <1>1, <1>2 DEF Spreads
<1>4. \A n \in 1..N : n - 1 \in within => n \in within
  BY <1>1, <1>2 DEF Spreads, Onwards
<1>5. \A n \in 0..N : n \in within
  <2>. HIDE DEF within
  <2>. QED  BY <1>1, <1>3, <1>4, Induction
<1>. QED  BY <1>1, <1>2, <1>5

(* A block that is reached is a root, or entered from one that is reached. *)
LEMMA ReachedFrom ==
  ASSUME NEW p, IsFiniteSet(p.blocks), NEW d, NEW b \in ReachedWithout(p, d)
  PROVE  b \in Roots(p) \/ \E a \in ReachedWithout(p, d) : Flows(p, a, b)
<1>. DEFINE W == ReachedWithout(p, d)
            S == {c \in W : c \in Roots(p) \/ \E a \in W : Flows(p, a, c)}
<1>1. W \subseteq p.blocks \ {d} /\ Spreads(p, d, W)
  BY ReachedFacts
<1>2. b \in W
  OBVIOUS
<1>. HIDE DEF W
<1>3. Spreads(p, d, S)
  BY <1>1 DEF Spreads
<1>4. W \subseteq S
  <2>. HIDE DEF S
  <2>. QED  BY <1>3, ReachedLeast DEF W
<1>. QED  BY <1>2, <1>4 DEF W

LEMMA DominanceTransitive ==
  ASSUME NEW p, IsFiniteSet(p.blocks), NEW x, NEW y, NEW z,
         Dominates(p, x, y), Dominates(p, y, z)
  PROVE  Dominates(p, x, z)
<1>. DEFINE X == ReachedWithout(p, x)
            Y == ReachedWithout(p, y)
            S == X \cap Y
<1>1. X \subseteq p.blocks \ {x} /\ Spreads(p, x, X) /\ Y \subseteq p.blocks \ {y} /\ Spreads(p, y, Y)
  BY ReachedFacts
<1>2. y \notin X /\ z \notin Y
  BY DEF Dominates
<1>. HIDE DEF X, Y
<1>3. Spreads(p, x, S)
  BY <1>1, <1>2 DEF Spreads
<1>4. X \subseteq S
  <2>. HIDE DEF S
  <2>. QED  BY <1>3, ReachedLeast DEF X
<1>5. z \notin X
  BY <1>2, <1>4
<1>. QED  BY <1>5 DEF Dominates, X

LEMMA DominanceReflexive ==
  ASSUME NEW p, IsFiniteSet(p.blocks), NEW x
  PROVE  Dominates(p, x, x)
BY ReachedFacts DEF Dominates

(* A block that dominates all the predecessors of another, which is no     *)
(* root, dominates it.                                                     *)
LEMMA DominatesThroughPredecessors ==
  ASSUME NEW p, IsFiniteSet(p.blocks), NEW x, NEW b, b \notin Roots(p),
         \A a \in p.blocks : Flows(p, a, b) => Dominates(p, x, a)
  PROVE  Dominates(p, x, b)
<1>. SUFFICES ASSUME b \in ReachedWithout(p, x) PROVE FALSE
  BY DEF Dominates
<1>1. PICK a \in ReachedWithout(p, x) : Flows(p, a, b)
  BY ReachedFrom
<1>2. a \in p.blocks
  BY ReachedFacts
<1>. QED  BY <1>1, <1>2 DEF Dominates

(* Another block that dominates b dominates the predecessors of b.         *)
LEMMA PredecessorsDominated ==
  ASSUME NEW p, IsFiniteSet(p.blocks), NEW x, NEW a, NEW b \in p.blocks,
         b # x, Flows(p, a, b), Dominates(p, x, b)
  PROVE  Dominates(p, x, a)
BY ReachedFacts DEF Dominates, Spreads

(* b is in every set that holds the roots and what flows from them.        *)
Reachable(p, b) ==
  \A S \in SUBSET p.blocks :
    /\ Roots(p) \subseteq S
    /\ \A a \in S : \A c \in p.blocks : Flows(p, a, c) => c \in S
    => b \in S

LEMMA ReachableOnwards ==
  ASSUME NEW p, NEW a, Reachable(p, a), NEW b \in p.blocks, Flows(p, a, b)
  PROVE  Reachable(p, b)
BY DEF Reachable

LEMMA ReachableBlocks ==
  ASSUME NEW p, NEW a, Reachable(p, a)
  PROVE  a \in p.blocks
BY DEF Reachable, Roots

LEMMA EntryReachable ==
  ASSUME NEW p, p.entry \in p.blocks
  PROVE  Reachable(p, p.entry)
BY DEF Reachable, Roots

LEMMA ReachedReachable ==
  ASSUME NEW p, IsFiniteSet(p.blocks), NEW d, NEW b \in ReachedWithout(p, d)
  PROVE  Reachable(p, b)
<1>1. ASSUME NEW S \in SUBSET p.blocks, Roots(p) \subseteq S,
             \A a \in S : \A c \in p.blocks : Flows(p, a, c) => c \in S
      PROVE  b \in S
  <2>1. Spreads(p, d, S)
    BY <1>1 DEF Spreads
  <2>. QED  BY <2>1, ReachedLeast
<1>. QED  BY <1>1 DEF Reachable

(* A block that is no root and dominates a block reached from the roots is *)
(* entered without having been in it.                                      *)
LEMMA EnteredFrom ==
  ASSUME NEW p, IsFiniteSet(p.blocks), NEW b, Reachable(p, b),
         NEW d \in p.blocks \ Roots(p), Dominates(p, d, b)
  PROVE  \E a \in ReachedWithout(p, d) : Flows(p, a, d)
<1>. DEFINE W == ReachedWithout(p, d)
<1>. SUFFICES ASSUME \A a \in W : ~ Flows(p, a, d) PROVE FALSE
  OBVIOUS
<1>1. W \in SUBSET p.blocks /\ Spreads(p, d, W)
  BY ReachedFacts
<1>2. b \notin W
  BY DEF Dominates
<1>. HIDE DEF W
<1>3. Roots(p) \subseteq W
  BY <1>1 DEF Spreads
<1>4. \A a \in W : \A c \in p.blocks : Flows(p, a, c) => c \in W
  BY <1>1 DEF Spreads
<1>. QED  BY <1>1, <1>2, <1>3, <1>4 DEF Reachable

LEMMA DominanceAntisymmetric ==
  ASSUME NEW p, IsFiniteSet(p.blocks), NEW x, NEW y, Reachable(p, x),
         Dominates(p, x, y), Dominates(p, y, x)
  PROVE  x = y
<1>. DEFINE X == ReachedWithout(p, x)
            Y == ReachedWithout(p, y)
<1>. SUFFICES ASSUME x # y PROVE FALSE
  OBVIOUS
<1>1. X \subseteq p.blocks \ {x} /\ Spreads(p, x, X) /\ Y \subseteq p.blocks \ {y} /\ Spreads(p, y, Y)
  BY ReachedFacts
<1>2. y \notin X /\ x \notin Y
  BY DEF Dominates
<1>. HIDE DEF X, Y
<1>3. Roots(p) \subseteq X \cap Y
  BY <1>1, <1>2 DEF Spreads
<1>4. \A a \in X \cap Y : \A c \in p.blocks : Flows(p, a, c) => c \in X \cap Y
  BY <1>1, <1>2 DEF Spreads
<1>5. x \in X \cap Y
  BY <1>1, <1>3, <1>4 DEF Reachable
<1>. QED  BY <1>1, <1>5

(***************************************************************************)
(* What a verified function gives.                                         *)
(***************************************************************************)

LEMMA VerifiedFacts ==
  ASSUME NEW p \in Programs
  PROVE  /\ IsProgram(p) /\ EdgesFit(p) /\ DefinedOnce(p) /\ Built(p)
         /\ IsFiniteSet(p.blocks) /\ p.entry \in p.blocks
         /\ \A use \in Uses(p) : DefinedBeforeUse(p, use)
BY ProgramsAssumption DEF Verified, IsProgram

(* v is an argument of block b, and nothing else.                          *)
ArgumentOf(p, v, b) ==
  /\ <<v, b, 0>> \in Definitions(p)
  /\ \A d \in Definitions(p) : d[1] = v => d[2] = b /\ d[3] = 0

LEMMA ArgumentIsDefinition ==
  ASSUME NEW p, NEW b \in p.blocks, NEW k \in DOMAIN p.arguments[b]
  PROVE  <<p.arguments[b][k], b, 0>> \in Definitions(p)
<1>. DEFINE of(a) == {<<p.arguments[a][j], a, 0>> : j \in DOMAIN p.arguments[a]}
<1>1. <<p.arguments[b][k], b, 0>> \in of(b)
  OBVIOUS
<1>2. <<p.arguments[b][k], b, 0>> \in UNION {of(a) : a \in p.blocks}
  <2>. HIDE DEF of
  <2>. QED  BY <1>1
<1>. QED  BY <1>2 DEF Definitions

LEMMA ArgumentFacts ==
  ASSUME NEW p \in Programs, NEW b \in p.blocks, NEW k \in DOMAIN p.arguments[b]
  PROVE  p.arguments[b][k] \in Values /\ ArgumentOf(p, p.arguments[b][k], b)
<1>1. IsProgram(p) /\ DefinedOnce(p) /\ p.arguments[b] \in Seq(Values)
  BY VerifiedFacts DEF IsProgram
<1>2. p.arguments[b][k] \in Values
  BY <1>1
<1>3. <<p.arguments[b][k], b, 0>> \in Definitions(p)
  BY ArgumentIsDefinition
<1>4. ASSUME NEW d \in Definitions(p), d[1] = p.arguments[b][k]
      PROVE  d[2] = b /\ d[3] = 0
  <2>1. d = <<p.arguments[b][k], b, 0>>
    BY <1>1, <1>3, <1>4 DEF DefinedOnce
  <2>. QED  BY <2>1
<1>. QED  BY <1>2, <1>3, <1>4 DEF ArgumentOf

(* A block with arguments is no handler: what enters it passes them.       *)
LEMMA EntersByEdge ==
  ASSUME NEW p \in Programs, NEW b \in p.blocks, p.arguments[b] # <<>>,
         NEW a \in p.blocks, Flows(p, a, b)
  PROVE  \E e \in Edges(p) : e[1] = a /\ Target(p, e) = b
<1>1. p.handler[a] # b
  <2>1. NoBlock \notin p.blocks /\ Built(p)
    BY VerifiedFacts DEF IsProgram
  <2>. QED  BY <2>1 DEF Built
<1>2. PICK i \in DOMAIN p.next[a] : p.next[a][i] = b
  BY <1>1 DEF Flows
<1>3. <<a, i>> \in Edges(p) /\ Target(p, <<a, i>>) = b
  BY <1>2 DEF Edges, Target
<1>. QED  BY <1>3

(* The operands of instructions and terminators are uses.                  *)
LEMMA OperandsAreUses ==
  ASSUME NEW p, NEW b \in p.blocks
  PROVE  /\ \A k \in DOMAIN p.code[b] : \A j \in DOMAIN p.code[b][k].reads :
              <<p.code[b][k].reads[j], b, k>> \in Uses(p)
         /\ \A j \in DOMAIN p.tests[b] : <<p.tests[b][j], b, Len(p.code[b]) + 1>> \in Uses(p)
         /\ \A i \in DOMAIN p.actuals[b] : \A k \in DOMAIN p.actuals[b][i] :
              <<p.actuals[b][i][k], b, Len(p.code[b]) + 1>> \in Uses(p)
<1>. DEFINE inner(a, k) == {<<v, a, k>> : v \in Elements(p.code[a][k].reads)}
            code(a) == UNION {inner(a, k) : k \in DOMAIN p.code[a]}
            operands(a) == Elements(p.tests[a]) \cup UNION {Elements(x) : x \in Elements(p.actuals[a])}
            last(a) == {<<v, a, Len(p.code[a]) + 1>> : v \in operands(a)}
<1>1. Uses(p) = (UNION {code(a) : a \in p.blocks}) \cup (UNION {last(a) : a \in p.blocks})
  BY DEF Uses
<1>2. \A k \in DOMAIN p.code[b] : \A j \in DOMAIN p.code[b][k].reads :
        <<p.code[b][k].reads[j], b, k>> \in inner(b, k)
  BY DEF Elements
<1>3. \A k \in DOMAIN p.code[b] : inner(b, k) \subseteq code(b)
  <2>. HIDE DEF inner
  <2>. QED  OBVIOUS
<1>4. code(b) \subseteq Uses(p) /\ last(b) \subseteq Uses(p)
  <2>. HIDE DEF code, last
  <2>. QED  BY <1>1
<1>5. \A j \in DOMAIN p.tests[b] : p.tests[b][j] \in operands(b)
  BY DEF Elements
<1>6. ASSUME NEW i \in DOMAIN p.actuals[b], NEW k \in DOMAIN p.actuals[b][i]
      PROVE  p.actuals[b][i][k] \in operands(b)
  <2>1. p.actuals[b][i] \in Elements(p.actuals[b])
    BY DEF Elements
  <2>2. p.actuals[b][i][k] \in Elements(p.actuals[b][i])
    BY DEF Elements
  <2>. QED  BY <2>1, <2>2
<1>7. \A v \in operands(b) : <<v, b, Len(p.code[b]) + 1>> \in last(b)
  <2>. HIDE DEF operands
  <2>. QED  OBVIOUS
<1>. HIDE DEF inner, code, operands, last
<1>. QED  BY <1>2, <1>3, <1>4, <1>5, <1>6, <1>7

LEMMA EdgeFacts ==
  ASSUME NEW p \in Programs, NEW e \in Edges(p)
  PROVE  /\ e[1] \in p.blocks /\ e[2] \in DOMAIN p.next[e[1]] /\ Target(p, e) \in p.blocks
         /\ e = <<e[1], e[2]>>
         /\ Flows(p, e[1], Target(p, e))
         /\ Actuals(p, e) \in Seq(Values)
         /\ DOMAIN Actuals(p, e) = DOMAIN p.arguments[Target(p, e)]
         /\ \A k \in DOMAIN Actuals(p, e) :
              <<Actuals(p, e)[k], e[1], Len(p.code[e[1]]) + 1>> \in Uses(p)
<1>1. PICK b \in p.blocks : \E i \in DOMAIN p.next[b] : e = <<b, i>>
  BY DEF Edges
<1>2. PICK i \in DOMAIN p.next[b] : e = <<b, i>>
  BY <1>1
<1>3. IsProgram(p) /\ EdgesFit(p)
  BY VerifiedFacts
<1>4. p.actuals[b] \in Seq(Seq(Values)) /\ p.arguments \in [p.blocks -> Seq(Values)]
  BY <1>3 DEF IsProgram
<1>5. /\ i \in DOMAIN p.actuals[b] /\ p.next[b][i] \in p.blocks
      /\ Len(p.actuals[b][i]) = Len(p.arguments[p.next[b][i]])
  BY <1>3 DEF EdgesFit
<1>6. p.actuals[b][i] \in Seq(Values) /\ DOMAIN p.actuals[b][i] = DOMAIN p.arguments[p.next[b][i]]
  BY <1>4, <1>5
<1>7. Target(p, e) = p.next[b][i] /\ Actuals(p, e) = p.actuals[b][i] /\ e[1] = b /\ e[2] = i
  BY <1>2 DEF Target, Actuals
<1>8. Flows(p, b, p.next[b][i])
  BY DEF Flows
<1>9. ASSUME NEW k \in DOMAIN p.actuals[b][i]
      PROVE  <<p.actuals[b][i][k], b, Len(p.code[b]) + 1>> \in Uses(p)
  BY <1>5, OperandsAreUses
<1>. QED  BY <1>2, <1>5, <1>6, <1>7, <1>8, <1>9

(* A value used in a block is defined there or in a block that dominates.  *)
LEMMA UsedBelow ==
  ASSUME NEW p \in Programs, NEW use \in Uses(p)
  PROVE  /\ \E d \in Definitions(p) : d[1] = use[1]
         /\ \A d \in Definitions(p) : d[1] = use[1] =>
              /\ Dominates(p, d[2], use[2])
              /\ d[2] = use[2] => d[3] < use[3]
<1>1. PICK d \in Definitions(p) :
        /\ d[1] = use[1]
        /\ IF d[2] = use[2] THEN d[3] < use[3] ELSE Dominates(p, d[2], use[2])
  BY VerifiedFacts DEF DefinedBeforeUse
<1>2. IsFiniteSet(p.blocks)
  BY VerifiedFacts
<1>3. Dominates(p, d[2], use[2])
  BY <1>1, <1>2, DominanceReflexive
<1>4. \A e \in Definitions(p) : e[1] = use[1] => e = d
  BY <1>1, VerifiedFacts DEF DefinedOnce
<1>. QED  BY <1>1, <1>3, <1>4

(***************************************************************************)
(* Substitutions.                                                          *)
(***************************************************************************)

(* r leads each value to the end of its chain of copies; no chain is a     *)
(* cycle, as each link goes down in rank.                                  *)
Ranked(s, r, rank) ==
  /\ DOMAIN s \subseteq Values
  /\ r \in [Values -> Values] /\ rank \in [Values -> Nat]
  /\ \A w \in Values : w \notin DOMAIN s => r[w] = w /\ rank[w] = 0
  /\ \A w \in DOMAIN s :
       /\ s[w] \in Values /\ rank[s[w]] < rank[w]
       /\ r[w] = r[s[w]] /\ r[w] \notin DOMAIN s

LEMMA ResolveLeads ==
  ASSUME NEW s, NEW r, NEW rank, Ranked(s, r, rank)
  PROVE  \A v \in Values : Resolve(s, v) = r[v]
<1>. DEFINE last == CHOOSE h : h = [w \in Values |-> IF w \in DOMAIN s THEN h[s[w]] ELSE w]
<1>1. \A v \in Values : Resolve(s, v) = last[v]
  BY DEF Resolve
<1>2. r = [w \in Values |-> IF w \in DOMAIN s THEN r[s[w]] ELSE w]
  <2>1. \A w \in Values : r[w] = IF w \in DOMAIN s THEN r[s[w]] ELSE w
    BY DEF Ranked
  <2>2. r = [w \in Values |-> r[w]]
    BY DEF Ranked
  <2>. QED  BY <2>1, <2>2
<1>3. last = [w \in Values |-> IF w \in DOMAIN s THEN last[s[w]] ELSE w]
  BY <1>2
<1>. HIDE DEF last
<1>4. \A w \in Values : last[w] = IF w \in DOMAIN s THEN last[s[w]] ELSE w
  BY <1>3, Zenon
<1>5. ASSUME NEW v \in Values, last[v] # r[v]
      PROVE  FALSE
  <2>. DEFINE ranks == {rank[w] : w \in {u \in Values : last[u] # r[u]}}
  <2>1. ranks # {} /\ ranks \subseteq Nat
    BY <1>5 DEF Ranked
  <2>2. PICK m \in ranks : \A x \in ranks : m <= x
    <3>. HIDE DEF ranks
    <3>. QED  BY <2>1, Least
  <2>3. PICK w \in Values : last[w] # r[w] /\ rank[w] = m
    BY <2>2
  <2>4. w \in DOMAIN s /\ last[w] = last[s[w]]
    BY <1>4, <2>3 DEF Ranked
  <2>5. s[w] \in Values /\ rank[s[w]] < rank[w] /\ r[w] = r[s[w]] /\ rank[s[w]] \in Nat /\ rank[w] \in Nat
    BY <2>3, <2>4 DEF Ranked
  <2>6. rank[s[w]] \in ranks
    BY <2>3, <2>4, <2>5
  <2>7. m <= rank[s[w]]
    BY <2>2, <2>6
  <2>. QED  BY <2>3, <2>5, <2>7
<1>. QED  BY <1>1, <1>5

LEMMA CompressionKeepsEnds ==
  ASSUME NEW s, NEW r, NEW rank, Ranked(s, r, rank), NEW V
  PROVE  /\ DOMAIN Compressed(s, V) = DOMAIN s
         /\ Ranked(Compressed(s, V), r, rank)
<1>. DEFINE t == Compressed(s, V)
<1>1. DOMAIN t = DOMAIN s
  BY DEF Compressed
<1>2. \A w \in DOMAIN s : t[w] = s[w] \/ t[w] = r[w]
  <2>1. \A w \in DOMAIN s : t[w] = s[w] \/ t[w] = Resolve(s, w)
    BY DEF Compressed
  <2>2. \A w \in DOMAIN s : w \in Values
    BY DEF Ranked
  <2>. QED  BY <2>1, <2>2, ResolveLeads
<1>. HIDE DEF t
<1>3. ASSUME NEW w \in DOMAIN s
      PROVE  /\ t[w] \in Values /\ rank[t[w]] < rank[w]
             /\ r[w] = r[t[w]] /\ r[w] \notin DOMAIN s
  <2>1. /\ w \in Values /\ s[w] \in Values /\ rank[s[w]] < rank[w] /\ rank[s[w]] \in Nat
        /\ rank[w] \in Nat /\ r[w] = r[s[w]] /\ r[w] \notin DOMAIN s /\ r[w] \in Values
    BY <1>3 DEF Ranked
  <2>2. rank[r[w]] = 0 /\ r[r[w]] = r[w]
    BY <2>1 DEF Ranked
  <2>3. rank[r[w]] < rank[w]
    BY <2>1, <2>2
  <2>. QED  BY <1>2, <2>1, <2>2, <2>3
<1>4. Ranked(t, r, rank)
  BY <1>1, <1>3 DEF Ranked
<1>. QED  BY <1>1, <1>4 DEF t

Extended(s, v, common) == [w \in DOMAIN s \cup {v} |-> IF w \in DOMAIN s THEN s[w] ELSE common]

Merged(r, v, common) == [w \in Values |-> IF r[w] = v THEN common ELSE r[w]]

LEMMA ReplacementRanked ==
  ASSUME NEW s, NEW r, NEW rank, Ranked(s, r, rank),
         NEW v \in Values, v \notin DOMAIN s,
         NEW common \in Values, common \notin DOMAIN s, common # v
  PROVE  \E higher : Ranked(Extended(s, v, common), Merged(r, v, common), higher)
<1>. DEFINE t == Extended(s, v, common)
            q == Merged(r, v, common)
            higher == [w \in Values |-> IF w = v THEN 1 ELSE IF w \in DOMAIN s THEN rank[w] + 1 ELSE 0]
<1>1. /\ DOMAIN s \subseteq Values
      /\ \A w \in Values : r[w] \in Values /\ rank[w] \in Nat
      /\ \A w \in Values : w \notin DOMAIN s => r[w] = w /\ rank[w] = 0
      /\ \A w \in DOMAIN s :
           /\ s[w] \in Values /\ rank[s[w]] < rank[w]
           /\ r[w] = r[s[w]] /\ r[w] \notin DOMAIN s
  BY DEF Ranked
<1>2. DOMAIN t = DOMAIN s \cup {v} /\ t[v] = common /\ \A w \in DOMAIN s : t[w] = s[w]
  BY DEF Extended
<1>3. q \in [Values -> Values] /\ \A w \in Values : q[w] = IF r[w] = v THEN common ELSE r[w]
  BY <1>1 DEF Merged
<1>4. higher \in [Values -> Nat]
  BY <1>1
<1>5. /\ higher[v] = 1
      /\ \A w \in DOMAIN s : higher[w] = rank[w] + 1
      /\ \A w \in Values : w # v /\ w \notin DOMAIN s => higher[w] = 0
  BY <1>1
<1>. HIDE DEF t, q, higher
<1>6. \A w \in Values : w \notin DOMAIN t => q[w] = w /\ higher[w] = 0
  BY <1>1, <1>2, <1>3, <1>5
<1>7. t[v] \in Values /\ higher[t[v]] < higher[v] /\ q[v] = q[t[v]] /\ q[v] \notin DOMAIN t
  BY <1>1, <1>2, <1>3, <1>5
<1>8. ASSUME NEW w \in DOMAIN s
      PROVE  /\ t[w] \in Values /\ higher[t[w]] < higher[w]
             /\ q[w] = q[t[w]] /\ q[w] \notin DOMAIN t
  <2>1. q[w] = q[t[w]] /\ q[w] \notin DOMAIN t /\ t[w] \in Values
    BY <1>1, <1>2, <1>3
  <2>2. /\ t[w] = s[w] /\ rank[s[w]] < rank[w] /\ rank[s[w]] \in Nat /\ rank[w] \in Nat
        /\ higher[w] = rank[w] + 1
    BY <1>1, <1>2, <1>5
  <2>3. CASE s[w] = v
    <3>1. higher[t[w]] = 1 /\ rank[w] >= 1
      BY <1>5, <2>2, <2>3
    <3>. QED  BY <2>1, <2>2, <3>1
  <2>4. CASE s[w] \in DOMAIN s
    BY <1>5, <2>1, <2>2, <2>4
  <2>5. CASE s[w] # v /\ s[w] \notin DOMAIN s
    <3>1. higher[t[w]] = 0
      BY <1>1, <1>5, <2>2, <2>5
    <3>. QED  BY <2>1, <2>2, <3>1
  <2>. QED  BY <2>3, <2>4, <2>5
<1>9. Ranked(t, q, higher)
  BY <1>1, <1>2, <1>3, <1>4, <1>6, <1>7, <1>8 DEF Ranked
<1>. QED  BY <1>9 DEF t, q

(***************************************************************************)
(* What holds of a value and what it is replaced by.                       *)
(***************************************************************************)

(* Some edge enters b, and all that do pass, as argument k, copies of u.   *)
PassedOne(p, r, b, k, u) ==
  /\ \E e \in Edges(p) : Target(p, e) = b
  /\ \A e \in Edges(p) : Target(p, e) = b => r[Actuals(p, e)[k]] = u

Agreeing(p, s, r) ==
  \A v \in DOMAIN s : \E b \in p.blocks : \E k \in DOMAIN p.arguments[b] :
    v = p.arguments[b][k] /\ PassedOne(p, r, b, k, r[v])

(* The end of a chain is defined above the values it replaces.             *)
Above(p, s, r) ==
  \A v \in DOMAIN s : \A d, f \in Definitions(p) :
    d[1] = r[v] /\ f[1] = v => Dominates(p, d[2], f[2])

LEMMA EnteredByEdges ==
  ASSUME NEW p \in Programs, NEW e \in Edges(p)
  PROVE  Target(p, e) # p.entry /\ Target(p, e) \notin Roots(p)
<1>1. e[1] \in p.blocks /\ Flows(p, e[1], Target(p, e))
  BY EdgeFacts
<1>2. \A a \in p.blocks : ~ Flows(p, a, p.entry)
  BY VerifiedFacts DEF Built
<1>3. Target(p, e) # p.entry
  BY <1>1, <1>2
<1>. QED  BY <1>1, <1>3 DEF Roots

LEMMA CommonAbovePredecessors ==
  ASSUME NEW p \in Programs, NEW s, NEW r, NEW rank, Ranked(s, r, rank), Above(p, s, r),
         NEW b \in p.blocks, NEW k \in DOMAIN p.arguments[b], NEW u, PassedOne(p, r, b, k, u),
         NEW d \in Definitions(p), d[1] = u,
         NEW a \in p.blocks, Flows(p, a, b)
  PROVE  Dominates(p, d[2], a)
<1>1. PICK f \in Edges(p) : f[1] = a /\ Target(p, f) = b
  <2>1. p.arguments[b] # <<>>
    OBVIOUS
  <2>. QED  BY <2>1, EntersByEdge
<1>. DEFINE w == Actuals(p, f)[k]
            use == <<w, a, Len(p.code[a]) + 1>>
<1>2. w \in Values /\ use \in Uses(p) /\ IsFiniteSet(p.blocks)
  BY <1>1, EdgeFacts, VerifiedFacts
<1>3. r[w] = u
  BY <1>1 DEF PassedOne
<1>. HIDE DEF w
<1>4. use[1] = w /\ use[2] = a
  OBVIOUS
<1>. HIDE DEF use
<1>5. PICK g \in Definitions(p) : g[1] = w
  BY <1>2, <1>4, UsedBelow
<1>6. Dominates(p, g[2], a)
  BY <1>2, <1>4, <1>5, UsedBelow
<1>7. CASE w \in DOMAIN s
  <2>1. Dominates(p, d[2], g[2])
    BY <1>3, <1>5, <1>7 DEF Above
  <2>. QED  BY <1>2, <1>6, <2>1, DominanceTransitive
<1>8. CASE w \notin DOMAIN s
  <2>1. u = w
    BY <1>2, <1>3, <1>8 DEF Ranked
  <2>2. d[1] = use[1]
    BY <1>4, <2>1
  <2>. QED  BY <1>2, <1>4, <2>2, UsedBelow
<1>. QED  BY <1>7, <1>8

LEMMA CommonAbove ==
  ASSUME NEW p \in Programs, NEW s, NEW r, NEW rank, Ranked(s, r, rank), Above(p, s, r),
         NEW b \in p.blocks, NEW k \in DOMAIN p.arguments[b], NEW u, PassedOne(p, r, b, k, u),
         NEW d \in Definitions(p), d[1] = u
  PROVE  Dominates(p, d[2], b)
<1>1. PICK e \in Edges(p) : Target(p, e) = b
  BY DEF PassedOne
<1>2. b \notin Roots(p) /\ IsFiniteSet(p.blocks)
  BY <1>1, EnteredByEdges, VerifiedFacts
<1>. QED  BY <1>2, CommonAbovePredecessors, DominatesThroughPredecessors

LEMMA ReplacementKeepsCopies ==
  ASSUME NEW p \in Programs, NEW s, NEW r, NEW rank, Ranked(s, r, rank),
         Agreeing(p, s, r), Above(p, s, r),
         NEW b \in p.blocks, NEW k \in DOMAIN p.arguments[b], p.arguments[b][k] \notin DOMAIN s,
         NEW common \in Values, common # p.arguments[b][k], PassedOne(p, r, b, k, common)
  PROVE  LET v == p.arguments[b][k]
         IN  /\ Agreeing(p, Extended(s, v, common), Merged(r, v, common))
             /\ Above(p, Extended(s, v, common), Merged(r, v, common))
<1>. DEFINE v == p.arguments[b][k]
            t == Extended(s, v, common)
            q == Merged(r, v, common)
<1>1. /\ v \in Values /\ <<v, b, 0>> \in Definitions(p)
      /\ \A d \in Definitions(p) : d[1] = v => d[2] = b
  BY ArgumentFacts DEF ArgumentOf
<1>2. DOMAIN t = DOMAIN s \cup {v}
  BY DEF Extended
<1>3. \A w \in Values : q[w] = IF r[w] = v THEN common ELSE r[w]
  BY DEF Merged
<1>4. DOMAIN s \subseteq Values /\ r[v] = v
  BY <1>1 DEF Ranked
<1>5. \A e \in Edges(p) : \A j \in DOMAIN p.arguments[Target(p, e)] : Actuals(p, e)[j] \in Values
  BY EdgeFacts
<1>6. v \notin DOMAIN s /\ common # v
  OBVIOUS
<1>7. \A d \in Definitions(p) : d[1] = common => Dominates(p, d[2], b)
  BY CommonAbove
<1>8. IsFiniteSet(p.blocks)
  BY VerifiedFacts
<1>9. k \in DOMAIN p.arguments[b] /\ v = p.arguments[b][k] /\ PassedOne(p, r, b, k, common)
  OBVIOUS
<1>. HIDE DEF t, q, v
<1>10. Agreeing(p, t, q)
  <2>1. ASSUME NEW w \in DOMAIN s
        PROVE  \E c \in p.blocks : \E j \in DOMAIN p.arguments[c] :
                 w = p.arguments[c][j] /\ PassedOne(p, q, c, j, q[w])
    <3>1. PICK c \in p.blocks : \E j \in DOMAIN p.arguments[c] :
            w = p.arguments[c][j] /\ PassedOne(p, r, c, j, r[w])
      BY DEF Agreeing
    <3>2. PICK j \in DOMAIN p.arguments[c] : w = p.arguments[c][j] /\ PassedOne(p, r, c, j, r[w])
      BY <3>1
    <3>3. PassedOne(p, q, c, j, q[w])
      BY <1>3, <1>4, <1>5, <3>2 DEF PassedOne
    <3>. QED  BY <3>2, <3>3
  <2>2. PassedOne(p, q, b, k, q[v])
    <3>1. q[v] = common
      BY <1>1, <1>3, <1>4
    <3>. QED  BY <1>3, <1>5, <1>6, <1>9, <3>1 DEF PassedOne
  <2>3. \A w \in DOMAIN t : w \in DOMAIN s \/ w = v
    BY <1>2
  <2>. QED  BY <1>9, <2>1, <2>2, <2>3 DEF Agreeing
<1>11. ASSUME NEW w \in DOMAIN t, NEW d \in Definitions(p), NEW f \in Definitions(p),
              d[1] = q[w], f[1] = w
       PROVE  Dominates(p, d[2], f[2])
  <2>1. CASE w = v
    <3>1. d[1] = common /\ f[2] = b
      BY <1>1, <1>3, <1>4, <1>11, <2>1
    <3>. QED  BY <1>7, <3>1
  <2>2. CASE w \in DOMAIN s /\ r[w] = v
    <3>1. Dominates(p, b, f[2])
      <4>. DEFINE g == <<v, b, 0>>
      <4>1. g \in Definitions(p) /\ g[1] = r[w] /\ g[2] = b
        BY <1>1, <2>2
      <4>. HIDE DEF g
      <4>2. Dominates(p, g[2], f[2])
        BY <1>11, <2>2, <4>1 DEF Above
      <4>. QED  BY <4>1, <4>2
    <3>2. d[1] = common
      BY <1>3, <1>4, <1>11, <2>2
    <3>. QED  BY <1>7, <1>8, <3>1, <3>2, DominanceTransitive
  <2>3. CASE w \in DOMAIN s /\ r[w] # v
    <3>1. d[1] = r[w]
      BY <1>3, <1>4, <1>11, <2>3
    <3>. QED  BY <1>11, <2>3, <3>1 DEF Above
  <2>. QED  BY <1>2, <2>1, <2>2, <2>3
<1>12. Above(p, t, q)
  BY <1>11 DEF Above
<1>. QED  BY <1>10, <1>12 DEF t, q, v

(***************************************************************************)
(* Values in a run.                                                        *)
(***************************************************************************)

(* The definition of v dominates b.                                        *)
Sees(p, v, b) == \E d \in Definitions(p) : d[1] = v /\ Dominates(p, d[2], b)

(* Where a replaced value is seen, the value it stands for is not defined: *)
(* neither is assigned anew.                                               *)
LEMMA DefinedElsewhere ==
  ASSUME NEW p \in Programs, NEW s, NEW r, NEW rank, Ranked(s, r, rank),
         Agreeing(p, s, r), Above(p, s, r),
         NEW b, Reachable(p, b), NEW v \in DOMAIN s, Sees(p, v, b),
         NEW g \in Definitions(p), g[1] = r[v]
  PROVE  g[2] # b
<1>1. PICK c \in p.blocks : \E k \in DOMAIN p.arguments[c] :
        v = p.arguments[c][k] /\ PassedOne(p, r, c, k, r[v])
  BY DEF Agreeing
<1>2. PICK k \in DOMAIN p.arguments[c] : v = p.arguments[c][k] /\ PassedOne(p, r, c, k, r[v])
  BY <1>1
<1>3. IsFiniteSet(p.blocks) /\ p.entry \in p.blocks
  BY VerifiedFacts
<1>4. ArgumentOf(p, v, c)
  BY <1>2, ArgumentFacts
<1>5. Dominates(p, c, b)
  BY <1>4 DEF Sees, ArgumentOf
<1>6. Dominates(p, g[2], c)
  BY <1>2, CommonAbove
<1>7. c \notin Roots(p)
  BY <1>2, EnteredByEdges DEF PassedOne
<1>8. PICK a \in ReachedWithout(p, c) : Flows(p, a, c)
  BY <1>3, <1>5, <1>7, EnteredFrom
<1>9. a \in p.blocks
  BY <1>3, ReachedFacts
<1>10. Dominates(p, g[2], a)
  BY <1>2, <1>8, <1>9, CommonAbovePredecessors
<1>11. g[2] # c
  BY <1>8, <1>10 DEF Dominates
<1>12. g[2] = b => b = c
  BY <1>3, <1>5, <1>6, DominanceAntisymmetric
<1>. QED  BY <1>11, <1>12

(* In a run: what is seen and was replaced equals what it stands for.      *)
CopiesHold(p, s, r, e, b) == \A v \in DOMAIN s : Sees(p, v, b) => e[v] = e[r[v]]

LEMMA InstructionFacts ==
  ASSUME NEW p, NEW b \in p.blocks, NEW k \in DOMAIN p.code[b], NEW v \in p.code[b][k].defines
  PROVE  <<v, b, k>> \in Definitions(p)
<1>. DEFINE inner(a, j) == {<<w, a, j>> : w \in p.code[a][j].defines}
            code(a) == UNION {inner(a, j) : j \in DOMAIN p.code[a]}
<1>1. UNION {code(a) : a \in p.blocks} \subseteq Definitions(p)
  BY DEF Definitions
<1>2. <<v, b, k>> \in inner(b, k)
  OBVIOUS
<1>3. <<v, b, k>> \in code(b)
  <2>. HIDE DEF inner
  <2>. QED  BY <1>2
<1>. HIDE DEF code
<1>. QED  BY <1>1, <1>3

LEMMA NotAssigned ==
  ASSUME NEW p \in Programs, NEW b \in p.blocks, NEW e, NEW n \in 0..Len(p.code[b]), NEW v \in Values,
         \A d \in Definitions(p) : d[1] = v => d[2] # b \/ d[3] = 0
  PROVE  After(p, b, e, n)[v] = e[v]
<1>1. IsProgram(p)
  BY VerifiedFacts
<1>2. Len(p.code[b]) \in Nat /\ DOMAIN p.code[b] = 1..Len(p.code[b])
  BY <1>1 DEF IsProgram
<1>3. ASSUME NEW k \in 1..n, v \in p.code[b][k].defines
      PROVE  FALSE
  <2>1. k \in DOMAIN p.code[b] /\ k # 0
    BY <1>2
  <2>. DEFINE d == <<v, b, k>>
  <2>2. d \in Definitions(p)
    BY <1>3, <2>1, InstructionFacts
  <2>3. d[1] = v /\ d[2] = b /\ d[3] = k
    OBVIOUS
  <2>. HIDE DEF d
  <2>. QED  BY <2>1, <2>2, <2>3
<1>. QED  BY <1>3 DEF After

LEMMA CopiesWithin ==
  ASSUME NEW p \in Programs, NEW s, NEW r, NEW rank, Ranked(s, r, rank),
         Agreeing(p, s, r), Above(p, s, r),
         NEW b, Reachable(p, b), NEW e, CopiesHold(p, s, r, e, b),
         NEW n \in 0..Len(p.code[b])
  PROVE  CopiesHold(p, s, r, After(p, b, e, n), b)
<1>1. b \in p.blocks
  BY VerifiedFacts, ReachableBlocks
<1>2. ASSUME NEW v \in DOMAIN s, Sees(p, v, b)
      PROVE  After(p, b, e, n)[v] = After(p, b, e, n)[r[v]]
  <2>1. v \in Values /\ r[v] \in Values
    BY <1>2 DEF Ranked
  <2>2. \A d \in Definitions(p) : d[1] = v => d[3] = 0
    <3>1. PICK c \in p.blocks : \E k \in DOMAIN p.arguments[c] : v = p.arguments[c][k]
      BY <1>2 DEF Agreeing
    <3>2. ArgumentOf(p, v, c)
      BY <3>1, ArgumentFacts
    <3>. QED  BY <3>2 DEF ArgumentOf
  <2>3. \A d \in Definitions(p) : d[1] = r[v] => d[2] # b
    BY <1>2, DefinedElsewhere
  <2>4. After(p, b, e, n)[v] = e[v]
    BY <1>1, <2>1, <2>2, NotAssigned
  <2>5. After(p, b, e, n)[r[v]] = e[r[v]]
    BY <1>1, <2>1, <2>3, NotAssigned
  <2>. QED  BY <1>2, <2>4, <2>5 DEF CopiesHold
<1>. QED  BY <1>2 DEF CopiesHold

(* So an operand equals what it is replaced by.                            *)
LEMMA OperandIsCopy ==
  ASSUME NEW p \in Programs, NEW s, NEW r, NEW rank, Ranked(s, r, rank),
         Agreeing(p, s, r), Above(p, s, r),
         NEW b, Reachable(p, b), NEW e, CopiesHold(p, s, r, e, b),
         NEW n \in 0..Len(p.code[b]), NEW use \in Uses(p), use[2] = b, use[1] \in Values
  PROVE  After(p, b, e, n)[use[1]] = After(p, b, e, n)[r[use[1]]]
<1>1. CASE use[1] \in DOMAIN s
  <2>1. Sees(p, use[1], b)
    BY UsedBelow DEF Sees
  <2>2. CopiesHold(p, s, r, After(p, b, e, n), b)
    BY CopiesWithin
  <2>. QED  BY <1>1, <2>1, <2>2 DEF CopiesHold
<1>2. CASE use[1] \notin DOMAIN s
  BY <1>2 DEF Ranked
<1>. QED  BY <1>1, <1>2

LEMMA EnteredFacts ==
  ASSUME NEW p \in Programs, NEW b \in p.blocks, NEW e, NEW actuals
  PROVE  /\ \A k \in DOMAIN p.arguments[b] :
              Entered(p, b, e, actuals)[p.arguments[b][k]] = e[actuals[k]]
         /\ \A v \in Values : (\A k \in DOMAIN p.arguments[b] : p.arguments[b][k] # v)
              => Entered(p, b, e, actuals)[v] = e[v]
<1>1. ASSUME NEW k \in DOMAIN p.arguments[b]
      PROVE  Entered(p, b, e, actuals)[p.arguments[b][k]] = e[actuals[k]]
  <2>. DEFINE v == p.arguments[b][k]
              j == CHOOSE j \in DOMAIN p.arguments[b] : p.arguments[b][j] = v
  <2>1. v \in Values
    BY ArgumentFacts
  <2>2. j \in DOMAIN p.arguments[b] /\ p.arguments[b][j] = v
    OBVIOUS
  <2>3. Entered(p, b, e, actuals)[v] = e[actuals[j]]
    BY <2>1 DEF Entered
  <2>. HIDE DEF j
  <2>4. j = k
    BY <2>2, VerifiedFacts DEF DefinedOnce
  <2>. QED  BY <2>3, <2>4
<1>2. ASSUME NEW v \in Values, \A k \in DOMAIN p.arguments[b] : p.arguments[b][k] # v
      PROVE  Entered(p, b, e, actuals)[v] = e[v]
  BY <1>2 DEF Entered
<1>. QED  BY <1>1, <1>2

LEMMA CopyAlong ==
  ASSUME NEW p \in Programs, NEW s, NEW r, NEW rank, Ranked(s, r, rank),
         Agreeing(p, s, r), Above(p, s, r),
         NEW b, Reachable(p, b), NEW e, CopiesHold(p, s, r, e, b), NEW i \in DOMAIN p.next[b],
         NEW v \in DOMAIN s, Sees(p, v, p.next[b][i])
  PROVE  Along(p, b, e, i)[v] = Along(p, b, e, i)[r[v]]
<1>. DEFINE c == p.next[b][i]
            end == AtEnd(p, b, e)
            actuals == p.actuals[b][i]
            edge == <<b, i>>
<1>1. b \in p.blocks /\ IsProgram(p) /\ IsFiniteSet(p.blocks)
  BY VerifiedFacts, ReachableBlocks
<1>2. edge \in Edges(p)
  BY <1>1 DEF Edges
<1>3. edge[1] = b /\ Target(p, edge) = c /\ Actuals(p, edge) = actuals
  BY DEF Target, Actuals
<1>4. c \in p.blocks /\ Flows(p, b, c)
  BY <1>2, <1>3, EdgeFacts
<1>5. Reachable(p, c)
  BY <1>4, ReachableOnwards
<1>6. Along(p, b, e, i) = Entered(p, c, end, actuals)
  BY DEF Along
<1>7. Len(p.code[b]) \in 0..Len(p.code[b])
  BY <1>1 DEF IsProgram
<1>8. CopiesHold(p, s, r, end, b)
  BY <1>7, CopiesWithin DEF AtEnd
<1>9. ASSUME NEW use \in Uses(p), use[2] = b, use[1] \in Values
      PROVE  end[use[1]] = end[r[use[1]]]
  BY <1>7, <1>9, OperandIsCopy DEF AtEnd
<1>10. v \in Values /\ r[v] \in Values /\ Sees(p, v, c)
  BY DEF Ranked
<1>11. PICK d \in p.blocks : \E k \in DOMAIN p.arguments[d] :
         v = p.arguments[d][k] /\ PassedOne(p, r, d, k, r[v])
  BY DEF Agreeing
<1>12. PICK k \in DOMAIN p.arguments[d] : v = p.arguments[d][k] /\ PassedOne(p, r, d, k, r[v])
  BY <1>11
<1>13. ArgumentOf(p, v, d)
  BY <1>12, ArgumentFacts
<1>14. DOMAIN actuals = DOMAIN p.arguments[c] /\
       \A j \in DOMAIN actuals : actuals[j] \in Values /\ <<actuals[j], b, Len(p.code[b]) + 1>> \in Uses(p)
  BY <1>2, <1>3, EdgeFacts
<1>. HIDE DEF c, end, actuals, edge
<1>15. Entered(p, c, end, actuals)[r[v]] = end[r[v]]
  <2>1. ASSUME NEW j \in DOMAIN p.arguments[c], p.arguments[c][j] = r[v]
        PROVE  FALSE
    <3>1. ArgumentOf(p, r[v], c)
      BY <1>4, <2>1, ArgumentFacts
    <3>. DEFINE g == <<r[v], c, 0>>
    <3>2. g \in Definitions(p) /\ g[1] = r[v] /\ g[2] = c
      BY <3>1 DEF ArgumentOf
    <3>. HIDE DEF g
    <3>. QED  BY <1>5, <1>10, <3>2, DefinedElsewhere
  <2>. QED  BY <1>4, <1>10, <2>1, EnteredFacts
<1>16. CASE d = c
  <2>1. Entered(p, c, end, actuals)[v] = end[actuals[k]]
    BY <1>4, <1>12, <1>16, EnteredFacts
  <2>2. r[actuals[k]] = r[v]
    BY <1>2, <1>3, <1>12, <1>16 DEF PassedOne
  <2>3. end[actuals[k]] = end[r[actuals[k]]]
    <3>. DEFINE w == actuals[k]
                use == <<w, b, Len(p.code[b]) + 1>>
    <3>1. use \in Uses(p) /\ w \in Values
      BY <1>12, <1>14, <1>16
    <3>2. use[1] = w /\ use[2] = b
      OBVIOUS
    <3>. HIDE DEF use
    <3>. QED  BY <1>9, <3>1, <3>2
  <2>. QED  BY <1>6, <1>15, <2>1, <2>2, <2>3
<1>17. CASE d # c
  <2>1. ASSUME NEW j \in DOMAIN p.arguments[c], p.arguments[c][j] = v
        PROVE  FALSE
    <3>1. ArgumentOf(p, v, c)
      BY <1>4, <2>1, ArgumentFacts
    <3>. QED  BY <1>13, <1>17, <3>1 DEF ArgumentOf
  <2>2. Entered(p, c, end, actuals)[v] = end[v]
    BY <1>4, <1>10, <2>1, EnteredFacts
  <2>3. Dominates(p, d, c)
    BY <1>10, <1>13 DEF Sees, ArgumentOf
  <2>4. Dominates(p, d, b)
    BY <1>1, <1>4, <1>17, <2>3, PredecessorsDominated
  <2>5. Sees(p, v, b)
    <3>. DEFINE g == <<v, d, 0>>
    <3>1. g \in Definitions(p) /\ g[1] = v /\ g[2] = d
      BY <1>13 DEF ArgumentOf
    <3>. HIDE DEF g
    <3>. QED  BY <2>4, <3>1 DEF Sees
  <2>6. end[v] = end[r[v]]
    BY <1>8, <2>5 DEF CopiesHold
  <2>. QED  BY <1>6, <1>15, <2>2, <2>6
<1>. QED  BY <1>16, <1>17

LEMMA CopiesAlong ==
  ASSUME NEW p \in Programs, NEW s, NEW r, NEW rank, Ranked(s, r, rank),
         Agreeing(p, s, r), Above(p, s, r),
         NEW b, Reachable(p, b), NEW e, CopiesHold(p, s, r, e, b), NEW i \in DOMAIN p.next[b]
  PROVE  CopiesHold(p, s, r, Along(p, b, e, i), p.next[b][i])
BY CopyAlong DEF CopiesHold

LEMMA CopiesOnFailure ==
  ASSUME NEW p \in Programs, NEW s, NEW r, NEW rank, Ranked(s, r, rank),
         Agreeing(p, s, r), Above(p, s, r),
         NEW b, Reachable(p, b), NEW e, CopiesHold(p, s, r, e, b),
         NEW n \in 0..Len(p.code[b]), p.handler[b] # NoBlock
  PROVE  CopiesHold(p, s, r, After(p, b, e, n), p.handler[b])
<1>. DEFINE h == p.handler[b]
<1>1. b \in p.blocks /\ IsFiniteSet(p.blocks)
  BY VerifiedFacts, ReachableBlocks
<1>2. h \in p.blocks /\ p.arguments[h] = <<>>
  BY <1>1, VerifiedFacts DEF EdgesFit, Built
<1>3. Flows(p, b, h)
  BY DEF Flows
<1>4. CopiesHold(p, s, r, After(p, b, e, n), b)
  BY CopiesWithin
<1>. HIDE DEF h
<1>5. ASSUME NEW v \in DOMAIN s, Sees(p, v, h)
      PROVE  Sees(p, v, b)
  <2>1. PICK d \in p.blocks : \E k \in DOMAIN p.arguments[d] : v = p.arguments[d][k]
    BY DEF Agreeing
  <2>2. ArgumentOf(p, v, d) /\ d # h
    BY <1>2, <2>1, ArgumentFacts
  <2>3. Dominates(p, d, h)
    BY <1>5, <2>2 DEF Sees, ArgumentOf
  <2>4. Dominates(p, d, b)
    BY <1>1, <1>2, <1>3, <2>2, <2>3, PredecessorsDominated
  <2>. DEFINE g == <<v, d, 0>>
  <2>5. g \in Definitions(p) /\ g[1] = v /\ g[2] = d
    BY <2>2 DEF ArgumentOf
  <2>. HIDE DEF g
  <2>. QED  BY <2>4, <2>5 DEF Sees
<1>6. \A v \in DOMAIN s : Sees(p, v, h) => After(p, b, e, n)[v] = After(p, b, e, n)[r[v]]
  BY <1>4, <1>5 DEF CopiesHold
<1>. QED  BY <1>6 DEF CopiesHold, h

(* The entry sees none of the values replaced.                             *)
LEMMA CopiesAtEntry ==
  ASSUME NEW p \in Programs, NEW s, NEW r, Agreeing(p, s, r), NEW e
  PROVE  CopiesHold(p, s, r, e, p.entry)
<1>1. IsFiniteSet(p.blocks) /\ p.entry \in p.blocks
  BY VerifiedFacts
<1>2. ASSUME NEW v \in DOMAIN s, Sees(p, v, p.entry)
      PROVE  FALSE
  <2>1. PICK d \in p.blocks : \E k \in DOMAIN p.arguments[d] :
          v = p.arguments[d][k] /\ PassedOne(p, r, d, k, r[v])
    BY DEF Agreeing
  <2>2. ArgumentOf(p, v, d)
    BY <2>1, ArgumentFacts
  <2>3. d # p.entry
    BY <2>1, EnteredByEdges DEF PassedOne
  <2>4. Dominates(p, d, p.entry)
    BY <1>2, <2>2 DEF Sees, ArgumentOf
  <2>5. p.entry \in ReachedWithout(p, d)
    BY <1>1, <2>3, ReachedFacts DEF Spreads, Roots
  <2>. QED  BY <2>4, <2>5 DEF Dominates
<1>. QED  BY <1>2 DEF CopiesHold

(***************************************************************************)
(* The inventory of the pass.                                              *)
(***************************************************************************)

(* What a candidate records of argument k of block b.                      *)
Describes(p, candidate, b, k) ==
  /\ candidate.value = p.arguments[b][k]
  /\ candidate.inputs \in Seq(Values)
  /\ \A e \in Edges(p) : Target(p, e) = b =>
       \E n \in DOMAIN candidate.inputs : candidate.inputs[n] = Actuals(p, e)[k]
  /\ \A n \in DOMAIN candidate.inputs : \E e \in Edges(p) :
       Target(p, e) = b /\ candidate.inputs[n] = Actuals(p, e)[k]

LEMMA EdgeListFacts ==
  ASSUME NEW p \in Programs
  PROVE  /\ EdgeList(p) \in Seq(Edges(p))
         /\ \A e \in Edges(p) : \E n \in DOMAIN EdgeList(p) : EdgeList(p)[n] = e
<1>. DEFINE N == Cardinality(p.blocks)
            from(b) == [i \in DOMAIN p.next[b] |-> <<b, i>>]
            seqs == [b \in 1..N |-> from(b)]
            X == Edges(p)
<1>1. IsProgram(p) /\ p.blocks = 1..N /\ N \in Nat
  BY VerifiedFacts, FS_CardinalityType DEF IsProgram
<1>2. EdgeList(p) = FlattenSeq(seqs)
  BY DEF EdgeList
<1>. HIDE DEF N
<1>3. ASSUME NEW b \in p.blocks
      PROVE  from(b) \in Seq(X)
  <2>1. DOMAIN p.next[b] = 1..Len(p.next[b]) /\ Len(p.next[b]) \in Nat
    <3>1. p.next[b] \in Seq(Nat)
      BY <1>1 DEF IsProgram
    <3>. QED  BY <3>1
  <2>2. \A i \in DOMAIN p.next[b] : <<b, i>> \in X
    BY DEF Edges
  <2>. HIDE DEF X
  <2>. QED  BY <2>1, <2>2
<1>4. seqs \in Seq(Seq(X)) /\ DOMAIN seqs = p.blocks
  <2>. HIDE DEF from, X
  <2>. QED  BY <1>1, <1>3
<1>5. /\ FlattenSeq(seqs) \in Seq(X)
      /\ \A i \in DOMAIN seqs : \A j \in DOMAIN seqs[i] :
           \E n \in DOMAIN FlattenSeq(seqs) : FlattenSeq(seqs)[n] = seqs[i][j]
  <2>. HIDE DEF seqs, X
  <2>. QED  BY <1>4, FlattenFacts
<1>6. ASSUME NEW e \in X
      PROVE  \E n \in DOMAIN FlattenSeq(seqs) : FlattenSeq(seqs)[n] = e
  <2>1. e[1] \in p.blocks /\ e[2] \in DOMAIN p.next[e[1]] /\ e = <<e[1], e[2]>>
    BY <1>6, EdgeFacts
  <2>2. e[1] \in DOMAIN seqs /\ e[2] \in DOMAIN seqs[e[1]] /\ seqs[e[1]][e[2]] = e
    BY <1>1, <1>4, <2>1
  <2>. HIDE DEF seqs
  <2>. QED  BY <1>5, <2>2
<1>. HIDE DEF seqs
<1>. QED  BY <1>2, <1>5, <1>6

LEMMA IncomingFacts ==
  ASSUME NEW p \in Programs, NEW b
  PROVE  /\ Incoming(p, b) \in Seq(Edges(p))
         /\ \A n \in DOMAIN Incoming(p, b) : Target(p, Incoming(p, b)[n]) = b
         /\ \A e \in Edges(p) : Target(p, e) = b =>
              \E n \in DOMAIN Incoming(p, b) : Incoming(p, b)[n] = e
<1>. DEFINE list == EdgeList(p)
            S == {n \in DOMAIN list : Target(p, list[n]) = b}
            order == InOrder(Len(list), S)
            X == Edges(p)
<1>1. list \in Seq(X) /\ \A e \in X : \E n \in DOMAIN list : list[n] = e
  BY EdgeListFacts
<1>2. Incoming(p, b) = At(list, S)
  BY DEF Incoming
<1>. HIDE DEF list, X
<1>3. /\ At(list, S) \in Seq(X)
      /\ DOMAIN At(list, S) = DOMAIN order
      /\ \A n \in DOMAIN order :
           order[n] \in DOMAIN list /\ order[n] \in S /\ At(list, S)[n] = list[order[n]]
      /\ \A k \in DOMAIN list : k \in S => \E n \in DOMAIN order : order[n] = k
  <2>. HIDE DEF S
  <2>. QED  BY <1>1, AtFacts
<1>. HIDE DEF order
<1>4. \A n \in DOMAIN order : Target(p, At(list, S)[n]) = b
  BY <1>3
<1>5. ASSUME NEW e \in X, Target(p, e) = b
      PROVE  \E n \in DOMAIN order : At(list, S)[n] = e
  <2>1. PICK k \in DOMAIN list : list[k] = e
    BY <1>1
  <2>2. k \in S
    BY <1>5, <2>1
  <2>3. PICK n \in DOMAIN order : order[n] = k
    BY <1>3, <2>1, <2>2
  <2>. QED  BY <1>3, <2>1, <2>3
<1>. QED  BY <1>2, <1>3, <1>4, <1>5 DEF X

LEMMA CandidateFacts ==
  ASSUME NEW p \in Programs, NEW b \in p.blocks, NEW k \in DOMAIN p.arguments[b]
  PROVE  Describes(p, Candidate(p, b, k), b, k)
<1>. DEFINE edges == Incoming(p, b)
            complete == {n \in DOMAIN edges : k \in DOMAIN Actuals(p, edges[n])}
            passing == At(edges, complete)
            order == InOrder(Len(edges), complete)
            X == Edges(p)
<1>1. /\ edges \in Seq(X)
      /\ \A n \in DOMAIN edges : Target(p, edges[n]) = b
      /\ \A e \in X : Target(p, e) = b => \E n \in DOMAIN edges : edges[n] = e
  BY IncomingFacts
<1>2. Candidate(p, b, k).value = p.arguments[b][k] /\
      Candidate(p, b, k).inputs = [n \in DOMAIN passing |-> Actuals(p, passing[n])[k]]
  BY DEF Candidate
<1>. HIDE DEF edges
<1>3. \A e \in X : Target(p, e) = b => k \in DOMAIN Actuals(p, e) /\ Actuals(p, e)[k] \in Values
  BY EdgeFacts
<1>. HIDE DEF X
<1>4. /\ passing \in Seq(X) /\ DOMAIN passing = DOMAIN order /\ Len(passing) \in Nat
      /\ DOMAIN passing = 1..Len(passing)
      /\ \A n \in DOMAIN order :
           order[n] \in DOMAIN edges /\ order[n] \in complete /\ passing[n] = edges[order[n]]
      /\ \A j \in DOMAIN edges : j \in complete => \E n \in DOMAIN order : order[n] = j
  <2>1. passing \in Seq(X)
    <3>. HIDE DEF complete
    <3>. QED  BY <1>1, AtFacts
  <2>2. DOMAIN passing = 1..Len(passing) /\ Len(passing) \in Nat
    BY <2>1
  <2>. HIDE DEF complete
  <2>. QED  BY <1>1, <2>1, <2>2, AtFacts
<1>. HIDE DEF passing, order
<1>5. \A n \in DOMAIN passing : passing[n] \in X /\ Target(p, passing[n]) = b
  BY <1>1, <1>4
<1>6. ASSUME NEW e \in X, Target(p, e) = b
      PROVE  \E n \in DOMAIN passing : passing[n] = e
  <2>1. PICK j \in DOMAIN edges : edges[j] = e
    BY <1>1, <1>6
  <2>2. j \in complete
    BY <1>3, <1>6, <2>1
  <2>3. PICK n \in DOMAIN order : order[n] = j
    BY <1>4, <2>2
  <2>. QED  BY <1>4, <2>1, <2>3
<1>. DEFINE inputs == Candidate(p, b, k).inputs
<1>7. DOMAIN inputs = DOMAIN passing /\ \A n \in DOMAIN passing : inputs[n] = Actuals(p, passing[n])[k]
  BY <1>2
<1>8. inputs \in Seq(Values)
  BY <1>2, <1>3, <1>4, <1>5
<1>. HIDE DEF inputs
<1>9. \A e \in X : Target(p, e) = b => \E n \in DOMAIN inputs : inputs[n] = Actuals(p, e)[k]
  BY <1>6, <1>7
<1>10. \A n \in DOMAIN inputs : \E e \in X : Target(p, e) = b /\ inputs[n] = Actuals(p, e)[k]
  BY <1>5, <1>7
<1>. QED  BY <1>2, <1>8, <1>9, <1>10 DEF Describes, inputs, X

LEMMA PositionsFacts ==
  ASSUME NEW p \in Programs
  PROVE  /\ DOMAIN Positions(p) = 1..Len(Positions(p)) /\ Len(Positions(p)) \in Nat
         /\ \A c \in DOMAIN Positions(p) :
              /\ Positions(p)[c][1] \in p.blocks
              /\ Positions(p)[c][2] \in DOMAIN p.arguments[Positions(p)[c][1]]
              /\ p.arguments[Positions(p)[c][1]][Positions(p)[c][2]] \in p.stored
<1>. DEFINE X == UNION {{<<b, k>> : k \in DOMAIN p.arguments[b]} : b \in p.blocks}
            Y == {x \in X : p.arguments[x[1]][x[2]] \in p.stored}
            N == Cardinality(p.blocks)
            stored(b) == {n \in DOMAIN Slots(p, b) : p.arguments[b][Slots(p, b)[n][2]] \in p.stored}
            seqs == [b \in 1..N |-> At(Slots(p, b), stored(b))]
<1>1. IsProgram(p) /\ p.blocks = 1..N /\ N \in Nat
  BY VerifiedFacts, FS_CardinalityType DEF IsProgram
<1>2. Positions(p) = FlattenSeq(seqs)
  BY DEF Positions
<1>. HIDE DEF N, stored
<1>3. ASSUME NEW b \in p.blocks
      PROVE  At(Slots(p, b), stored(b)) \in Seq(Y)
  <2>. DEFINE slots == [k \in DOMAIN p.arguments[b] |-> <<b, k>>]
  <2>1. \A k \in DOMAIN p.arguments[b] : <<b, k>> \in X
    OBVIOUS
  <2>2. p.arguments[b] \in Seq(Values)
    BY <1>1 DEF IsProgram
  <2>. HIDE DEF X
  <2>. DEFINE Z == {x \in X : x[1] = b}
              listed == At(Slots(p, b), stored(b))
              order == InOrder(Len(Slots(p, b)), stored(b))
  <2>3. slots \in Seq(Z)
    BY <2>1, <2>2
  <2>4. Slots(p, b) = Reverse(slots)
    BY DEF Slots
  <2>. HIDE DEF slots, Z
  <2>5. Slots(p, b) \in Seq(Z)
    BY <2>3, <2>4 DEF Reverse
  <2>6. /\ listed \in Seq(Z) /\ DOMAIN listed = DOMAIN order
        /\ \A n \in DOMAIN order :
             order[n] \in DOMAIN Slots(p, b) /\ order[n] \in stored(b) /\ listed[n] = Slots(p, b)[order[n]]
    BY <2>5, AtFacts
  <2>. HIDE DEF listed, order
  <2>7. ASSUME NEW n \in DOMAIN listed
        PROVE  listed[n] \in Y
    <3>. DEFINE x == Slots(p, b)[order[n]]
    <3>1. listed[n] = x /\ x \in Z /\ order[n] \in stored(b)
      BY <2>5, <2>6
    <3>2. p.arguments[b][x[2]] \in p.stored
      BY <3>1 DEF stored
    <3>3. x \in X /\ x[1] = b
      BY <3>1 DEF Z
    <3>. HIDE DEF x
    <3>. QED  BY <3>1, <3>2, <3>3
  <2>. HIDE DEF Y
  <2>. QED  BY <2>6, <2>7 DEF listed
<1>4. \A x \in Y : x[1] \in p.blocks /\ x[2] \in DOMAIN p.arguments[x[1]] /\ p.arguments[x[1]][x[2]] \in p.stored
  BY DEF X
<1>. HIDE DEF X, Y
<1>5. seqs \in Seq(Seq(Y))
  BY <1>1, <1>3
<1>. HIDE DEF seqs
<1>6. Positions(p) \in Seq(Y)
  BY <1>2, <1>5, FlattenFacts
<1>7. DOMAIN Positions(p) = 1..Len(Positions(p)) /\ Len(Positions(p)) \in Nat
  BY <1>6
<1>8. \A c \in DOMAIN Positions(p) : Positions(p)[c] \in Y
  BY <1>6
<1>. QED  BY <1>4, <1>7, <1>8

LEMMA InventoryFacts ==
  ASSUME NEW p \in Programs
  PROVE  /\ DOMAIN Candidates(p) = 1..Len(Candidates(p)) /\ Len(Candidates(p)) \in Nat
         /\ \A c \in DOMAIN Candidates(p) : \E b \in p.blocks : \E k \in DOMAIN p.arguments[b] :
              Describes(p, Candidates(p)[c], b, k)
         /\ \A c \in DOMAIN Candidates(p) : Candidates(p)[c].value \in p.stored
<1>. DEFINE list == Candidates(p)
            at_ == Positions(p)
<1>1. list = [c \in DOMAIN at_ |-> Candidate(p, at_[c][1], at_[c][2])]
  BY DEF Candidates
<1>2. /\ DOMAIN at_ = 1..Len(at_) /\ Len(at_) \in Nat
      /\ \A c \in DOMAIN at_ :
           /\ at_[c][1] \in p.blocks /\ at_[c][2] \in DOMAIN p.arguments[at_[c][1]]
           /\ p.arguments[at_[c][1]][at_[c][2]] \in p.stored
  BY PositionsFacts
<1>. HIDE DEF list, at_
<1>3. DOMAIN list = DOMAIN at_ /\ \A c \in DOMAIN at_ : list[c] = Candidate(p, at_[c][1], at_[c][2])
  BY <1>1
<1>4. Len(list) = Len(at_)
  BY <1>1, <1>2
<1>5. ASSUME NEW c \in DOMAIN list
      PROVE  \E b \in p.blocks : \E k \in DOMAIN p.arguments[b] : Describes(p, list[c], b, k)
  <2>. DEFINE b == at_[c][1]
              k == at_[c][2]
  <2>1. b \in p.blocks /\ k \in DOMAIN p.arguments[b] /\ list[c] = Candidate(p, b, k)
    BY <1>2, <1>3
  <2>. HIDE DEF b, k
  <2>2. Describes(p, list[c], b, k)
    BY <2>1, CandidateFacts
  <2>. QED  BY <2>1, <2>2
<1>6. \A c \in DOMAIN list : list[c].value \in p.stored
  <2>1. \A b, k : Candidate(p, b, k).value = p.arguments[b][k]
    BY DEF Candidate
  <2>. QED  BY <1>2, <1>3, <2>1
<1>. QED  BY <1>2, <1>3, <1>4, <1>5, <1>6 DEF list

(***************************************************************************)
(* The invariant of the pass.                                              *)
(***************************************************************************)

(* The value each value stands for.                                        *)
Ends == [v \in Values |-> Resolve(substitution, v)]

Copied ==
  /\ \E rank : Ranked(substitution, Ends, rank)
  /\ Agreeing(original, substitution, Ends)
  /\ Above(original, substitution, Ends)

Worklists ==
  /\ candidates = Candidates(original)
  /\ users \in [Values -> Seq(DOMAIN candidates)]
  /\ worklist \in Seq(DOMAIN candidates)
  /\ cursor \in Nat \ {0}

LEMMA EndsAre ==
  ASSUME NEW s, NEW r, NEW rank, Ranked(s, r, rank)
  PROVE  [v \in Values |-> Resolve(s, v)] = r
<1>1. \A v \in Values : Resolve(s, v) = r[v]
  BY ResolveLeads
<1>2. r = [v \in Values |-> r[v]]
  BY DEF Ranked
<1>. QED  BY <1>1, <1>2

LEMMA CopiedByRank ==
  ASSUME NEW s, s = substitution, NEW r, NEW rank, Ranked(s, r, rank),
         Agreeing(original, s, r), Above(original, s, r)
  PROVE  Copied
<1>1. Ends = r
  BY EndsAre DEF Ends
<1>. QED  BY <1>1 DEF Copied

LEMMA CopiedInitially ==
  ASSUME original \in Programs, substitution = <<>>
  PROVE  Copied
<1>. DEFINE same == [v \in Values |-> v]
            zero == [v \in Values |-> 0]
<1>1. DOMAIN substitution = {}
  OBVIOUS
<1>2. Ranked(substitution, same, zero)
  BY <1>1 DEF Ranked
<1>3. Agreeing(original, substitution, same) /\ Above(original, substitution, same)
  BY <1>1 DEF Agreeing, Above
<1>. HIDE DEF same, zero
<1>. QED  BY <1>2, <1>3, CopiedByRank

LEMMA UsersOfTyped ==
  ASSUME NEW list, NEW N \in Nat, DOMAIN list = 1..N, NEW X,
         \A c \in DOMAIN list : list[c].inputs \in Seq(X), NEW v
  PROVE  UsersOf(list, v) \in Seq(DOMAIN list)
<1>. DEFINE named(c) == [n \in DOMAIN list[c].inputs |-> c]
            S(c) == {n \in DOMAIN list[c].inputs : list[c].inputs[n] = v}
            seqs == [c \in DOMAIN list |-> At(named(c), S(c))]
            D == DOMAIN list
<1>1. UsersOf(list, v) = FlattenSeq(seqs)
  BY DEF UsersOf
<1>2. ASSUME NEW c \in D
      PROVE  At(named(c), S(c)) \in Seq(D)
  <2>1. DOMAIN list[c].inputs = 1..Len(list[c].inputs) /\ Len(list[c].inputs) \in Nat
    BY <1>2
  <2>. HIDE DEF D
  <2>2. named(c) \in Seq(D)
    BY <2>1
  <2>. HIDE DEF named, S
  <2>. QED  BY <2>2, AtFacts
<1>3. D = 1..N
  OBVIOUS
<1>. HIDE DEF D, named, S
<1>4. seqs \in Seq(Seq(D))
  BY <1>2, <1>3 DEF D
<1>. HIDE DEF seqs
<1>. QED  BY <1>1, <1>4, FlattenFacts DEF D

LEMMA WorklistsInitially ==
  ASSUME original \in Programs, program = original, CopyInit
  PROVE  Worklists
<1>1. candidates = Candidates(original)
  BY DEF CopyInit
<1>. DEFINE list == Candidates(original)
            N == Len(list)
<1>2. /\ DOMAIN list = 1..N /\ N \in Nat
      /\ \A c \in DOMAIN list : \E b \in original.blocks : \E k \in DOMAIN original.arguments[b] :
           Describes(original, list[c], b, k)
  BY InventoryFacts
<1>. HIDE DEF list, N
<1>3. \A c \in DOMAIN list : list[c].inputs \in Seq(Values)
  BY <1>2 DEF Describes
<1>4. \A v \in Values : UsersOf(list, v) \in Seq(DOMAIN list)
  BY <1>2, <1>3, UsersOfTyped
<1>5. [c \in DOMAIN list |-> c] \in Seq(DOMAIN list)
  BY <1>2
<1>. QED  BY <1>1, <1>4, <1>5 DEF CopyInit, Worklists, list

LEMMA WokenTyped ==
  ASSUME Worklists, NEW c \in DOMAIN candidates, candidates[c].value \in Values
  PROVE  Dependents(c) \in Seq(DOMAIN candidates) /\ Woken(c) \in Seq(DOMAIN candidates)
<1>. DEFINE D == DOMAIN candidates
            all == users[candidates[c].value]
            S == {n \in DOMAIN all : all[n] \notin removed \cup {c}}
            dependents == Dependents(c)
            T == {n \in DOMAIN dependents :
                        /\ dependents[n] \notin queued \ {c}
                        /\ \A m \in 1..(n - 1) : dependents[m] # dependents[n]}
<1>1. all \in Seq(D)
  BY DEF Worklists
<1>2. dependents = At(all, S)
  BY DEF Dependents
<1>3. Woken(c) = At(dependents, T)
  BY DEF Woken
<1>. HIDE DEF D, all, S, dependents, T
<1>4. dependents \in Seq(D)
  BY <1>1, <1>2, AtFacts
<1>5. Woken(c) \in Seq(D)
  BY <1>3, <1>4, AtFacts
<1>. QED  BY <1>4, <1>5 DEF D, dependents

LEMMA CurrentIsCandidate ==
  ASSUME original \in Programs, Worklists, cursor <= Len(worklist)
  PROVE  /\ Current \in DOMAIN candidates
         /\ \E b \in original.blocks : \E k \in DOMAIN original.arguments[b] :
              Describes(original, candidates[Current], b, k)
         /\ candidates[Current].value \in Values
<1>1. Current \in DOMAIN candidates
  <2>1. worklist \in Seq(DOMAIN candidates) /\ cursor \in Nat \ {0}
    BY DEF Worklists
  <2>2. cursor \in 1..Len(worklist) /\ DOMAIN worklist = 1..Len(worklist)
    BY <2>1
  <2>. QED  BY <2>1, <2>2 DEF Current
<1>2. \E b \in original.blocks : \E k \in DOMAIN original.arguments[b] :
        Describes(original, candidates[Current], b, k)
  BY <1>1, InventoryFacts DEF Worklists
<1>3. candidates[Current].value \in Values
  BY <1>2, ArgumentFacts DEF Describes
<1>. QED  BY <1>1, <1>2, <1>3

LEMMA WorklistsKept ==
  ASSUME original \in Programs, Worklists, Copied, CopyNext, original' = original
  PROVE  Worklists'
<1>1. CASE Keep
  BY <1>1 DEF Keep, Worklists
<1>2. CASE Replace
  <2>. DEFINE c == Current
              v == candidates[c].value
              common == Representative(c)
              D == DOMAIN candidates
  <2>1. c \in D /\ v \in Values
    BY <1>2, CurrentIsCandidate DEF Replace
  <2>2. Dependents(c) \in Seq(D) /\ Woken(c) \in Seq(D)
    BY <2>1, WokenTyped
  <2>3. /\ users' = [users EXCEPT ![v] = <<>>, ![common] = @ \o Dependents(c)]
        /\ worklist' = worklist \o Woken(c) /\ cursor' = cursor + 1 /\ candidates' = candidates
    BY <1>2 DEF Replace
  <2>4. common \in Values
    <3>1. PICK b \in original.blocks : \E k \in DOMAIN original.arguments[b] :
            Describes(original, candidates[c], b, k)
      BY <1>2, CurrentIsCandidate DEF Replace
    <3>2. candidates[c].inputs \in Seq(Values) /\ candidates[c].inputs # <<>>
      BY <1>2, <3>1 DEF Describes, Replace, Replaceable, Open
    <3>3. candidates[c].inputs[1] \in Values
      BY <3>2
    <3>4. PICK rank : Ranked(substitution, Ends, rank)
      BY DEF Copied
    <3>5. common = Ends[candidates[c].inputs[1]]
      BY <3>3 DEF Representative, Ends
    <3>. QED  BY <3>3, <3>4, <3>5 DEF Ranked
  <2>. HIDE DEF c, v, common
  <2>5. users \in [Values -> Seq(D)] /\ worklist \in Seq(D) /\ cursor \in Nat \ {0}
    BY DEF Worklists
  <2>. HIDE DEF D
  <2>6. users' \in [Values -> Seq(D)]
    <3>1. users[common] \o Dependents(c) \in Seq(D)
      BY <2>2, <2>4, <2>5
    <3>2. [users EXCEPT ![v] = <<>>] \in [Values -> Seq(D)]
      <4>1. <<>> \in Seq(D)
        OBVIOUS
      <4>. QED  BY <2>5, <4>1, Zenon
    <3>. QED  BY <2>3, <2>5, <3>1, <3>2
  <2>7. worklist' \in Seq(D)
    BY <2>2, <2>3, <2>5
  <2>8. cursor' \in Nat \ {0}
    BY <2>3, <2>5
  <2>. QED  BY <2>3, <2>6, <2>7, <2>8 DEF Worklists, D
<1>3. CASE Propagate
  BY <1>3 DEF Propagate, copyVars, Worklists
<1>. QED  BY <1>1, <1>2, <1>3 DEF CopyNext

(* What is replaced is passed copies of one other value.                   *)
LEMMA ReplaceableFacts ==
  ASSUME original \in Programs, Worklists, Copied, cursor <= Len(worklist), Replaceable(Current)
  PROVE  /\ Representative(Current) \in Values
         /\ Representative(Current) \notin DOMAIN substitution
         /\ \E b \in original.blocks : \E k \in DOMAIN original.arguments[b] :
              /\ candidates[Current].value = original.arguments[b][k]
              /\ Representative(Current) # original.arguments[b][k]
              /\ PassedOne(original, Ends, b, k, Representative(Current))
<1>. DEFINE c == Current
            inputs == candidates[c].inputs
            u == Representative(c)
<1>1. PICK b \in original.blocks : \E k \in DOMAIN original.arguments[b] :
        Describes(original, candidates[c], b, k)
  BY CurrentIsCandidate
<1>2. PICK k \in DOMAIN original.arguments[b] : Describes(original, candidates[c], b, k)
  BY <1>1
<1>3. inputs \in Seq(Values) /\ inputs # <<>>
  BY <1>2 DEF Describes, Replaceable, Open
<1>4. 1 \in DOMAIN inputs /\ \A n \in DOMAIN inputs : inputs[n] \in Values
  BY <1>3
<1>5. PICK rank : Ranked(substitution, Ends, rank)
  BY DEF Copied
<1>6. \A v \in Values : Ends[v] = Resolve(substitution, v)
  BY DEF Ends
<1>7. u = Ends[inputs[1]]
  BY <1>4, <1>6 DEF Representative
<1>8. u \in Values /\ u \notin DOMAIN substitution
  BY <1>4, <1>5, <1>7 DEF Ranked
<1>9. \A n \in DOMAIN inputs : Ends[inputs[n]] = u
  BY <1>4, <1>6 DEF Replaceable, Agrees
<1>10. candidates[c].value = original.arguments[b][k] /\ u # original.arguments[b][k]
  BY <1>2 DEF Describes, Replaceable
<1>. HIDE DEF u
<1>11. PassedOne(original, Ends, b, k, u)
  <2>1. \E e \in Edges(original) : Target(original, e) = b
    BY <1>2, <1>4 DEF Describes
  <2>2. ASSUME NEW e \in Edges(original), Target(original, e) = b
        PROVE  Ends[Actuals(original, e)[k]] = u
    <3>1. PICK n \in DOMAIN inputs : inputs[n] = Actuals(original, e)[k]
      BY <1>2, <2>2 DEF Describes
    <3>. QED  BY <1>9, <3>1
  <2>. QED  BY <2>1, <2>2 DEF PassedOne
<1>. QED  BY <1>8, <1>10, <1>11 DEF u

LEMMA CopiedKept ==
  ASSUME original \in Programs, Worklists, Copied, CopyNext, original' = original
  PROVE  Copied'
<1>1. PICK rank : Ranked(substitution, Ends, rank)
  BY DEF Copied
<1>2. Agreeing(original, substitution, Ends) /\ Above(original, substitution, Ends)
  BY DEF Copied
<1>. DEFINE s == Looked
            r == Ends
<1>3. DOMAIN s = DOMAIN substitution /\ Ranked(s, r, rank)
  BY <1>1, CompressionKeepsEnds DEF Looked
<1>4. Agreeing(original, s, r) /\ Above(original, s, r)
  BY <1>2, <1>3 DEF Agreeing, Above
<1>5. \A t, q, higher : Ranked(t, q, higher) =>
        [v \in Values |-> Resolve(t, v)] = q
  BY EndsAre
<1>6. ASSUME NEW t, substitution' = t, NEW q, NEW higher, Ranked(t, q, higher),
             Agreeing(original, t, q), Above(original, t, q)
      PROVE  Copied'
  <2>1. Ends' = q
    <3>1. Ends' = [v \in Values |-> Resolve(t, v)]
      BY <1>6 DEF Ends
    <3>. QED  BY <1>5, <1>6, <3>1
  <2>. QED  BY <1>6, <2>1 DEF Copied
<1>. HIDE DEF r
<1>7. CASE Keep
  <2>1. substitution' = s
    BY <1>7 DEF Keep
  <2>. HIDE DEF s
  <2>. QED  BY <1>3, <1>4, <1>6, <2>1
<1>8. CASE Replace
  <2>. DEFINE common == Representative(Current)
  <2>1. PICK b \in original.blocks : \E k \in DOMAIN original.arguments[b] :
              /\ candidates[Current].value = original.arguments[b][k]
              /\ common # original.arguments[b][k]
              /\ PassedOne(original, r, b, k, common)
    BY <1>8, ReplaceableFacts DEF Replace, r
  <2>2. PICK k \in DOMAIN original.arguments[b] :
              /\ candidates[Current].value = original.arguments[b][k]
              /\ common # original.arguments[b][k]
              /\ PassedOne(original, r, b, k, common)
    BY <2>1
  <2>. DEFINE v == original.arguments[b][k]
  <2>3. common \in Values /\ common \notin DOMAIN s /\ v \in Values
    BY <1>3, <1>8, ReplaceableFacts, ArgumentFacts DEF Replace
  <2>4. substitution' = Extended(s, v, common)
    BY <1>8, <2>2 DEF Replace, Extended
  <2>. HIDE DEF s, common
  <2>5. CASE v \notin DOMAIN s
    <3>1. Agreeing(original, Extended(s, v, common), Merged(r, v, common)) /\
          Above(original, Extended(s, v, common), Merged(r, v, common))
      BY <1>3, <1>4, <2>2, <2>3, <2>5, ReplacementKeepsCopies
    <3>2. \E higher : Ranked(Extended(s, v, common), Merged(r, v, common), higher)
      <4>. HIDE DEF v
      <4>1. common # v
        BY <2>2 DEF v
      <4>. QED  BY <1>3, <2>3, <2>5, <4>1, ReplacementRanked
    <3>. QED  BY <1>6, <2>4, <3>1, <3>2
  <2>6. CASE v \in DOMAIN s
    <3>. HIDE DEF v
    <3>1. s = [w \in DOMAIN s |-> s[w]]
      BY DEF s, Looked, Compressed
    <3>2. DOMAIN s \cup {v} = DOMAIN s
      BY <2>6
    <3>3. substitution' = [w \in DOMAIN s |-> s[w]]
      BY <2>4, <3>2 DEF Extended
    <3>4. substitution' = s
      BY <3>1, <3>3
    <3>. QED  BY <1>3, <1>4, <1>6, <3>4
  <2>. QED  BY <2>5, <2>6
<1>9. CASE Propagate
  <2>1. substitution' = substitution
    BY <1>9 DEF Propagate, copyVars
  <2>2. Ends' = Ends
    BY <2>1 DEF Ends
  <2>. QED  BY <1>1, <1>2, <2>1, <2>2 DEF Copied
<1>. QED  BY <1>7, <1>8, <1>9 DEF CopyNext

(***************************************************************************)
(* What the passes leave of each block.                                    *)
(***************************************************************************)

Renamed(seq) == [k \in DOMAIN seq |-> Ends[seq[k]]]

(* The instructions and the test of b, renamed.                            *)
SameInstructions(q, b) ==
  /\ Len(q.code[b]) = Len(original.code[b])
  /\ \A k \in DOMAIN original.code[b] :
       /\ q.code[b][k].defines = original.code[b][k].defines
       /\ q.code[b][k].reads = Renamed(original.code[b][k].reads)
  /\ q.tests[b] = Renamed(original.tests[b])

(* The arguments of b that were not replaced.                              *)
SameArguments(q, b) ==
  /\ \A m \in DOMAIN q.arguments[b] : \E k \in DOMAIN original.arguments[b] :
       q.arguments[b][m] = original.arguments[b][k]
  /\ \A k \in DOMAIN original.arguments[b] :
       \/ original.arguments[b][k] \in DOMAIN substitution
       \/ \E m \in DOMAIN q.arguments[b] :
            q.arguments[b][m] = original.arguments[b][k]

(* Edge i of b passes for each of them what it passed, renamed.            *)
SameActuals(q, b, i) ==
  LET c == original.next[b][i]
  IN  c \in kept =>
        \A m \in DOMAIN q.arguments[c] : \A k \in DOMAIN original.arguments[c] :
          q.arguments[c][m] = original.arguments[c][k] =>
            q.actuals[b][i][m] = Ends[original.actuals[b][i][k]]

RewrittenAs(q) ==
  \A b \in kept :
    /\ SameInstructions(q, b) /\ SameArguments(q, b)
    /\ \A i \in DOMAIN original.next[b] : SameActuals(q, b, i)

Rewritten == pass # "mir-copy-propagation" => RewrittenAs(program)

(* Every argument of b was replaced.                                       *)
Bare(b) ==
  \A k \in DOMAIN original.arguments[b] : original.arguments[b][k] \in DOMAIN substitution

RemovedEmpty ==
  \A b \in original.blocks \ kept :
    original.code[b] = <<>> /\ original.tests[b] = <<>> /\ Bare(b)

Contents == Rewritten /\ RemovedEmpty

-----------------------------------------------------------------------------
LEMMA SubstitutedRenames ==
  ASSUME NEW seq, \A k \in DOMAIN seq : seq[k] \in Values
  PROVE  Substituted(substitution, seq) = Renamed(seq)
BY DEF Substituted, Renamed, Ends

LEMMA OriginalTyped ==
  ASSUME NEW p \in Programs, NEW b \in p.blocks
  PROVE  /\ p.arguments[b] \in Seq(Values) /\ p.tests[b] \in Seq(Values)
         /\ p.code[b] \in Seq(Instructions)
         /\ \A k \in DOMAIN p.code[b] :
              p.code[b][k].reads \in Seq(Values) /\ p.code[b][k].defines \subseteq Values
         /\ DOMAIN p.actuals[b] = DOMAIN p.next[b]
         /\ \A i \in DOMAIN p.next[b] :
              /\ p.next[b][i] \in p.blocks
              /\ p.actuals[b][i] \in Seq(Values)
              /\ DOMAIN p.actuals[b][i] = DOMAIN p.arguments[p.next[b][i]]
              /\ Len(p.actuals[b][i]) = Len(p.arguments[p.next[b][i]])
<1>1. IsProgram(p) /\ EdgesFit(p)
  BY VerifiedFacts
<1>2. p.arguments[b] \in Seq(Values) /\ p.tests[b] \in Seq(Values) /\ p.code[b] \in Seq(Instructions)
  BY <1>1 DEF IsProgram
<1>3. \A k \in DOMAIN p.code[b] : p.code[b][k] \in Instructions
  BY <1>2
<1>4. \A k \in DOMAIN p.code[b] :
        p.code[b][k].reads \in Seq(Values) /\ p.code[b][k].defines \subseteq Values
  BY <1>3 DEF Instructions
<1>5. DOMAIN p.actuals[b] = DOMAIN p.next[b]
  BY <1>1 DEF EdgesFit
<1>6. ASSUME NEW i \in DOMAIN p.next[b]
      PROVE  /\ p.next[b][i] \in p.blocks
             /\ p.actuals[b][i] \in Seq(Values)
             /\ DOMAIN p.actuals[b][i] = DOMAIN p.arguments[p.next[b][i]]
             /\ Len(p.actuals[b][i]) = Len(p.arguments[p.next[b][i]])
  <2>1. p.next[b][i] \in p.blocks /\ Len(p.actuals[b][i]) = Len(p.arguments[p.next[b][i]])
    BY <1>1 DEF EdgesFit
  <2>2. p.actuals[b] \in Seq(Seq(Values)) /\ i \in DOMAIN p.actuals[b]
    BY <1>1, <1>5 DEF IsProgram
  <2>3. p.actuals[b][i] \in Seq(Values) /\ p.arguments[p.next[b][i]] \in Seq(Values)
    BY <1>1, <2>1, <2>2 DEF IsProgram
  <2>. QED  BY <2>1, <2>3
<1>. QED  BY <1>2, <1>4, <1>5, <1>6

(* Nothing is renamed when nothing was replaced.                           *)
LEMMA RewrittenByNothing ==
  ASSUME original \in Programs, Copied, kept = original.blocks, substitution = <<>>
  PROVE  RewrittenAs(original)
<1>1. PICK rank : Ranked(substitution, Ends, rank)
  BY DEF Copied
<1>2. \A v \in Values : Ends[v] = v
  BY <1>1 DEF Ranked
<1>3. ASSUME NEW seq \in Seq(Values)
      PROVE  Renamed(seq) = seq
  <2>1. \A k \in DOMAIN seq : seq[k] \in Values
    OBVIOUS
  <2>2. seq = [k \in DOMAIN seq |-> seq[k]]
    OBVIOUS
  <2>. QED  BY <1>2, <2>1, <2>2 DEF Renamed
<1>4. ASSUME NEW b \in kept
      PROVE  SameInstructions(original, b)
  BY <1>3, OriginalTyped DEF SameInstructions
<1>5. ASSUME NEW b \in kept
      PROVE  SameArguments(original, b)
  BY DEF SameArguments
<1>6. ASSUME NEW b \in kept, NEW i \in DOMAIN original.next[b]
      PROVE  SameActuals(original, b, i)
  <2>. DEFINE c == original.next[b][i]
  <2>1. /\ c \in original.blocks
        /\ original.actuals[b][i] \in Seq(Values)
        /\ DOMAIN original.actuals[b][i] = DOMAIN original.arguments[c]
    BY OriginalTyped
  <2>2. \A k \in DOMAIN original.arguments[c] :
          Ends[original.actuals[b][i][k]] = original.actuals[b][i][k]
    BY <1>2, <2>1
  <2>3. \A k, m \in DOMAIN original.arguments[c] :
          original.arguments[c][k] = original.arguments[c][m] => k = m
    BY <2>1, VerifiedFacts DEF DefinedOnce
  <2>. QED  BY <2>2, <2>3 DEF SameActuals
<1>. QED  BY <1>4, <1>5, <1>6 DEF RewrittenAs

LEMMA PropagatedFields ==
  ASSUME original \in Programs, NEW q, q = Propagated(original, substitution)
  PROVE  /\ q.arguments = [b \in original.blocks |->
                             At(original.arguments[b], Surviving(original, substitution, b))]
         /\ q.actuals = [b \in original.blocks |->
                           [i \in DOMAIN original.actuals[b] |-> EdgeValues(original, substitution, b, i)]]
         /\ q.tests = [b \in original.blocks |-> Substituted(substitution, original.tests[b])]
         /\ q.code = [b \in original.blocks |->
                        [k \in DOMAIN original.code[b] |->
                           [original.code[b][k] EXCEPT !.reads = Substituted(substitution, @)]]]
<1>1. DOMAIN original = Fields
  BY ProgramFacts
<1>. QED  BY <1>1 DEF Propagated, Fields

LEMMA PropagatedRewrites ==
  ASSUME original \in Programs, kept = original.blocks,
         NEW q, q = Propagated(original, substitution)
  PROVE  RewrittenAs(q)
<1>. DEFINE s == substitution
            order(b) == InOrder(Len(original.arguments[b]), Surviving(original, s, b))
<1>1. /\ q.arguments = [b \in original.blocks |->
                                At(original.arguments[b], Surviving(original, s, b))]
      /\ q.actuals = [b \in original.blocks |->
                              [i \in DOMAIN original.actuals[b] |-> EdgeValues(original, s, b, i)]]
      /\ q.tests = [b \in original.blocks |-> Substituted(s, original.tests[b])]
      /\ q.code = [b \in original.blocks |->
                           [k \in DOMAIN original.code[b] |->
                              [original.code[b][k] EXCEPT !.reads = Substituted(s, @)]]]
  BY PropagatedFields
<1>2. ASSUME NEW b \in kept
      PROVE  SameInstructions(q, b)
  <2>1. b \in original.blocks
    OBVIOUS
  <2>2. /\ original.tests[b] \in Seq(Values) /\ original.code[b] \in Seq(Instructions)
        /\ \A k \in DOMAIN original.code[b] :
             original.code[b][k].reads \in Seq(Values) /\ original.code[b][k].defines \subseteq Values
    BY <2>1, OriginalTyped
  <2>3. \A seq \in Seq(Values) : Substituted(s, seq) = Renamed(seq)
    <3>1. \A seq \in Seq(Values) : \A k \in DOMAIN seq : seq[k] \in Values
      OBVIOUS
    <3>. QED  BY <3>1, SubstitutedRenames
  <2>4. q.tests[b] = Renamed(original.tests[b])
    BY <1>1, <2>1, <2>2, <2>3
  <2>5. DOMAIN q.code[b] = DOMAIN original.code[b]
    BY <1>1, <2>1
  <2>6. Len(q.code[b]) = Len(original.code[b])
    <3>1. q.code[b] =
            [k \in DOMAIN original.code[b] |->
               [original.code[b][k] EXCEPT !.reads = Substituted(s, @)]]
      BY <1>1, <2>1
    <3>. QED  BY <2>2, <3>1
  <2>7. ASSUME NEW k \in DOMAIN original.code[b]
        PROVE  /\ q.code[b][k].defines = original.code[b][k].defines
               /\ q.code[b][k].reads = Renamed(original.code[b][k].reads)
    <3>1. q.code[b][k] = [original.code[b][k] EXCEPT !.reads = Substituted(s, @)]
      BY <1>1, <2>1
    <3>2. original.code[b][k] \in Instructions
      BY <2>2
    <3>3. /\ q.code[b][k].defines = original.code[b][k].defines
          /\ q.code[b][k].reads = Substituted(s, original.code[b][k].reads)
      BY <3>1, <3>2 DEF Instructions
    <3>. QED  BY <2>2, <2>3, <3>3
  <2>. QED  BY <2>4, <2>6, <2>7 DEF SameInstructions
<1>3. ASSUME NEW b \in kept
      PROVE  /\ q.arguments[b] = At(original.arguments[b], Surviving(original, s, b))
             /\ DOMAIN q.arguments[b] = DOMAIN order(b)
             /\ \A m \in DOMAIN order(b) :
                  /\ order(b)[m] \in DOMAIN original.arguments[b]
                  /\ q.arguments[b][m] = original.arguments[b][order(b)[m]]
             /\ \A k \in DOMAIN original.arguments[b] :
                  k \in Surviving(original, s, b) => \E m \in DOMAIN order(b) : order(b)[m] = k
  <2>1. original.arguments[b] \in Seq(Values)
    BY OriginalTyped
  <2>2. q.arguments[b] = At(original.arguments[b], Surviving(original, s, b))
    BY <1>1
  <2>. DEFINE seq == original.arguments[b]
              S == Surviving(original, s, b)
              chosen == InOrder(Len(seq), S)
  <2>3. chosen = order(b)
    OBVIOUS
  <2>. HIDE DEF order, S
  <2>4. seq \in Seq(Values)
    BY <2>1
  <2>. HIDE DEF seq
  <2>5. /\ DOMAIN At(seq, S) = DOMAIN chosen
        /\ \A m \in DOMAIN chosen : chosen[m] \in DOMAIN seq /\ At(seq, S)[m] = seq[chosen[m]]
        /\ \A k \in DOMAIN seq : k \in S => \E m \in DOMAIN chosen : chosen[m] = k
    BY <2>4, AtFacts
  <2>. HIDE DEF chosen
  <2>. QED  BY <2>2, <2>3, <2>5 DEF seq, S
<1>4. ASSUME NEW b \in kept
      PROVE  SameArguments(q, b)
  <2>1. \A k \in DOMAIN original.arguments[b] :
          k \in Surviving(original, s, b) \/ original.arguments[b][k] \in DOMAIN s
    BY DEF Surviving
  <2>. HIDE DEF order
  <2>. QED  BY <1>3, <2>1 DEF SameArguments
<1>5. ASSUME NEW b \in kept, NEW i \in DOMAIN original.next[b]
      PROVE  SameActuals(q, b, i)
  <2>. DEFINE c == original.next[b][i]
              actuals == original.actuals[b][i]
              S == Surviving(original, s, c)
              T == DOMAIN actuals \ (DOMAIN original.arguments[c] \ S)
  <2>1. /\ c \in original.blocks /\ actuals \in Seq(Values)
        /\ DOMAIN actuals = DOMAIN original.arguments[c]
        /\ Len(actuals) = Len(original.arguments[c])
        /\ i \in DOMAIN original.actuals[b]
    BY OriginalTyped
  <2>2. T = S
    BY <2>1 DEF Surviving
  <2>3. q.actuals[b][i] = Substituted(s, At(actuals, T))
    <3>1. q.actuals[b] = [j \in DOMAIN original.actuals[b] |-> EdgeValues(original, s, b, j)]
      BY <1>1
    <3>2. q.actuals[b][i] = EdgeValues(original, s, b, i)
      BY <2>1, <3>1
    <3>. QED  BY <3>2 DEF EdgeValues
  <2>. DEFINE picked == At(actuals, S)
  <2>4. /\ picked \in Seq(Values) /\ DOMAIN picked = DOMAIN order(c)
        /\ \A m \in DOMAIN order(c) : picked[m] = actuals[order(c)[m]]
    <3>. HIDE DEF S, actuals
    <3>1. InOrder(Len(actuals), S) = order(c)
      BY <2>1 DEF S
    <3>. HIDE DEF order
    <3>. QED  BY <2>1, <3>1, AtFacts
  <2>. HIDE DEF picked, order
  <2>5. \A m \in DOMAIN order(c) : q.actuals[b][i][m] = Ends[actuals[order(c)[m]]]
    <3>1. q.actuals[b][i] = Renamed(picked)
      <4>1. q.actuals[b][i] = Substituted(s, picked)
        BY <2>2, <2>3 DEF picked
      <4>2. \A m \in DOMAIN picked : picked[m] \in Values
        BY <2>4
      <4>. QED  BY <4>1, <4>2, SubstitutedRenames
    <3>. QED  BY <2>4, <3>1 DEF Renamed
  <2>6. \A k, m \in DOMAIN original.arguments[c] :
          original.arguments[c][k] = original.arguments[c][m] => k = m
    BY <2>1, VerifiedFacts DEF DefinedOnce
  <2>. HIDE DEF S, T
  <2>7. ASSUME c \in kept, NEW m \in DOMAIN q.arguments[c],
               NEW k \in DOMAIN original.arguments[c], q.arguments[c][m] = original.arguments[c][k]
        PROVE  q.actuals[b][i][m] = Ends[original.actuals[b][i][k]]
    <3>1. m \in DOMAIN order(c) /\ order(c)[m] = k
      BY <1>3, <2>6, <2>7
    <3>. QED  BY <2>5, <3>1
  <2>. QED  BY <2>7 DEF SameActuals
<1>. QED  BY <1>2, <1>4, <1>5 DEF RewrittenAs

-----------------------------------------------------------------------------
LEMMA ContentsInitially == Init => Contents
BY DEF Init, Contents, Rewritten, RemovedEmpty

(* What is said of a program says the same when nothing it rests on moved. *)
LEMMA RewrittenStill ==
  ASSUME UNCHANGED <<original, kept, substitution>>, program' = program, Rewritten,
         pass # "mir-copy-propagation"
  PROVE  Rewritten'
<1>1. Ends' = Ends
  BY DEF Ends
<1>. QED  BY <1>1 DEF Rewritten, RewrittenAs, SameInstructions, SameArguments, SameActuals, Renamed

LEMMA EmptyStill ==
  ASSUME UNCHANGED <<original, kept, substitution>>, RemovedEmpty
  PROVE  RemovedEmpty'
BY DEF RemovedEmpty, Bare

LEMMA ContentsThroughCopy ==
  ASSUME Graph, Contents, Copied, CopyNext, UNCHANGED <<kept, original>>
  PROVE  Contents'
<1>1. pass = "mir-copy-propagation"
  BY DEF CopyNext, Keep, Replace, Propagate
<1>2. program = original /\ kept = original.blocks /\ original \in Programs
  BY <1>1 DEF Graph, Frame
<1>3. RemovedEmpty'
  BY <1>2 DEF RemovedEmpty
<1>4. CASE Keep \/ Replace
  <2>1. pass' = pass
    BY <1>4 DEF Keep, Replace
  <2>. QED  BY <1>1, <1>3, <2>1 DEF Contents, Rewritten
<1>5. CASE Propagate
  <2>1. /\ substitution' = substitution
        /\ program' = IF substitution = <<>> THEN original ELSE Propagated(original, substitution)
    BY <1>2, <1>5 DEF Propagate, copyVars
  <2>. DEFINE q == IF substitution = <<>> THEN original ELSE Propagated(original, substitution)
  <2>2. RewrittenAs(q)
    <3>1. CASE substitution = <<>>
      BY <1>2, <3>1, RewrittenByNothing
    <3>2. CASE substitution # <<>>
      BY <1>2, <3>2, PropagatedRewrites
    <3>. QED  BY <3>1, <3>2
  <2>3. program' = q
    BY <2>1
  <2>. HIDE DEF q
  <2>4. Ends' = Ends
    BY <2>1 DEF Ends
  <2>5. RewrittenAs(program)'
    BY <2>1, <2>2, <2>3, <2>4 DEF RewrittenAs, SameInstructions, SameArguments, SameActuals, Renamed
  <2>. QED  BY <1>3, <2>5 DEF Contents, Rewritten
<1>. QED  BY <1>4, <1>5 DEF CopyNext

LEMMA RemovalContents ==
  ASSUME DOMAIN program = Fields, NEW next, program' = [program EXCEPT !.next = next]
  PROVE  /\ program'.code = program.code /\ program'.tests = program.tests
         /\ program'.arguments = program.arguments /\ program'.actuals = program.actuals
BY DEF Fields

(* A removed block is empty: it held nothing but what was replaced.        *)
LEMMA RemovedHadNothing ==
  ASSUME Graph, Contents, pass = "mir-cfg-cleanup", NEW b \in kept, FirstRemovable(program, b)
  PROVE  original.code[b] = <<>> /\ original.tests[b] = <<>> /\ Bare(b)
<1>1. original \in Programs /\ b \in original.blocks
  BY DEF Graph, Frame
<1>2. /\ program.arguments[b] = <<>> /\ program.code[b] = <<>>
      /\ original.kind[b] \in {"branch", "unreachable"}
  <2>1. program.kind[b] = original.kind[b]
    BY DEF Graph, Terminators
  <2>. QED  BY <2>1 DEF FirstRemovable, Removable, UnreachableEmpty, Forwarding, Empty
<1>3. SameInstructions(program, b) /\ SameArguments(program, b)
  BY DEF Contents, Rewritten, RewrittenAs
<1>4. original.code[b] = <<>>
  <2>1. Len(original.code[b]) = 0
    BY <1>2, <1>3 DEF SameInstructions
  <2>2. original.code[b] \in Seq(Instructions)
    BY <1>1, OriginalTyped
  <2>. QED  BY <2>1, <2>2
<1>5. original.tests[b] = <<>>
  <2>1. TerminatorFits(original, b)
    BY <1>1, VerifiedFacts DEF EdgesFit
  <2>. QED  BY <1>2, <2>1 DEF TerminatorFits
<1>6. Bare(b)
  BY <1>2, <1>3 DEF SameArguments, Bare
<1>. QED  BY <1>4, <1>5, <1>6

LEMMA ContentsThroughRemoval ==
  ASSUME Graph, Contents, RemoveBlock, UNCHANGED <<original, substitution>>
  PROVE  Contents'
<1>1. PICK b \in kept :
        /\ FirstRemovable(program, b)
        /\ program' = [program EXCEPT !.next = Redirected(program, b)]
        /\ kept' = kept \ {b}
  BY DEF RemoveBlock
<1>2. pass = "mir-cfg-cleanup" /\ pass' = pass
  BY DEF RemoveBlock
<1>3. /\ program'.code = program.code /\ program'.tests = program.tests
      /\ program'.arguments = program.arguments /\ program'.actuals = program.actuals
  BY <1>1, RemovalContents DEF Graph, Frame
<1>4. Ends' = Ends
  BY DEF Ends
<1>5. ASSUME NEW a \in kept'
      PROVE  /\ SameInstructions(program, a)' /\ SameArguments(program, a)'
             /\ \A i \in DOMAIN original.next[a] : SameActuals(program, a, i)'
  <2>1. a \in kept
    BY <1>1
  <2>2. /\ SameInstructions(program, a) /\ SameArguments(program, a)
        /\ \A i \in DOMAIN original.next[a] : SameActuals(program, a, i)
    BY <1>2, <2>1 DEF Contents, Rewritten, RewrittenAs
  <2>3. SameInstructions(program, a)'
    BY <1>3, <1>4, <2>2 DEF SameInstructions, Renamed
  <2>4. SameArguments(program, a)'
    BY <1>3, <2>2 DEF SameArguments
  <2>5. ASSUME NEW i \in DOMAIN original.next[a]
        PROVE  SameActuals(program, a, i)'
    BY <1>1, <1>3, <1>4, <2>2 DEF SameActuals
  <2>. QED  BY <2>3, <2>4, <2>5
<1>6. Rewritten'
  BY <1>5 DEF Rewritten, RewrittenAs
<1>7. RemovedEmpty'
  <2>1. original.code[b] = <<>> /\ original.tests[b] = <<>> /\ Bare(b)
    BY <1>1, <1>2, RemovedHadNothing
  <2>. QED  BY <1>1, <2>1 DEF RemovedEmpty, Contents, Bare
<1>. QED  BY <1>6, <1>7 DEF Contents

LEMMA ContentsThroughCompaction ==
  ASSUME Graph, Contents, Compact, UNCHANGED <<original, substitution>>
  PROVE  Contents'
<1>1. program' = Compacted(program) /\ kept' = kept /\ pass = "mir-cfg-cleanup"
  BY DEF Compact
<1>2. DOMAIN program = Fields
  BY DEF Graph, Frame
<1>3. /\ program'.code = [b \in kept |-> program.code[b]]
      /\ program'.tests = [b \in kept |-> program.tests[b]]
      /\ program'.arguments = [b \in kept |-> program.arguments[b]]
      /\ program'.actuals = [b \in kept |-> program.actuals[b]]
  BY <1>1, <1>2 DEF Compacted, Fields
<1>4. Ends' = Ends
  BY DEF Ends
<1>5. ASSUME NEW a \in kept'
      PROVE  /\ SameInstructions(program, a)' /\ SameArguments(program, a)'
             /\ \A i \in DOMAIN original.next[a] : SameActuals(program, a, i)'
  <2>1. /\ a \in kept /\ program'.code[a] = program.code[a] /\ program'.tests[a] = program.tests[a]
        /\ program'.arguments[a] = program.arguments[a] /\ program'.actuals[a] = program.actuals[a]
    BY <1>1, <1>3
  <2>2. /\ SameInstructions(program, a) /\ SameArguments(program, a)
        /\ \A i \in DOMAIN original.next[a] : SameActuals(program, a, i)
    BY <1>1, <2>1 DEF Contents, Rewritten, RewrittenAs
  <2>3. SameInstructions(program, a)'
    BY <1>4, <2>1, <2>2 DEF SameInstructions, Renamed
  <2>4. SameArguments(program, a)'
    BY <2>1, <2>2 DEF SameArguments
  <2>5. ASSUME NEW i \in DOMAIN original.next[a]
        PROVE  SameActuals(program, a, i)'
    <3>. DEFINE c == original.next[a][i]
    <3>1. c \in kept => program'.arguments[c] = program.arguments[c]
      BY <1>3
    <3>. QED  BY <1>1, <1>4, <2>1, <2>2, <3>1 DEF SameActuals
  <2>. QED  BY <2>3, <2>4, <2>5
<1>6. Rewritten'
  BY <1>5 DEF Rewritten, RewrittenAs
<1>7. RemovedEmpty'
  BY <1>1, EmptyStill DEF Contents
<1>. QED  BY <1>6, <1>7 DEF Contents

(***************************************************************************)
(* The original and its twin.                                              *)
(***************************************************************************)

(* Edges that the cleanup turned away lead to where nothing is passed.     *)
TurnedAway ==
  \A a \in kept : \A i \in DOMAIN original.next[a] :
    original.next[a][i] \notin kept => Bare(program.next[a][i])

Passes == Graph /\ Worklists /\ Copied /\ Contents /\ TurnedAway

(* The twin has the values of the original but for those replaced.         *)
Agree(e, t) == \A v \in Values \ DOMAIN substitution : t[v] = e[v]

LEMMA TurnedAwayInitially == Init => TurnedAway
<1>. SUFFICES ASSUME Init PROVE TurnedAway
  OBVIOUS
<1>1. original \in Programs /\ kept = original.blocks
  BY DEF Init
<1>. QED  BY <1>1, ProgramFacts DEF TurnedAway

LEMMA TurnedAwayThroughRemoval ==
  ASSUME Graph, Contents, TurnedAway, NEW f, Leads(f), RemoveBlock,
         UNCHANGED <<original, substitution>>
  PROVE  TurnedAway'
<1>1. PICK b \in kept :
        /\ FirstRemovable(program, b)
        /\ program' = [program EXCEPT !.next = Redirected(program, b)]
        /\ kept' = kept \ {b}
  BY DEF RemoveBlock
<1>2. pass = "mir-cfg-cleanup"
  BY DEF RemoveBlock
<1>. DEFINE t == program.next[b][1]
<1>3. \A a \in kept \ {b} :
        /\ DOMAIN program'.next[a] = DOMAIN program.next[a]
        /\ \A i \in DOMAIN program.next[a] :
             program'.next[a][i] = IF program.next[a][i] = b THEN t ELSE program.next[a][i]
  BY <1>1, RemovalEffect
<1>4. \/ t \in kept /\ program.arguments[t] = <<>>
      \/ \A a \in kept : \A i \in DOMAIN program.next[a] : program.next[a][i] # b
  <2>1. Forwarding(program, b) => t \in kept /\ program.arguments[t] = <<>>
    BY DEF Forwarding
  <2>. QED  BY <1>1, <2>1, RemovedBlock
<1>5. t \in kept /\ program.arguments[t] = <<>> => Bare(t)
  BY <1>2 DEF Contents, Rewritten, RewrittenAs, SameArguments, Bare
<1>6. ASSUME NEW a \in kept', NEW i \in DOMAIN original.next[a], original.next[a][i] \notin kept'
      PROVE  Bare(program'.next[a][i])
  <2>1. a \in kept \ {b} /\ i \in DOMAIN program.next[a] /\ original.next[a][i] \in original.blocks
    BY <1>1, <1>6, ProgramFacts DEF Graph, Terminators, Frame
  <2>2. CASE program.next[a][i] = b
    BY <1>3, <1>4, <1>5, <2>1, <2>2
  <2>3. CASE program.next[a][i] # b
    <3>1. original.next[a][i] # b
      <4>1. program.next[a][i] = f[original.next[a][i]] /\ f[b] = b
        BY <1>1, <1>6, <2>1 DEF Leads
      <4>. QED  BY <2>3, <4>1
    <3>2. original.next[a][i] \notin kept
      BY <1>1, <1>6, <3>1
    <3>3. Bare(program.next[a][i])
      BY <1>6, <2>1, <3>2 DEF TurnedAway
    <3>. QED  BY <1>3, <2>1, <2>3, <3>3
  <2>. QED  BY <2>2, <2>3
<1>. HIDE DEF t
<1>7. ASSUME NEW a \in kept', NEW i \in DOMAIN original.next[a], original.next[a][i] \notin kept'
      PROVE  \A k \in DOMAIN original.arguments[program'.next[a][i]] :
               original.arguments[program'.next[a][i]][k] \in DOMAIN substitution
  BY <1>6, <1>7 DEF Bare
<1>. QED  BY <1>7 DEF TurnedAway, Bare

LEMMA PassesThroughOptimize ==
  ASSUME Passes, NEW f, Leads(f), Optimize
  PROVE  Passes'
<1>1. original' = original /\ original \in Programs
  BY DEF Optimize, Passes, Graph, Frame
<1>2. Graph'
  BY GraphKept DEF Passes, Next
<1>3. CASE CopyNext /\ UNCHANGED kept
  <2>1. Worklists' /\ Copied' /\ Contents'
    BY <1>1, <1>3, WorklistsKept, CopiedKept, ContentsThroughCopy DEF Passes
  <2>2. kept = original.blocks
    BY <1>3 DEF CopyNext, Keep, Replace, Propagate, Passes, Graph, Frame
  <2>3. TurnedAway'
    BY <1>1, <1>3, <2>2, ProgramFacts DEF TurnedAway
  <2>. QED  BY <1>2, <2>1, <2>3 DEF Passes
<1>4. ASSUME UNCHANGED copyVars
      PROVE  Worklists' /\ Copied' /\ substitution' = substitution
  <2>1. UNCHANGED <<candidates, users, worklist, cursor, substitution>>
    BY <1>4 DEF copyVars
  <2>2. Ends' = Ends
    BY <2>1 DEF Ends
  <2>3. Copied'
    BY <1>1, <2>1, <2>2 DEF Copied, Passes
  <2>. QED  BY <1>1, <2>1, <2>3 DEF Worklists, Passes
<1>5. CASE RemoveBlock /\ UNCHANGED copyVars
  BY <1>1, <1>2, <1>4, <1>5, ContentsThroughRemoval, TurnedAwayThroughRemoval DEF Passes
<1>6. CASE Compact /\ UNCHANGED copyVars
  <2>1. kept' = kept
    BY <1>6 DEF Compact
  <2>2. \A b \in kept : program'.next[b] = program.next[b]
    BY <1>1, <1>6, CompactionKeepsGraph DEF Passes
  <2>3. TurnedAway'
    BY <1>1, <1>4, <1>6, <2>1, <2>2 DEF TurnedAway, Passes, Bare
  <2>. QED  BY <1>1, <1>2, <1>4, <1>6, <2>3, ContentsThroughCompaction DEF Passes
<1>. QED  BY <1>3, <1>5, <1>6 DEF Optimize, CleanupNext

LEMMA PassesStill ==
  ASSUME Passes, UNCHANGED <<program, pass, copyVars, kept, original>>
  PROVE  Passes'
<1>1. UNCHANGED <<candidates, users, worklist, cursor, substitution>>
  BY DEF copyVars
<1>2. Ends' = Ends
  BY <1>1 DEF Ends
<1>3. Graph'
  BY DEF Passes, Graph, Frame, Terminators, NothingDangles, NoHandlerLost
<1>4. Worklists' /\ Copied'
  BY <1>1, <1>2 DEF Passes, Worklists, Copied
<1>5. Rewritten'
  BY <1>1, <1>2 DEF Passes, Contents, Rewritten, RewrittenAs, SameInstructions, SameArguments,
     SameActuals, Renamed
<1>6. RemovedEmpty' /\ TurnedAway'
  BY <1>1 DEF Passes, Contents, RemovedEmpty, TurnedAway, Bare
<1>. QED  BY <1>3, <1>4, <1>5, <1>6 DEF Passes, Contents

LEMMA PassesInitially == Init => Passes
<1>. SUFFICES ASSUME Init PROVE Passes
  OBVIOUS
<1>1. original \in Programs /\ program = original /\ CopyInit /\ substitution = <<>>
  BY DEF Init, CopyInit
<1>. QED  BY <1>1, GraphInitially, WorklistsInitially, CopiedInitially, ContentsInitially,
             TurnedAwayInitially DEF Passes

-----------------------------------------------------------------------------
(* One block of the original and its rewritten form.                       *)

LEMMA AfterAgrees ==
  ASSUME original \in Programs, NEW b \in original.blocks, SameInstructions(program, b),
         NEW e, NEW t, Agree(e, t), NEW n \in 0..Len(original.code[b])
  PROVE  Agree(After(original, b, e, n), After(program, b, t, n))
<1>1. original.code[b] \in Seq(Instructions)
  BY OriginalTyped
<1>2. \A k \in 1..n : k \in DOMAIN original.code[b]
  BY <1>1
<1>3. \A k \in 1..n : program.code[b][k].defines = original.code[b][k].defines
  BY <1>2 DEF SameInstructions
<1>. QED  BY <1>3 DEF After, Agree

(* The original uses v in b.                                               *)
UsedIn(v, b) == v \in Values /\ \E use \in Uses(original) : use[1] = v /\ use[2] = b

LEMMA OperandsUsed ==
  ASSUME original \in Programs, NEW b \in original.blocks
  PROVE  /\ \A k \in DOMAIN original.code[b] : \A j \in DOMAIN original.code[b][k].reads :
              UsedIn(original.code[b][k].reads[j], b)
         /\ \A j \in DOMAIN original.tests[b] : UsedIn(original.tests[b][j], b)
         /\ \A i \in DOMAIN original.next[b] : \A k \in DOMAIN original.actuals[b][i] :
              UsedIn(original.actuals[b][i][k], b)
<1>1. \A v \in Values : \A k : <<v, b, k>> \in Uses(original) => UsedIn(v, b)
  <2>. SUFFICES ASSUME NEW v \in Values, NEW k, <<v, b, k>> \in Uses(original)
                PROVE  UsedIn(v, b)
    OBVIOUS
  <2>. DEFINE use == <<v, b, k>>
  <2>1. use \in Uses(original) /\ use[1] = v /\ use[2] = b
    OBVIOUS
  <2>. HIDE DEF use
  <2>. QED  BY <2>1 DEF UsedIn
<1>2. ASSUME NEW k \in DOMAIN original.code[b], NEW j \in DOMAIN original.code[b][k].reads
      PROVE  UsedIn(original.code[b][k].reads[j], b)
  <2>1. <<original.code[b][k].reads[j], b, k>> \in Uses(original)
    BY OperandsAreUses, Zenon
  <2>2. original.code[b][k].reads \in Seq(Values)
    BY OriginalTyped
  <2>3. original.code[b][k].reads[j] \in Values
    BY <2>2
  <2>. QED  BY <1>1, <2>1, <2>3
<1>3. ASSUME NEW j \in DOMAIN original.tests[b]
      PROVE  UsedIn(original.tests[b][j], b)
  <2>1. <<original.tests[b][j], b, Len(original.code[b]) + 1>> \in Uses(original)
    BY OperandsAreUses, Zenon
  <2>2. original.tests[b] \in Seq(Values)
    BY OriginalTyped
  <2>3. original.tests[b][j] \in Values
    BY <2>2
  <2>. QED  BY <1>1, <2>1, <2>3
<1>4. ASSUME NEW i \in DOMAIN original.next[b], NEW k \in DOMAIN original.actuals[b][i]
      PROVE  UsedIn(original.actuals[b][i][k], b)
  <2>1. i \in DOMAIN original.actuals[b] /\ original.actuals[b][i] \in Seq(Values)
    BY OriginalTyped
  <2>2. <<original.actuals[b][i][k], b, Len(original.code[b]) + 1>> \in Uses(original)
    BY <2>1, OperandsAreUses, Zenon
  <2>3. original.actuals[b][i][k] \in Values
    BY <2>1
  <2>. QED  BY <1>1, <2>2, <2>3
<1>. QED  BY <1>2, <1>3, <1>4

(* Whatever the original reads there, the twin reads the same.             *)
LEMMA OperandsAgree ==
  ASSUME Passes, NEW b \in kept, SameInstructions(program, b), Reachable(original, b),
         NEW e, NEW t, Agree(e, t), CopiesHold(original, substitution, Ends, e, b),
         NEW n \in 0..Len(original.code[b]), NEW v, UsedIn(v, b)
  PROVE  After(program, b, t, n)[Ends[v]] = After(original, b, e, n)[v]
<1>1. original \in Programs /\ b \in original.blocks
  BY DEF Passes, Graph, Frame
<1>2. PICK rank : Ranked(substitution, Ends, rank)
  BY DEF Passes, Copied
<1>3. Ends[v] \in Values \ DOMAIN substitution
  BY <1>2 DEF Ranked, UsedIn
<1>4. After(original, b, e, n)[v] = After(original, b, e, n)[Ends[v]]
  <2>1. PICK use \in Uses(original) : use[1] = v /\ use[2] = b
    BY DEF UsedIn
  <2>. QED  BY <1>1, <1>2, <2>1, OperandIsCopy DEF Passes, Copied, UsedIn
<1>5. Agree(After(original, b, e, n), After(program, b, t, n))
  BY <1>1, AfterAgrees
<1>. QED  BY <1>3, <1>4, <1>5 DEF Agree

LEMMA ReadsAgree ==
  ASSUME Passes, NEW b \in kept, SameInstructions(program, b), Reachable(original, b),
         NEW e, NEW t, Agree(e, t), CopiesHold(original, substitution, Ends, e, b),
         NEW n \in 0..Len(original.code[b])
  PROVE  Reading(program, b, t, n) = Reading(original, b, e, n)
<1>1. original \in Programs /\ b \in original.blocks
  BY DEF Passes, Graph, Frame
<1>2. /\ original.code[b] \in Seq(Instructions)
      /\ \A k \in DOMAIN original.code[b] : original.code[b][k].reads \in Seq(Values)
  BY <1>1, OriginalTyped
<1>3. ASSUME NEW k \in 1..n
      PROVE  ValuesOf(After(program, b, t, k - 1), program.code[b][k].reads) =
             ValuesOf(After(original, b, e, k - 1), original.code[b][k].reads)
  <2>. DEFINE reads == original.code[b][k].reads
  <2>1. k \in DOMAIN original.code[b] /\ k - 1 \in 0..Len(original.code[b])
    BY <1>2
  <2>2. program.code[b][k].reads = Renamed(reads)
    BY <2>1 DEF SameInstructions
  <2>3. ASSUME NEW j \in DOMAIN reads
        PROVE  After(program, b, t, k - 1)[Ends[reads[j]]] = After(original, b, e, k - 1)[reads[j]]
    <3>. DEFINE v == reads[j]
                m == k - 1
    <3>1. UsedIn(v, b) /\ m \in 0..Len(original.code[b])
      BY <1>1, <2>1, OperandsUsed
    <3>. HIDE DEF v, m
    <3>2. After(program, b, t, m)[Ends[v]] = After(original, b, e, m)[v]
      BY <3>1, OperandsAgree
    <3>. QED  BY <3>2 DEF v, m
  <2>. HIDE DEF reads
  <2>4. ValuesOf(After(program, b, t, k - 1), Renamed(reads)) = ValuesOf(After(original, b, e, k - 1), reads)
    BY <2>3 DEF ValuesOf, Renamed
  <2>. QED  BY <2>2, <2>4 DEF reads
<1>4. [k \in 1..n |-> ValuesOf(After(program, b, t, k - 1), program.code[b][k].reads)] =
      [k \in 1..n |-> ValuesOf(After(original, b, e, k - 1), original.code[b][k].reads)]
  BY <1>3
<1>. QED  BY <1>4 DEF Reading

LEMMA BlocksAgree ==
  ASSUME Passes, NEW b \in kept, SameInstructions(program, b), Reachable(original, b),
         NEW e, NEW t, Agree(e, t), CopiesHold(original, substitution, Ends, e, b)
  PROVE  Observed(program, b, t) = Observed(original, b, e)
<1>. DEFINE N == Len(original.code[b])
            tests == original.tests[b]
<1>1. original \in Programs /\ b \in original.blocks
  BY DEF Passes, Graph, Frame
<1>2. N \in 0..N /\ tests \in Seq(Values)
  <2>1. original.code[b] \in Seq(Instructions) /\ tests \in Seq(Values)
    BY <1>1, OriginalTyped
  <2>. QED  BY <2>1
<1>3. Len(program.code[b]) = N /\ program.tests[b] = Renamed(tests)
  BY DEF SameInstructions
<1>4. Reading(program, b, t, N) = Reading(original, b, e, N)
  BY <1>2, ReadsAgree
<1>5. ASSUME NEW j \in DOMAIN tests
      PROVE  After(program, b, t, N)[Ends[tests[j]]] = After(original, b, e, N)[tests[j]]
  <2>. DEFINE v == tests[j]
  <2>1. UsedIn(v, b)
    BY <1>1, OperandsUsed
  <2>. HIDE DEF v
  <2>2. After(program, b, t, N)[Ends[v]] = After(original, b, e, N)[v]
    BY <1>2, <2>1, OperandsAgree
  <2>. QED  BY <2>2 DEF v
<1>. HIDE DEF N, tests
<1>6. ValuesOf(After(program, b, t, N), Renamed(tests)) = ValuesOf(After(original, b, e, N), tests)
  BY <1>5 DEF ValuesOf, Renamed
<1>. QED  BY <1>3, <1>4, <1>6 DEF Observed, AtEnd, N, tests

(* Along an edge whose target was kept.                                    *)
LEMMA EdgesAgree ==
  ASSUME Passes, NEW b \in kept, SameInstructions(program, b), Reachable(original, b),
         NEW e, NEW t, Agree(e, t), CopiesHold(original, substitution, Ends, e, b),
         NEW i \in DOMAIN original.next[b], original.next[b][i] \in kept,
         program.next[b][i] = original.next[b][i], SameActuals(program, b, i),
         SameArguments(program, original.next[b][i])
  PROVE  Agree(Along(original, b, e, i), Along(program, b, t, i))
<1>. DEFINE c == original.next[b][i]
            N == Len(original.code[b])
            end == After(original, b, e, N)
            twinEnd == After(program, b, t, N)
            passed == original.actuals[b][i]
            twinPassed == program.actuals[b][i]
<1>1. original \in Programs /\ b \in original.blocks
  BY DEF Passes, Graph, Frame
<1>2. /\ c \in original.blocks /\ passed \in Seq(Values)
      /\ DOMAIN passed = DOMAIN original.arguments[c] /\ i \in DOMAIN original.actuals[b]
  BY <1>1, OriginalTyped
<1>3. N \in 0..N /\ Len(program.code[b]) = N
  <2>1. original.code[b] \in Seq(Instructions)
    BY <1>1, OriginalTyped
  <2>. QED  BY <2>1 DEF SameInstructions
<1>4. /\ Along(original, b, e, i) = Entered(original, c, end, passed)
      /\ Along(program, b, t, i) = Entered(program, c, twinEnd, twinPassed)
  BY <1>3 DEF Along, AtEnd
<1>5. Agree(end, twinEnd)
  BY <1>1, <1>3, AfterAgrees
<1>6. ASSUME NEW k \in DOMAIN passed
      PROVE  twinEnd[Ends[passed[k]]] = end[passed[k]]
  <2>. DEFINE v == passed[k]
  <2>1. UsedIn(v, b)
    BY <1>1, OperandsUsed
  <2>. HIDE DEF v
  <2>2. After(program, b, t, N)[Ends[v]] = After(original, b, e, N)[v]
    BY <1>3, <2>1, OperandsAgree
  <2>. QED  BY <2>2 DEF v
<1>7. /\ \A m \in DOMAIN program.arguments[c] : \A k \in DOMAIN original.arguments[c] :
           program.arguments[c][m] = original.arguments[c][k] => twinPassed[m] = Ends[passed[k]]
      /\ \A m \in DOMAIN program.arguments[c] : \E k \in DOMAIN original.arguments[c] :
           program.arguments[c][m] = original.arguments[c][k]
      /\ \A k \in DOMAIN original.arguments[c] :
           \/ original.arguments[c][k] \in DOMAIN substitution
           \/ \E m \in DOMAIN program.arguments[c] :
                program.arguments[c][m] = original.arguments[c][k]
  BY DEF SameActuals, SameArguments
<1>. HIDE DEF c, N, end, twinEnd, passed, twinPassed
<1>8. ASSUME NEW v \in Values \ DOMAIN substitution
      PROVE  Entered(program, c, twinEnd, twinPassed)[v] = Entered(original, c, end, passed)[v]
  <2>1. CASE \E k \in DOMAIN original.arguments[c] : original.arguments[c][k] = v
    <3>1. PICK k \in DOMAIN original.arguments[c] : original.arguments[c][k] = v
      BY <2>1
    <3>2. Entered(original, c, end, passed)[v] = end[passed[k]]
      BY <1>1, <1>2, <3>1, EnteredFacts
    <3>. DEFINE m == CHOOSE m \in DOMAIN program.arguments[c] : program.arguments[c][m] = v
    <3>3. \E j \in DOMAIN program.arguments[c] : program.arguments[c][j] = v
      BY <1>7, <1>8, <3>1
    <3>4. m \in DOMAIN program.arguments[c] /\ program.arguments[c][m] = v
      BY <3>3
    <3>5. Entered(program, c, twinEnd, twinPassed)[v] = twinEnd[twinPassed[m]]
      BY <3>3 DEF Entered
    <3>. HIDE DEF m
    <3>6. twinPassed[m] = Ends[passed[k]]
      BY <1>7, <3>1, <3>4
    <3>. QED  BY <1>2, <1>6, <3>2, <3>5, <3>6
  <2>2. CASE ~ \E k \in DOMAIN original.arguments[c] : original.arguments[c][k] = v
    <3>1. ~ \E m \in DOMAIN program.arguments[c] : program.arguments[c][m] = v
      BY <1>7, <2>2
    <3>2. Entered(program, c, twinEnd, twinPassed)[v] = twinEnd[v]
      BY <3>1 DEF Entered
    <3>3. Entered(original, c, end, passed)[v] = end[v]
      BY <2>2 DEF Entered
    <3>. QED  BY <1>5, <3>2, <3>3 DEF Agree
  <2>. QED  BY <2>1, <2>2
<1>. QED  BY <1>4, <1>8 DEF Agree

(* Entering a block all of whose arguments were replaced.                  *)
LEMMA BareEntered ==
  ASSUME NEW p, NEW c, NEW e, NEW actuals,
         \A k \in DOMAIN p.arguments[c] : p.arguments[c][k] \in DOMAIN substitution
  PROVE  Agree(e, Entered(p, c, e, actuals)) /\ Agree(Entered(p, c, e, actuals), e)
BY DEF Agree, Entered

LEMMA AgreeTransitive ==
  ASSUME NEW x, NEW y, NEW z, Agree(x, y), Agree(y, z)
  PROVE  Agree(x, z)
BY DEF Agree

-----------------------------------------------------------------------------
(* Where the original is, each value replaced equals what it stands for;   *)
(* the twin is in a block that was kept, has the values that were not      *)
(* replaced, and has read the same; and while the original crosses removed *)
(* blocks the twin waits in a block that is passed nothing.                *)
Runs ==
  /\ at # NoBlock =>
       Reachable(original, at) /\ CopiesHold(original, substitution, Ends, env, at)
  /\ Agree(env, twinEnv)
  /\ twinAt \in kept \cup {NoBlock}
  /\ at \notin kept \cup {NoBlock} => Bare(twinAt)
  /\ seen = twinSeen

NotYetRunning == pass # "done" => at = original.entry /\ twinAt = original.entry /\ env = twinEnv

LEMMA RunsInitially == Init => Runs /\ NotYetRunning
<1>. SUFFICES ASSUME Init PROVE Runs /\ NotYetRunning
  OBVIOUS
<1>1. /\ original \in Programs /\ kept = original.blocks /\ substitution = <<>>
      /\ at = original.entry /\ twinAt = at /\ twinEnv = env /\ seen = twinSeen
  BY DEF Init, CopyInit
<1>2. at \in kept /\ Reachable(original, at)
  BY <1>1, ProgramFacts, EntryReachable
<1>3. CopiesHold(original, substitution, Ends, env, at)
  BY <1>1 DEF CopiesHold
<1>. QED  BY <1>1, <1>2, <1>3 DEF Runs, NotYetRunning, Agree

LEMMA RunsThroughOptimize ==
  ASSUME Passes, Passes', Runs, NotYetRunning, Optimize
  PROVE  Runs' /\ NotYetRunning'
<1>1. original' = original /\ original \in Programs
      /\ UNCHANGED <<at, env, seen, twinAt, twinEnv, twinSeen>>
  BY DEF Optimize, Passes, Graph, Frame, runVars
<1>2. pass # "done"
  BY DEF Optimize, CopyNext, CleanupNext, Keep, Replace, Propagate, RemoveBlock, Compact
<1>3. at = original.entry /\ twinAt = original.entry /\ env = twinEnv
  BY <1>2 DEF NotYetRunning
<1>4. original.entry \in kept'
  BY <1>1 DEF Passes, Graph, Frame, NothingDangles
<1>5. Agreeing(original, substitution', Ends')
  BY <1>1 DEF Passes, Copied
<1>6. \A s, r : Agreeing(original, s, r) => CopiesHold(original, s, r, env, original.entry)
  BY <1>1, CopiesAtEntry
<1>7. CopiesHold(original, substitution', Ends', env, at)
  BY <1>3, <1>5, <1>6
<1>8. Agree(env, twinEnv)'
  BY <1>1, <1>3 DEF Agree
<1>9. at' # NoBlock => Reachable(original, at)
  BY <1>1 DEF Runs
<1>. QED  BY <1>1, <1>3, <1>4, <1>7, <1>8, <1>9 DEF Runs, NotYetRunning

LEMMA RunsNext ==
  ASSUME UNCHANGED <<original, kept, substitution>>,
         at' # NoBlock =>
           Reachable(original, at') /\ CopiesHold(original, substitution, Ends, env', at'),
         Agree(env', twinEnv'),
         twinAt' \in kept \cup {NoBlock},
         at' \notin kept \cup {NoBlock} => Bare(twinAt'),
         seen' = twinSeen'
  PROVE  Runs'
<1>1. Ends' = Ends
  BY DEF Ends
<1>2. Agree(env, twinEnv)'
  BY DEF Agree
<1>3. at' \notin kept \cup {NoBlock} => Bare(twinAt)'
  BY DEF Bare
<1>. QED  BY <1>1, <1>2, <1>3 DEF Runs

LEMMA KeptBlock ==
  ASSUME Passes, Runs, pass = "done", NEW f, Leads(f), Twins(f), at \in kept
  PROVE  /\ original \in Programs /\ at \in original.blocks /\ at # NoBlock /\ twinAt = at
         /\ SameInstructions(program, at)
         /\ \A i \in DOMAIN original.next[at] : SameActuals(program, at, i)
         /\ Reachable(original, at) /\ CopiesHold(original, substitution, Ends, env, at)
         /\ Agree(env, twinEnv)
         /\ \E rank : Ranked(substitution, Ends, rank)
         /\ Agreeing(original, substitution, Ends) /\ Above(original, substitution, Ends)
<1>1. original \in Programs /\ at \in original.blocks
  BY DEF Passes, Graph, Frame
<1>2. at # NoBlock
  BY <1>1, ProgramFacts
<1>3. twinAt = at
  BY <1>1, <1>2 DEF Twins, Leads
<1>4. SameInstructions(program, at) /\ \A i \in DOMAIN original.next[at] : SameActuals(program, at, i)
  BY DEF Passes, Contents, Rewritten, RewrittenAs
<1>. QED  BY <1>1, <1>2, <1>3, <1>4 DEF Runs, Passes, Copied

LEMMA RunsAlongKept ==
  ASSUME Passes, Runs, NEW f, Leads(f), Twins(f), at \in kept,
         NEW i \in DOMAIN original.next[at], Leave(i),
         UNCHANGED <<original, kept, substitution>>
  PROVE  Runs'
<1>. DEFINE c == original.next[at][i]
            target == program.next[at][i]
<1>1. /\ pass = "done" /\ at' = c /\ env' = Along(original, at, env, i)
      /\ seen' = Observed(original, at, env)
      /\ twinAt' = program.next[twinAt][i] /\ twinEnv' = Along(program, twinAt, twinEnv, i)
      /\ twinSeen' = Observed(program, twinAt, twinEnv)
  BY DEF Leave, Running
<1>2. /\ original \in Programs /\ at \in original.blocks /\ twinAt = at
      /\ SameInstructions(program, at) /\ SameActuals(program, at, i)
      /\ Reachable(original, at) /\ CopiesHold(original, substitution, Ends, env, at)
      /\ Agree(env, twinEnv)
      /\ Agreeing(original, substitution, Ends) /\ Above(original, substitution, Ends)
  BY <1>1, KeptBlock
<1>3. PICK rank : Ranked(substitution, Ends, rank)
  BY <1>1, KeptBlock
<1>4. seen' = twinSeen'
  BY <1>1, <1>2, BlocksAgree
<1>5. c \in original.blocks /\ target \in kept
  <2>1. DOMAIN program.next[at] = DOMAIN original.next[at]
    BY DEF Passes, Graph, Terminators
  <2>. QED  BY <1>2, <2>1, ProgramFacts DEF Passes, Graph, NothingDangles
<1>6. Reachable(original, c)
  <2>1. Flows(original, at, c)
    BY DEF Flows
  <2>. QED  BY <1>2, <1>5, <2>1, ReachableOnwards
<1>7. CopiesHold(original, substitution, Ends, env', c)
  BY <1>1, <1>2, <1>3, CopiesAlong
<1>8. SameArguments(program, target)
  BY <1>1, <1>5 DEF Passes, Contents, Rewritten, RewrittenAs
<1>9. c \notin kept => Bare(target)
  BY DEF Passes, TurnedAway
<1>10. Agree(Along(original, at, env, i), Along(program, at, twinEnv, i))
  <2>1. CASE c \in kept
    <3>1. target = c
      BY <2>1 DEF Leads
    <3>. QED  BY <1>2, <1>8, <2>1, <3>1, EdgesAgree
  <2>2. CASE c \notin kept
    <3>. DEFINE end == AtEnd(original, at, env)
                twinEnd == AtEnd(program, at, twinEnv)
    <3>1. Bare(c)
      BY <1>5, <2>2 DEF Passes, Contents, RemovedEmpty
    <3>2. Agree(Entered(original, c, end, original.actuals[at][i]), end)
      BY <3>1, BareEntered DEF Bare
    <3>3. \A m \in DOMAIN program.arguments[target] : program.arguments[target][m] \in DOMAIN substitution
      BY <1>8, <1>9, <2>2 DEF SameArguments, Bare
    <3>4. Agree(twinEnd, Entered(program, target, twinEnd, program.actuals[at][i]))
      BY <3>3, BareEntered
    <3>5. Agree(end, twinEnd)
      <4>1. original.code[at] \in Seq(Instructions)
        BY <1>2, OriginalTyped
      <4>2. Len(original.code[at]) \in 0..Len(original.code[at]) /\ Len(program.code[at]) = Len(original.code[at])
        BY <1>2, <4>1 DEF SameInstructions
      <4>. QED  BY <1>2, <4>2, AfterAgrees DEF AtEnd
    <3>. HIDE DEF end, twinEnd
    <3>6. Agree(Entered(original, c, end, original.actuals[at][i]),
                Entered(program, target, twinEnd, program.actuals[at][i]))
      BY <3>2, <3>4, <3>5, AgreeTransitive
    <3>. QED  BY <3>6 DEF Along, end, twinEnd
  <2>. QED  BY <2>1, <2>2
<1>11. Agree(env', twinEnv')
  BY <1>1, <1>2, <1>10
<1>. QED  BY <1>1, <1>2, <1>4, <1>5, <1>6, <1>7, <1>9, <1>11, RunsNext

(* Crossing a block that was removed, the original reads nothing.          *)
LEMMA EmptyObserves ==
  ASSUME NEW p, NEW b, p.code[b] = <<>>, p.tests[b] = <<>>, NEW e
  PROVE  Observed(p, b, e) = <<>> /\ Agree(AtEnd(p, b, e), e)
<1>1. Len(p.code[b]) = 0
  OBVIOUS
<1>2. Reading(p, b, e, 0) = FlattenSeq(<<>>)
  <2>1. [k \in 1..0 |-> ValuesOf(After(p, b, e, k - 1), p.code[b][k].reads)] = <<>>
    OBVIOUS
  <2>. QED  BY <2>1 DEF Reading
<1>3. FlattenSeq(<<>>) = <<>>
  <2>1. <<>> \in Seq(Seq({}))
    OBVIOUS
  <2>2. FlattenSeq(<<>>) \in Seq({})
    BY <2>1, FlattenFacts
  <2>. QED  BY <2>2
<1>4. ValuesOf(AtEnd(p, b, e), p.tests[b]) = <<>>
  BY DEF ValuesOf
<1>5. Observed(p, b, e) = <<>>
  BY <1>1, <1>2, <1>3, <1>4 DEF Observed
<1>6. Agree(AtEnd(p, b, e), e)
  BY <1>1 DEF AtEnd, After, Agree
<1>. QED  BY <1>5, <1>6

LEMMA RunsAcrossRemoved ==
  ASSUME Passes, Runs, NEW f, Leads(f), Twins(f), at # NoBlock, at \notin kept,
         NEW i \in DOMAIN original.next[at], Leave(i),
         UNCHANGED <<original, kept, substitution>>
  PROVE  Runs'
<1>. DEFINE c == original.next[at][i]
            end == AtEnd(original, at, env)
<1>1. /\ at' = c /\ env' = Along(original, at, env, i) /\ seen' = Observed(original, at, env)
      /\ twinAt' = twinAt /\ twinEnv' = twinEnv /\ twinSeen' = <<>>
  BY DEF Leave
<1>2. original \in Programs /\ at \in original.blocks /\ twinAt = f[at]
  BY DEF Passes, Graph, Frame, Twins
<1>3. original.code[at] = <<>> /\ original.tests[at] = <<>>
  BY <1>2 DEF Passes, Contents, RemovedEmpty
<1>4. seen' = twinSeen' /\ Agree(end, env)
  BY <1>1, <1>3, EmptyObserves
<1>5. c \in original.blocks
  BY <1>2, ProgramFacts
<1>6. Reachable(original, c)
  <2>1. Flows(original, at, c)
    BY DEF Flows
  <2>. QED  BY <1>5, <2>1, ReachableOnwards DEF Runs
<1>7. CopiesHold(original, substitution, Ends, env', c)
  <2>1. PICK rank : Ranked(substitution, Ends, rank)
    BY DEF Passes, Copied
  <2>. QED  BY <1>1, <1>2, <2>1, CopiesAlong DEF Runs, Passes, Copied
<1>8. Bare(twinAt)
  BY DEF Runs
<1>9. Bare(c)
  <2>1. CASE c \in kept
    <3>1. c = twinAt
      BY <1>2, <2>1 DEF Leads
    <3>. QED  BY <1>8, <3>1
  <2>2. CASE c \notin kept
    BY <1>5, <2>2 DEF Passes, Contents, RemovedEmpty
  <2>. QED  BY <2>1, <2>2
<1>10. Agree(env', twinEnv')
  <2>1. Agree(Entered(original, c, end, original.actuals[at][i]), end)
    BY <1>9, BareEntered DEF Bare
  <2>2. Agree(env, twinEnv)
    BY DEF Runs
  <2>3. env' = Entered(original, c, end, original.actuals[at][i])
    BY <1>1 DEF Along
  <2>. HIDE DEF end
  <2>. QED  BY <1>1, <1>4, <2>1, <2>2, <2>3, AgreeTransitive
<1>11. twinAt \in kept \cup {NoBlock}
  BY DEF Runs
<1>. QED  BY <1>1, <1>4, <1>6, <1>7, <1>8, <1>10, <1>11, RunsNext

LEMMA RunsThroughFailure ==
  ASSUME Passes, Runs, NEW f, Leads(f), Twins(f), at # NoBlock,
         NEW n \in 0..(Len(original.code[at]) - 1), Fail(n),
         UNCHANGED <<original, kept, substitution>>
  PROVE  Runs'
<1>1. /\ pass = "done" /\ original.handler[at] # NoBlock /\ at' = original.handler[at]
      /\ env' = After(original, at, env, n) /\ seen' = Reading(original, at, env, n)
      /\ twinAt' = program.handler[twinAt] /\ twinEnv' = After(program, twinAt, twinEnv, n)
      /\ twinSeen' = Reading(program, twinAt, twinEnv, n)
  BY DEF Fail, Running
<1>2. at \in kept
  BY <1>1, HandledBlocksAreKept DEF Passes, Twins
<1>3. /\ original \in Programs /\ at \in original.blocks /\ twinAt = at
      /\ SameInstructions(program, at)
      /\ Reachable(original, at) /\ CopiesHold(original, substitution, Ends, env, at)
      /\ Agree(env, twinEnv)
      /\ Agreeing(original, substitution, Ends) /\ Above(original, substitution, Ends)
  BY <1>1, <1>2, KeptBlock
<1>4. PICK rank : Ranked(substitution, Ends, rank)
  BY <1>1, <1>2, KeptBlock
<1>5. n \in 0..Len(original.code[at])
  <2>1. original.code[at] \in Seq(Instructions)
    BY <1>3, OriginalTyped
  <2>. QED  BY <2>1
<1>6. at' \in kept /\ twinAt' = at' /\ at' \in original.blocks
  <2>1. program.handler[at] = original.handler[at] /\ program.handler[at] \in kept \cup {NoBlock}
    BY <1>2 DEF Passes, Graph, Terminators, NothingDangles
  <2>. QED  BY <1>1, <1>3, <2>1 DEF Passes, Graph, Frame
<1>7. Reachable(original, at')
  <2>1. Flows(original, at, at')
    BY <1>1 DEF Flows
  <2>. QED  BY <1>3, <1>6, <2>1, ReachableOnwards
<1>8. CopiesHold(original, substitution, Ends, env', at')
  BY <1>1, <1>3, <1>4, <1>5, CopiesOnFailure
<1>9. Agree(env', twinEnv')
  BY <1>1, <1>3, <1>5, AfterAgrees
<1>10. seen' = twinSeen'
  BY <1>1, <1>2, <1>3, <1>5, ReadsAgree
<1>. QED  BY <1>6, <1>7, <1>8, <1>9, <1>10, RunsNext

LEMMA RunsThroughHalt ==
  ASSUME Passes, Runs, NEW f, Leads(f), Twins(f), at # NoBlock, Halt,
         UNCHANGED <<original, kept, substitution>>
  PROVE  Runs'
<1>1. /\ pass = "done" /\ original.next[at] = <<>> /\ at' = NoBlock /\ twinAt' = NoBlock
      /\ seen' = Observed(original, at, env) /\ twinSeen' = Observed(program, twinAt, twinEnv)
      /\ UNCHANGED <<env, twinEnv>>
  BY DEF Halt, Running
<1>2. at \in kept
  <2>1. at \in original.blocks /\ twinAt = f[at]
    BY DEF Twins
  <2>2. at \notin kept => twinAt = at
    BY <1>1, <2>1 DEF Leads
  <2>. QED  BY <2>2 DEF Runs
<1>3. /\ twinAt = at /\ SameInstructions(program, at)
      /\ Reachable(original, at) /\ CopiesHold(original, substitution, Ends, env, at)
      /\ Agree(env, twinEnv)
  BY <1>1, <1>2, KeptBlock
<1>4. seen' = twinSeen'
  BY <1>1, <1>2, <1>3, BlocksAgree
<1>5. Agree(env', twinEnv')
  BY <1>1, <1>3
<1>. QED  BY <1>1, <1>4, <1>5, RunsNext

LEMMA RunsKept ==
  ASSUME Passes, Paths, Runs, NotYetRunning, [Next]_vars
  PROVE  Passes' /\ Runs' /\ NotYetRunning'
<1>1. PICK f : Leads(f) /\ Twins(f)
  BY DEF Paths
<1>2. CASE Optimize
  <2>1. Passes'
    BY <1>1, <1>2, PassesThroughOptimize
  <2>. QED  BY <1>2, <2>1, RunsThroughOptimize
<1>3. CASE at # NoBlock /\ Execute
  <2>1. UNCHANGED <<program, pass, copyVars, kept, original>>
    BY <1>3 DEF Execute
  <2>2. Passes'
    BY <2>1, PassesStill
  <2>3. UNCHANGED <<original, kept, substitution>>
    BY <2>1 DEF copyVars
  <2>4. pass = "done"
    BY <1>3 DEF Execute, Leave, Fail, Halt, Running
  <2>5. NotYetRunning'
    BY <2>1, <2>4 DEF NotYetRunning
  <2>6. Runs'
    BY <1>1, <1>3, <2>3, RunsAlongKept, RunsAcrossRemoved, RunsThroughFailure, RunsThroughHalt
       DEF Execute
  <2>. QED  BY <2>2, <2>5, <2>6
<1>4. CASE UNCHANGED vars
  <2>1. UNCHANGED <<program, pass, copyVars, kept, original, at, env, seen, twinAt, twinEnv, twinSeen>>
    BY <1>4 DEF vars, copyVars
  <2>2. Passes'
    BY <2>1, PassesStill
  <2>3. UNCHANGED <<original, kept, substitution>>
    BY <2>1 DEF copyVars
  <2>4. Runs'
    BY <2>1, <2>3, RunsNext DEF Runs
  <2>5. NotYetRunning'
    BY <2>1 DEF NotYetRunning
  <2>. QED  BY <2>2, <2>4, <2>5
<1>. QED  BY <1>2, <1>3, <1>4 DEF Next

(* Whatever branches are taken and wherever the function fails, the        *)
(* optimized function reads in each block the values the original reads    *)
(* there, whether an operand was renamed, an argument dropped with the     *)
(* edge values passed for it, or a block on the way removed.               *)
THEOREM ValuesAgree == Spec => []SameValues
<1>1. Init => Graph /\ Paths /\ Passes /\ Runs /\ NotYetRunning
  BY GraphInitially, PathsInitially, PassesInitially, RunsInitially
<1>2. (Graph /\ Paths /\ Passes /\ Runs /\ NotYetRunning) /\ [Next]_vars
        => (Graph /\ Paths /\ Passes /\ Runs /\ NotYetRunning)'
  BY GraphKept, PathsKept, RunsKept
<1>3. Runs => SameValues
  BY DEF Runs, SameValues
<1>. QED  BY <1>1, <1>2, <1>3, PTL DEF Spec

(***************************************************************************)
(* Dominance in what is left of the function.                              *)
(***************************************************************************)

(* The kept blocks that are entered from outside or from nowhere.          *)
KeptRoots == {b \in kept : b = program.entry \/ \A a \in kept : ~ Flows(program, a, b)}

(* Going from kept block to kept block but not through d, nothing outside  *)
(* of S is met.                                                            *)
Contained(d, S) ==
  /\ KeptRoots \ {d} \subseteq S
  /\ \A a \in kept \cap S : \A b \in kept \ {d} : Flows(program, a, b) => b \in S

(* What is not reached without d in the original is not reached without it *)
(* in what is left: no pass adds a way around a block that is kept.        *)
NoWayAround == \A d \in kept : Contained(d, ReachedWithout(original, d))

LEMMA NoWayAroundInitially ==
  ASSUME original \in Programs, program = original, kept = original.blocks
  PROVE  NoWayAround
<1>1. IsFiniteSet(original.blocks)
  BY VerifiedFacts
<1>2. ASSUME NEW d \in kept
      PROVE  Contained(d, ReachedWithout(original, d))
  <2>. DEFINE S == ReachedWithout(original, d)
  <2>1. Spreads(original, d, S) /\ S \subseteq original.blocks
    BY <1>1, ReachedFacts
  <2>. HIDE DEF S
  <2>. QED  BY <2>1 DEF Spreads, Contained, KeptRoots, Roots, S
<1>. QED  BY <1>2 DEF NoWayAround

LEMMA NoWayAroundStill ==
  ASSUME NoWayAround, UNCHANGED <<original, kept>>, program'.entry = program.entry,
         \A b \in kept : program'.next[b] = program.next[b] /\ program'.handler[b] = program.handler[b]
  PROVE  NoWayAround'
<1>1. \A a \in kept : \A b : Flows(program, a, b)' = Flows(program, a, b)
  BY DEF Flows
<1>2. KeptRoots' = KeptRoots
  BY <1>1 DEF KeptRoots
<1>. QED  BY <1>1, <1>2 DEF NoWayAround, Contained

LEMMA RemovalFlows ==
  ASSUME Graph, NEW b \in kept, FirstRemovable(program, b),
         program' = [program EXCEPT !.next = Redirected(program, b)]
  PROVE  \A a \in kept \ {b} : \A c \in kept \ {b} :
           /\ Flows(program, a, c) => Flows(program, a, c)'
           /\ Flows(program, a, c)' =>
                \/ Flows(program, a, c)
                \/ Flows(program, a, b) /\ Flows(program, b, c)
           /\ Flows(program, a, b) /\ Flows(program, b, c) => Flows(program, a, c)'
<1>1. /\ program'.handler = program.handler
      /\ \A a \in kept \ {b} :
              /\ DOMAIN program'.next[a] = DOMAIN program.next[a]
              /\ \A i \in DOMAIN program.next[a] :
                   program'.next[a][i] = IF program.next[a][i] = b THEN program.next[b][1]
                                                                   ELSE program.next[a][i]
  BY RemovalEffect
<1>2. /\ original.handler[b] = NoBlock
      /\ \A a \in kept : program.handler[a] # b
      /\ \/ Forwarding(program, b)
         \/ /\ original.next[b] = <<>>
            /\ \A a \in kept : \A i \in DOMAIN program.next[a] : program.next[a][i] # b
  BY RemovedBlock
<1>3. program.handler[b] = NoBlock /\ DOMAIN program.next[b] = DOMAIN original.next[b]
  BY <1>2 DEF Graph, Terminators
<1>4. NoBlock \notin kept
  BY ProgramFacts DEF Graph, Frame
<1>. SUFFICES ASSUME NEW a \in kept \ {b}, NEW c \in kept \ {b}
              PROVE  /\ Flows(program, a, c) => Flows(program, a, c)'
                     /\ Flows(program, a, c)' =>
                          \/ Flows(program, a, c)
                          \/ Flows(program, a, b) /\ Flows(program, b, c)
                     /\ Flows(program, a, b) /\ Flows(program, b, c) => Flows(program, a, c)'
  OBVIOUS
<1>5. CASE Forwarding(program, b)
  <2>1. DOMAIN program.next[b] = {1}
    <3>1. original.kind[b] = "branch"
      BY <1>5 DEF Forwarding, Graph, Terminators
    <3>. QED  BY <1>3, <3>1, ProgramFacts DEF Graph, Frame
  <2>2. Flows(program, b, c) <=> program.next[b][1] = c
    BY <1>3, <1>4, <2>1 DEF Flows
  <2>3. Flows(program, a, b) <=> \E i \in DOMAIN program.next[a] : program.next[a][i] = b
    BY <1>2 DEF Flows
  <2>. QED  BY <1>1, <2>2, <2>3 DEF Flows
<1>6. CASE /\ original.next[b] = <<>>
           /\ \A x \in kept : \A i \in DOMAIN program.next[x] : program.next[x][i] # b
  <2>1. ~ Flows(program, a, b)
    BY <1>2, <1>6 DEF Flows
  <2>2. Flows(program, a, c)' <=> Flows(program, a, c)
    BY <1>1, <1>6 DEF Flows
  <2>. QED  BY <2>1, <2>2
<1>. QED  BY <1>2, <1>5, <1>6

LEMMA NoWayAroundThroughRemoval ==
  ASSUME Graph, NoWayAround, RemoveBlock, original' = original
  PROVE  NoWayAround'
<1>1. PICK b \in kept :
        /\ FirstRemovable(program, b)
        /\ program' = [program EXCEPT !.next = Redirected(program, b)]
        /\ kept' = kept \ {b}
  BY DEF RemoveBlock
<1>2. \A a \in kept \ {b} : \A c \in kept \ {b} :
           /\ Flows(program, a, c) => Flows(program, a, c)'
           /\ Flows(program, a, c)' =>
                \/ Flows(program, a, c)
                \/ Flows(program, a, b) /\ Flows(program, b, c)
           /\ Flows(program, a, b) /\ Flows(program, b, c) => Flows(program, a, c)'
  BY <1>1, RemovalFlows
<1>3. program'.entry = program.entry
  BY <1>1, RemovalEffect
<1>4. ~ Flows(program, b, b)
  <2>1. program.handler[b] # b
    BY <1>1, RemovedBlock
  <2>2. \A i \in DOMAIN program.next[b] : program.next[b][i] # b
    <3>1. CASE Forwarding(program, b)
      <4>1. original.kind[b] = "branch" /\ DOMAIN program.next[b] = DOMAIN original.next[b]
        BY <3>1 DEF Forwarding, Graph, Terminators
      <4>2. DOMAIN program.next[b] = {1}
        BY <4>1, ProgramFacts DEF Graph, Frame
      <4>. QED  BY <3>1, <4>2 DEF Forwarding
    <3>2. CASE ~ Forwarding(program, b)
      BY <1>1, <3>2, RemovedBlock
    <3>. QED  BY <3>1, <3>2
  <2>. QED  BY <2>1, <2>2 DEF Flows
<1>5. ASSUME NEW d \in kept \ {b}, NEW S, Contained(d, S)
      PROVE  Contained(d, S)'
  <2>1. ASSUME NEW a \in kept' \cap S, NEW c \in kept' \ {d}, Flows(program, a, c)'
        PROVE  c \in S
    <3>1. a \in kept \ {b} /\ c \in kept \ {b}
      BY <1>1, <2>1
    <3>2. CASE Flows(program, a, c)
      BY <1>5, <2>1, <3>1, <3>2 DEF Contained
    <3>3. CASE Flows(program, a, b) /\ Flows(program, b, c)
      <4>1. b \in S
        BY <1>5, <2>1, <3>1, <3>3 DEF Contained
      <4>. QED  BY <1>5, <2>1, <3>1, <3>3, <4>1 DEF Contained
    <3>. QED  BY <1>2, <2>1, <3>1, <3>2, <3>3
  <2>2. ASSUME NEW c \in KeptRoots' \ {d}
        PROVE  c \in S
    <3>1. c \in kept \ {b} /\ (c = program.entry \/ \A a \in kept \ {b} : ~ Flows(program, a, c)')
      BY <1>1, <1>3, <2>2 DEF KeptRoots
    <3>2. CASE c \in KeptRoots
      BY <1>5, <2>2, <3>2 DEF Contained
    <3>3. CASE c \notin KeptRoots
      <4>1. \A a \in kept \ {b} : ~ Flows(program, a, c)'
        BY <3>1, <3>3 DEF KeptRoots
      <4>2. Flows(program, b, c)
        BY <1>2, <3>1, <3>3, <4>1 DEF KeptRoots
      <4>3. \A a \in kept : ~ Flows(program, a, b)
        BY <1>2, <1>4, <3>1, <4>1, <4>2
      <4>4. b \in S
        BY <1>5, <4>3 DEF Contained, KeptRoots
      <4>. QED  BY <1>5, <2>2, <3>1, <4>2, <4>4 DEF Contained
    <3>. QED  BY <3>2, <3>3
  <2>. QED  BY <2>1, <2>2 DEF Contained
<1>6. ASSUME NEW d \in kept'
      PROVE  Contained(d, ReachedWithout(original, d))'
  <2>. DEFINE S == ReachedWithout(original, d)
  <2>1. d \in kept \ {b} /\ Contained(d, S)
    BY <1>1 DEF NoWayAround
  <2>2. S' = S
    OBVIOUS
  <2>. HIDE DEF S
  <2>3. Contained(d, S)'
    BY <1>5, <2>1, <2>2 DEF Contained
  <2>. QED  BY <2>3 DEF S
<1>. QED  BY <1>6 DEF NoWayAround

LEMMA NoWayAroundThroughOptimize ==
  ASSUME Graph, NoWayAround, Optimize
  PROVE  NoWayAround'
<1>1. original' = original
  BY DEF Optimize
<1>2. CASE CopyNext /\ UNCHANGED kept
  <2>1. Graph' /\ program'.next = program.next
    BY <1>1, <1>2, CopyKeepsGraph
  <2>2. \A b \in kept : program'.handler[b] = program.handler[b]
    BY <1>1, <1>2, <2>1 DEF Graph, Terminators
  <2>3. program'.entry = program.entry
    BY <1>1, <2>1 DEF Graph, Frame
  <2>. QED  BY <1>1, <1>2, <2>1, <2>2, <2>3, NoWayAroundStill
<1>3. CASE RemoveBlock
  BY <1>1, <1>3, NoWayAroundThroughRemoval
<1>4. CASE Compact
  <2>1. Graph' /\ \A b \in kept : program'.next[b] = program.next[b]
    BY <1>1, <1>4, CompactionKeepsGraph
  <2>2. kept' = kept
    BY <1>4 DEF Compact
  <2>3. \A b \in kept : program'.handler[b] = program.handler[b]
    BY <1>1, <2>1, <2>2 DEF Graph, Terminators
  <2>4. program'.entry = program.entry
    BY <1>1, <2>1 DEF Graph, Frame
  <2>. QED  BY <1>1, <2>1, <2>2, <2>3, <2>4, NoWayAroundStill
<1>. QED  BY <1>2, <1>3, <1>4 DEF Optimize, CleanupNext

(* So what dominates in the original dominates in what is left of it.      *)
LEMMA DominanceKept ==
  ASSUME NoWayAround, program.blocks = kept, IsFiniteSet(kept), NEW d \in kept, NEW b \in kept,
         Dominates(original, d, b)
  PROVE  Dominates(program, d, b)
<1>. DEFINE R == ReachedWithout(original, d)
            S == R \cap kept
<1>1. b \notin R /\ Contained(d, R)
  BY DEF NoWayAround, Dominates
<1>. HIDE DEF R
<1>2. Roots(program) = KeptRoots
  BY DEF Roots, KeptRoots
<1>3. Spreads(program, d, S)
  BY <1>1, <1>2 DEF Contained, Spreads, KeptRoots
<1>. HIDE DEF S
<1>4. ReachedWithout(program, d) \subseteq S
  BY <1>3, ReachedLeast
<1>. QED  BY <1>1, <1>4 DEF Dominates, S

(***************************************************************************)
(* What is replaced, and by what.                                          *)
(***************************************************************************)

(* What is replaced has a storage, and what replaces it is defined.        *)
Grounded ==
  /\ DOMAIN substitution \subseteq original.stored
  /\ \A v \in DOMAIN substitution : Ends[v] \in Defined(original)

LEMMA DefinedFacts ==
  ASSUME NEW p
  PROVE  \A v : v \in Defined(p) <=> \E d \in Definitions(p) : d[1] = v
BY DEF Defined

LEMMA ReplacedBy ==
  ASSUME original \in Programs, Worklists, Copied, Grounded,
         cursor <= Len(worklist), Replaceable(Current)
  PROVE  /\ candidates[Current].value \in original.stored
         /\ Representative(Current) \in Defined(original)
<1>. DEFINE u == Representative(Current)
<1>1. candidates[Current].value \in original.stored
  BY CurrentIsCandidate, InventoryFacts DEF Worklists
<1>2. PICK b \in original.blocks : \E k \in DOMAIN original.arguments[b] :
        PassedOne(original, Ends, b, k, u)
  BY ReplaceableFacts
<1>3. PICK k \in DOMAIN original.arguments[b] : PassedOne(original, Ends, b, k, u)
  BY <1>2
<1>. HIDE DEF u
<1>4. PICK e \in Edges(original) : Target(original, e) = b
  BY <1>3 DEF PassedOne
<1>. DEFINE w == Actuals(original, e)[k]
            use == <<w, e[1], Len(original.code[e[1]]) + 1>>
<1>5. w \in Values /\ use \in Uses(original)
  BY <1>3, <1>4, EdgeFacts
<1>6. Ends[w] = u
  BY <1>3, <1>4 DEF PassedOne
<1>7. use[1] = w
  OBVIOUS
<1>. HIDE DEF w, use
<1>8. w \in Defined(original)
  BY <1>5, <1>7, UsedBelow, DefinedFacts
<1>9. u \in Defined(original)
  <2>1. CASE w \in DOMAIN substitution
    BY <1>6, <2>1 DEF Grounded
  <2>2. CASE w \notin DOMAIN substitution
    <3>1. Ends[w] = w
      BY <1>5, <2>2 DEF Copied, Ranked
    <3>. QED  BY <1>6, <1>8, <3>1
  <2>. QED  BY <2>1, <2>2
<1>. QED  BY <1>1, <1>9 DEF u

(* How each step changes the ends.                                         *)
LEMMA EndsKept ==
  ASSUME Copied, substitution' = Looked
  PROVE  Ends' = Ends /\ DOMAIN substitution' = DOMAIN substitution
<1>1. PICK rank : Ranked(substitution, Ends, rank)
  BY DEF Copied
<1>. DEFINE s == Looked
            r == Ends
<1>2. DOMAIN s = DOMAIN substitution /\ Ranked(s, r, rank)
  BY <1>1, CompressionKeepsEnds DEF Looked
<1>3. Ends' = [v \in Values |-> Resolve(s, v)]
  BY DEF Ends
<1>. HIDE DEF r
<1>4. [v \in Values |-> Resolve(s, v)] = r
  BY <1>2, EndsAre
<1>. QED  BY <1>2, <1>3, <1>4 DEF r

LEMMA EndsReplaced ==
  ASSUME original \in Programs, Worklists, Copied, Replace,
         NEW v, v = candidates[Current].value, NEW common, common = Representative(Current)
  PROVE  /\ v \in Values /\ common \in Values /\ common # v
         /\ DOMAIN substitution' = DOMAIN substitution \cup {v}
         /\ \/ v \in DOMAIN substitution /\ Ends' = Ends
            \/ v \notin DOMAIN substitution /\ Ends' = Merged(Ends, v, common)
<1>1. PICK rank : Ranked(substitution, Ends, rank)
  BY DEF Copied
<1>. DEFINE s == Looked
            r == Ends
<1>2. DOMAIN s = DOMAIN substitution /\ Ranked(s, r, rank)
  BY <1>1, CompressionKeepsEnds DEF Looked
<1>3. ASSUME NEW t, substitution' = t, NEW q, NEW higher, Ranked(t, q, higher)
      PROVE  Ends' = q
  <2>1. Ends' = [w \in Values |-> Resolve(t, w)]
    BY <1>3 DEF Ends
  <2>. QED  BY <1>3, <2>1, EndsAre
<1>. HIDE DEF r
<1>4. common \in Values /\ common \notin DOMAIN s /\ v \in Values /\ common # v
  BY <1>2, ReplaceableFacts, CurrentIsCandidate DEF Replace
<1>5. substitution' = Extended(s, v, common)
  BY DEF Replace, Extended
<1>6. DOMAIN substitution' = DOMAIN s \cup {v}
  BY <1>5 DEF Extended
<1>7. s = [w \in DOMAIN s |-> s[w]]
  BY DEF Looked, Compressed
<1>. HIDE DEF s
<1>8. CASE v \notin DOMAIN s
  <2>1. \E higher : Ranked(Extended(s, v, common), Merged(r, v, common), higher)
    BY <1>2, <1>4, <1>8, ReplacementRanked
  <2>2. Ends' = Merged(r, v, common)
    BY <1>3, <1>5, <2>1
  <2>. QED  BY <1>2, <1>4, <1>6, <1>8, <2>2 DEF r
<1>9. CASE v \in DOMAIN s
  <2>1. DOMAIN s \cup {v} = DOMAIN s
    BY <1>9
  <2>2. substitution' = [w \in DOMAIN s |-> s[w]]
    BY <1>5, <2>1 DEF Extended
  <2>3. substitution' = s
    BY <1>7, <2>2
  <2>4. Ends' = r
    BY <1>2, <1>3, <2>3
  <2>. QED  BY <1>2, <1>4, <1>6, <1>9, <2>4 DEF r
<1>. QED  BY <1>8, <1>9

LEMMA GroundedKept ==
  ASSUME original \in Programs, Worklists, Copied, Grounded, CopyNext, original' = original
  PROVE  Grounded'
<1>1. CASE Keep
  BY <1>1, EndsKept DEF Keep, Grounded
<1>2. CASE Replace
  <2>. DEFINE common == Representative(Current)
              v == candidates[Current].value
  <2>1. v \in original.stored /\ common \in Defined(original)
    BY <1>2, ReplacedBy DEF Replace
  <2>2. /\ v \in Values /\ DOMAIN substitution' = DOMAIN substitution \cup {v}
        /\ \/ v \in DOMAIN substitution /\ Ends' = Ends
           \/ v \notin DOMAIN substitution /\ Ends' = Merged(Ends, v, common)
    BY <1>2, EndsReplaced
  <2>3. DOMAIN substitution \subseteq Values /\ \A w \in Values \ DOMAIN substitution : Ends[w] = w
    BY DEF Copied, Ranked
  <2>. HIDE DEF common, v
  <2>4. CASE Ends' = Merged(Ends, v, common)
    <3>1. \A w \in DOMAIN substitution \cup {v} :
            Ends'[w] = common \/ (w \in DOMAIN substitution /\ Ends'[w] = Ends[w])
      BY <2>2, <2>3, <2>4 DEF Merged
    <3>. QED  BY <2>1, <2>2, <3>1 DEF Grounded
  <2>5. CASE v \in DOMAIN substitution /\ Ends' = Ends
    BY <2>1, <2>2, <2>5 DEF Grounded
  <2>. QED  BY <2>2, <2>4, <2>5
<1>3. CASE Propagate
  <2>1. substitution' = substitution
    BY <1>3 DEF Propagate, copyVars
  <2>2. Ends' = Ends
    BY <2>1 DEF Ends
  <2>. QED  BY <2>1, <2>2 DEF Grounded
<1>. QED  BY <1>1, <1>2, <1>3 DEF CopyNext

(***************************************************************************)
(* The form of what is left.                                               *)
(***************************************************************************)

LEMMA DefinitionCases ==
  ASSUME NEW p, NEW d \in Definitions(p)
  PROVE  \E b \in p.blocks :
           \/ \E k \in DOMAIN p.arguments[b] : d = <<p.arguments[b][k], b, 0>>
           \/ \E k \in DOMAIN p.code[b] : \E v \in p.code[b][k].defines : d = <<v, b, k>>
<1>. DEFINE of(a) == {<<p.arguments[a][j], a, 0>> : j \in DOMAIN p.arguments[a]}
            inner(a, j) == {<<w, a, j>> : w \in p.code[a][j].defines}
            code(a) == UNION {inner(a, j) : j \in DOMAIN p.code[a]}
<1>1. d \in UNION {of(a) : a \in p.blocks} \/ d \in UNION {code(a) : a \in p.blocks}
  BY DEF Definitions
<1>2. CASE d \in UNION {of(a) : a \in p.blocks}
  <2>1. PICK b \in p.blocks : d \in of(b)
    <3>. HIDE DEF of
    <3>. QED  BY <1>2
  <2>. QED  BY <2>1
<1>3. CASE d \in UNION {code(a) : a \in p.blocks}
  <2>1. PICK b \in p.blocks : d \in code(b)
    <3>. HIDE DEF code
    <3>. QED  BY <1>3
  <2>2. PICK k \in DOMAIN p.code[b] : d \in inner(b, k)
    <3>. HIDE DEF inner
    <3>. QED  BY <2>1
  <2>. QED  BY <2>1, <2>2
<1>. QED  BY <1>1, <1>2, <1>3

LEMMA DefinedValues ==
  ASSUME NEW p \in Programs
  PROVE  Defined(p) \subseteq Values
<1>1. ASSUME NEW d \in Definitions(p)
      PROVE  d[1] \in Values
  <2>1. PICK b \in p.blocks :
           \/ \E k \in DOMAIN p.arguments[b] : d = <<p.arguments[b][k], b, 0>>
           \/ \E k \in DOMAIN p.code[b] : \E v \in p.code[b][k].defines : d = <<v, b, k>>
    BY DefinitionCases
  <2>2. \A k \in DOMAIN p.arguments[b] : p.arguments[b][k] \in Values
    BY ArgumentFacts
  <2>3. \A k \in DOMAIN p.code[b] : p.code[b][k].defines \subseteq Values
    BY OriginalTyped
  <2>. QED  BY <2>1, <2>2, <2>3
<1>. QED  BY <1>1 DEF Defined

(* Block b of q: different arguments, none of them replaced, and as many   *)
(* values passed along each edge as its target takes.                      *)
Shaped(q, b) ==
  /\ q.arguments[b] \in Seq(Values)
  /\ \A m \in DOMAIN q.arguments[b] : q.arguments[b][m] \notin DOMAIN substitution
  /\ \A j, m \in DOMAIN q.arguments[b] : q.arguments[b][j] = q.arguments[b][m] => j = m
  /\ q.next[b] \in Seq(original.blocks)
  /\ DOMAIN q.actuals[b] = DOMAIN q.next[b]
  /\ \A i \in DOMAIN q.next[b] :
       /\ q.actuals[b][i] \in Seq(Values)
       /\ Len(q.actuals[b][i]) = Len(q.arguments[q.next[b][i]])

(* The values the other tables name.                                       *)
Recorded(q) ==
  /\ q.expressionValues = original.expressionValues
  /\ Elements(q.provenance) \subseteq {Ends[v] : v \in Elements(original.provenance)}

Form(q) == Recorded(q) /\ \A b \in kept : Shaped(q, b)

Formed ==
  /\ pass # "mir-copy-propagation" => Form(program)
  /\ pass = "done" => program.blocks = kept

LEMMA SuccessorsTyped ==
  ASSUME NEW p \in Programs, NEW b \in p.blocks
  PROVE  p.next[b] \in Seq(p.blocks)
<1>1. p.next[b] \in Seq(Nat)
  BY VerifiedFacts DEF IsProgram
<1>2. \A i \in DOMAIN p.next[b] : p.next[b][i] \in p.blocks
  BY ProgramFacts
<1>. QED  BY <1>1, <1>2

LEMMA FormOfOriginal ==
  ASSUME original \in Programs, Copied, kept = original.blocks, substitution = <<>>
  PROVE  Form(original)
<1>1. PICK rank : Ranked(substitution, Ends, rank)
  BY DEF Copied
<1>2. DOMAIN substitution = {} /\ \A v \in Values : Ends[v] = v
  BY <1>1 DEF Ranked
<1>3. Recorded(original)
  <2>1. Elements(original.provenance) \subseteq Values
    BY DefinedValues, ProgramsAssumption DEF Verified
  <2>2. \A v \in Elements(original.provenance) : Ends[v] = v
    BY <1>2, <2>1
  <2>. QED  BY <2>2 DEF Recorded
<1>4. ASSUME NEW b \in kept
      PROVE  Shaped(original, b)
  <2>1. \A j, m \in DOMAIN original.arguments[b] :
          original.arguments[b][j] = original.arguments[b][m] => j = m
    BY VerifiedFacts DEF DefinedOnce
  <2>. QED  BY <1>2, <2>1, OriginalTyped, SuccessorsTyped DEF Shaped
<1>. QED  BY <1>3, <1>4 DEF Form

(* Picking out positions of a sequence keeps different elements different. *)
LEMMA AtInjective ==
  ASSUME NEW X, NEW seq \in Seq(X), \A j, m \in DOMAIN seq : seq[j] = seq[m] => j = m, NEW S
  PROVE  /\ At(seq, S) \in Seq(X)
         /\ \A j, m \in DOMAIN At(seq, S) : At(seq, S)[j] = At(seq, S)[m] => j = m
         /\ \A m \in DOMAIN At(seq, S) : \E k \in DOMAIN seq : k \in S /\ At(seq, S)[m] = seq[k]
<1>. DEFINE order == InOrder(Len(seq), S)
            picked == At(seq, S)
<1>1. /\ picked \in Seq(X)
      /\ DOMAIN picked = DOMAIN order
      /\ \A n \in DOMAIN order :
           order[n] \in DOMAIN seq /\ order[n] \in S /\ picked[n] = seq[order[n]]
  BY AtFacts
<1>2. \A i, j \in DOMAIN order : i < j => order[i] < order[j]
  BY InOrderFacts DEF Listing
<1>. HIDE DEF order, picked
<1>3. ASSUME NEW j \in DOMAIN picked, NEW m \in DOMAIN picked, picked[j] = picked[m]
      PROVE  j = m
  <2>1. order[j] = order[m] /\ order[j] \in Nat
    BY <1>1, <1>3
  <2>2. j \in Nat /\ m \in Nat
    BY <1>1
  <2>. QED  BY <1>1, <1>2, <2>1, <2>2
<1>. QED  BY <1>1, <1>3 DEF picked

LEMMA PropagatedOthers ==
  ASSUME original \in Programs, NEW q, q = Propagated(original, substitution)
  PROVE  /\ q.next = original.next /\ q.expressionValues = original.expressionValues
         /\ q.provenance = Substituted(substitution, original.provenance)
<1>1. DOMAIN original = Fields
  BY ProgramFacts
<1>. QED  BY <1>1 DEF Propagated, Fields

LEMMA FormOfPropagated ==
  ASSUME original \in Programs, Copied, kept = original.blocks,
         NEW q, q = Propagated(original, substitution)
  PROVE  Form(q)
<1>. DEFINE s == substitution
            left(b) == Surviving(original, s, b)
<1>1. /\ q.arguments = [b \in original.blocks |->
                          At(original.arguments[b], Surviving(original, s, b))]
      /\ q.actuals = [b \in original.blocks |->
                        [i \in DOMAIN original.actuals[b] |-> EdgeValues(original, s, b, i)]]
  BY PropagatedFields
<1>2. /\ q.next = original.next /\ q.expressionValues = original.expressionValues
      /\ q.provenance = Substituted(s, original.provenance)
  BY PropagatedOthers
<1>3. Ends \in [Values -> Values]
  BY DEF Copied, Ranked
<1>4. Recorded(q)
  <2>1. Elements(original.provenance) \subseteq Values
    BY DefinedValues, ProgramsAssumption DEF Verified
  <2>2. q.provenance = Renamed(original.provenance)
    BY <1>2, <2>1, SubstitutedRenames DEF Elements
  <2>. QED  BY <1>2, <2>2 DEF Recorded, Elements, Renamed
<1>5. ASSUME NEW b \in kept
      PROVE  /\ q.arguments[b] = At(original.arguments[b], left(b))
             /\ q.arguments[b] \in Seq(Values)
             /\ \A m \in DOMAIN q.arguments[b] : q.arguments[b][m] \notin DOMAIN s
             /\ \A j, m \in DOMAIN q.arguments[b] : q.arguments[b][j] = q.arguments[b][m] => j = m
             /\ Len(q.arguments[b]) = Len(InOrder(Len(original.arguments[b]), left(b)))
  <2>. DEFINE seq == original.arguments[b]
              S == left(b)
  <2>1. seq \in Seq(Values) /\ \A j, m \in DOMAIN seq : seq[j] = seq[m] => j = m
    BY OriginalTyped, VerifiedFacts DEF DefinedOnce
  <2>2. q.arguments[b] = At(seq, S)
    BY <1>1
  <2>3. \A k \in DOMAIN seq : k \in S => seq[k] \notin DOMAIN s
    BY DEF Surviving
  <2>. HIDE DEF seq, S
  <2>4. /\ At(seq, S) \in Seq(Values)
        /\ \A j, m \in DOMAIN At(seq, S) : At(seq, S)[j] = At(seq, S)[m] => j = m
        /\ \A m \in DOMAIN At(seq, S) : \E k \in DOMAIN seq : k \in S /\ At(seq, S)[m] = seq[k]
    BY <2>1, AtInjective
  <2>5. \A m \in DOMAIN At(seq, S) : At(seq, S)[m] \notin DOMAIN s
    BY <2>3, <2>4
  <2>6. Len(At(seq, S)) = Len(InOrder(Len(seq), S))
    BY <2>1, AtFacts
  <2>. QED  BY <2>2, <2>4, <2>5, <2>6 DEF seq, S
<1>6. ASSUME NEW b \in kept, NEW i \in DOMAIN original.next[b]
      PROVE  /\ q.actuals[b][i] \in Seq(Values)
             /\ Len(q.actuals[b][i]) = Len(q.arguments[original.next[b][i]])
  <2>. DEFINE c == original.next[b][i]
              actuals == original.actuals[b][i]
              S == left(c)
              T == DOMAIN actuals \ (DOMAIN original.arguments[c] \ S)
              picked == At(actuals, S)
  <2>1. /\ c \in original.blocks /\ actuals \in Seq(Values)
        /\ DOMAIN actuals = DOMAIN original.arguments[c]
        /\ Len(actuals) = Len(original.arguments[c])
        /\ i \in DOMAIN original.actuals[b]
    BY OriginalTyped
  <2>2. T = S
    BY <2>1 DEF Surviving
  <2>3. q.actuals[b][i] = Substituted(s, At(actuals, T))
    <3>1. q.actuals[b] = [j \in DOMAIN original.actuals[b] |-> EdgeValues(original, s, b, j)]
      BY <1>1
    <3>2. q.actuals[b][i] = EdgeValues(original, s, b, i)
      BY <2>1, <3>1
    <3>. QED  BY <3>2 DEF EdgeValues
  <2>4. picked \in Seq(Values) /\ Len(picked) = Len(InOrder(Len(original.arguments[c]), S))
    <3>. HIDE DEF S, actuals
    <3>. QED  BY <2>1, AtFacts
  <2>5. Len(q.arguments[c]) = Len(InOrder(Len(original.arguments[c]), S))
    BY <1>5, <2>1
  <2>. HIDE DEF picked, S, T
  <2>6. q.actuals[b][i] = Renamed(picked)
    <3>1. q.actuals[b][i] = Substituted(s, picked)
      BY <2>2, <2>3 DEF picked
    <3>2. \A m \in DOMAIN picked : picked[m] \in Values
      BY <2>4
    <3>. QED  BY <3>1, <3>2, SubstitutedRenames
  <2>7. Renamed(picked) \in Seq(Values) /\ Len(Renamed(picked)) = Len(picked)
    BY <1>3, <2>4 DEF Renamed
  <2>. QED  BY <2>4, <2>5, <2>6, <2>7
<1>7. ASSUME NEW b \in kept
      PROVE  Shaped(q, b)
  <2>1. q.next[b] \in Seq(original.blocks)
    BY <1>2, SuccessorsTyped
  <2>2. DOMAIN q.actuals[b] = DOMAIN original.actuals[b]
    BY <1>1
  <2>3. DOMAIN original.actuals[b] = DOMAIN original.next[b]
    BY OriginalTyped
  <2>. HIDE DEF left
  <2>. QED  BY <1>2, <1>5, <1>6, <2>1, <2>2, <2>3 DEF Shaped
<1>. QED  BY <1>4, <1>7 DEF Form

LEMMA FormStill ==
  ASSUME Formed, UNCHANGED <<program, pass, kept, original, substitution>>
  PROVE  Formed'
<1>1. Ends' = Ends
  BY DEF Ends
<1>. QED  BY <1>1 DEF Formed, Form, Recorded, Shaped

LEMMA FormThroughCopy ==
  ASSUME Graph, Copied, Formed, CopyNext, UNCHANGED <<kept, original>>
  PROVE  Formed'
<1>1. pass = "mir-copy-propagation"
  BY DEF CopyNext, Keep, Replace, Propagate
<1>2. program = original /\ kept = original.blocks /\ original \in Programs
  BY <1>1 DEF Graph, Frame
<1>3. CASE Keep \/ Replace
  <2>1. pass' = pass
    BY <1>3 DEF Keep, Replace
  <2>. QED  BY <1>1, <2>1 DEF Formed
<1>4. CASE Propagate
  <2>1. /\ substitution' = substitution /\ pass' = "mir-cfg-cleanup"
        /\ program' = IF substitution = <<>> THEN original ELSE Propagated(original, substitution)
    BY <1>2, <1>4 DEF Propagate, copyVars
  <2>. DEFINE q == IF substitution = <<>> THEN original ELSE Propagated(original, substitution)
  <2>2. Form(q)
    <3>1. CASE substitution = <<>>
      BY <1>2, <3>1, FormOfOriginal
    <3>2. CASE substitution # <<>>
      BY <1>2, <3>2, FormOfPropagated
    <3>. QED  BY <3>1, <3>2
  <2>3. program' = q
    BY <2>1
  <2>. HIDE DEF q
  <2>4. Ends' = Ends
    BY <2>1 DEF Ends
  <2>5. Form(program)'
    BY <2>1, <2>2, <2>3, <2>4 DEF Form, Recorded, Shaped
  <2>. QED  BY <2>1, <2>5 DEF Formed
<1>. QED  BY <1>3, <1>4 DEF CopyNext

LEMMA FormThroughRemoval ==
  ASSUME Graph, Formed, RemoveBlock, UNCHANGED <<original, substitution>>
  PROVE  Formed'
<1>1. PICK b \in kept :
        /\ FirstRemovable(program, b)
        /\ program' = [program EXCEPT !.next = Redirected(program, b)]
        /\ kept' = kept \ {b}
  BY DEF RemoveBlock
<1>2. pass = "mir-cfg-cleanup" /\ pass' = pass
  BY DEF RemoveBlock
<1>3. /\ program'.arguments = program.arguments /\ program'.actuals = program.actuals
      /\ program'.expressionValues = program.expressionValues
      /\ program'.provenance = program.provenance
      /\ program'.next = Redirected(program, b)
  BY <1>1 DEF Graph, Frame, Fields
<1>4. Form(program)
  BY <1>2 DEF Formed
<1>5. Ends' = Ends
  BY DEF Ends
<1>6. Recorded(program)'
  BY <1>3, <1>4, <1>5 DEF Form, Recorded
<1>7. ASSUME NEW a \in kept \ {b}
      PROVE  /\ DOMAIN program'.next[a] = DOMAIN program.next[a]
             /\ program'.next[a] \in Seq(original.blocks)
             /\ \A i \in DOMAIN program.next[a] :
                  Len(program.arguments[program'.next[a][i]]) =
                    Len(program.arguments[program.next[a][i]])
  <2>1. program.next[a] \in Seq(original.blocks)
    BY <1>4 DEF Form, Shaped
  <2>2. CASE ~ Forwarding(program, b)
    <3>1. program'.next[a] = program.next[a]
      BY <1>3, <2>2 DEF Redirected
    <3>. QED  BY <2>1, <3>1
  <2>3. CASE Forwarding(program, b)
    <3>. DEFINE t == program.next[b][1]
    <3>1. program'.next[a] = [i \in DOMAIN program.next[a] |->
                                IF program.next[a][i] = b THEN t ELSE program.next[a][i]]
      BY <1>3, <2>3 DEF Redirected, Graph, Frame
    <3>2. t \in original.blocks /\ program.arguments[t] = <<>> /\ program.arguments[b] = <<>>
      BY <2>3 DEF Forwarding, Empty, Graph, Frame
    <3>. HIDE DEF t
    <3>3. program'.next[a] \in Seq(original.blocks) /\ DOMAIN program'.next[a] = DOMAIN program.next[a]
      BY <2>1, <3>1, <3>2
    <3>4. \A i \in DOMAIN program.next[a] :
            program.arguments[program'.next[a][i]] = program.arguments[program.next[a][i]]
      BY <3>1, <3>2
    <3>. QED  BY <3>3, <3>4
  <2>. QED  BY <2>2, <2>3
<1>8. ASSUME NEW a \in kept'
      PROVE  Shaped(program, a)'
  <2>1. a \in kept \ {b} /\ Shaped(program, a)
    BY <1>1, <1>4 DEF Form
  <2>. QED  BY <1>3, <1>7, <2>1 DEF Shaped
<1>. QED  BY <1>2, <1>6, <1>8 DEF Formed, Form

LEMMA FormThroughCompaction ==
  ASSUME Graph, Formed, Compact, UNCHANGED <<original, substitution>>
  PROVE  Formed'
<1>1. program' = Compacted(program) /\ kept' = kept /\ pass = "mir-cfg-cleanup"
  BY DEF Compact
<1>2. DOMAIN program = Fields
  BY DEF Graph, Frame
<1>3. /\ program'.arguments = [b \in kept |-> program.arguments[b]]
      /\ program'.actuals = [b \in kept |-> program.actuals[b]]
      /\ program'.next = [b \in kept |-> program.next[b]]
      /\ program'.blocks = kept
      /\ program'.expressionValues = program.expressionValues
      /\ program'.provenance = program.provenance
  BY <1>1, <1>2 DEF Compacted, Fields
<1>4. Form(program)
  BY <1>1 DEF Formed
<1>5. Ends' = Ends
  BY DEF Ends
<1>6. Recorded(program)'
  BY <1>3, <1>4, <1>5 DEF Form, Recorded
<1>7. ASSUME NEW a \in kept'
      PROVE  Shaped(program, a)'
  <2>1. /\ a \in kept /\ program'.arguments[a] = program.arguments[a]
        /\ program'.actuals[a] = program.actuals[a] /\ program'.next[a] = program.next[a]
    BY <1>1, <1>3
  <2>2. Shaped(program, a)
    BY <1>4, <2>1 DEF Form
  <2>3. \A i \in DOMAIN program.next[a] :
          program'.arguments[program.next[a][i]] = program.arguments[program.next[a][i]]
    BY <1>3, <2>1 DEF Graph, NothingDangles
  <2>. QED  BY <2>1, <2>2, <2>3 DEF Shaped
<1>. QED  BY <1>1, <1>3, <1>6, <1>7 DEF Formed, Form

(***************************************************************************)
(* What is left passes the verifier.                                       *)
(***************************************************************************)

(* What is left, whenever every block of the function is kept.             *)
Left ==
  /\ Passes /\ Grounded /\ NoWayAround /\ Formed
  /\ pass # "mir-copy-propagation" /\ program.blocks = kept
  /\ \E f : Leads(f)

LEMMA LeftFacts ==
  ASSUME Left
  PROVE  /\ original \in Programs /\ kept \subseteq original.blocks /\ IsFiniteSet(kept)
         /\ RewrittenAs(program) /\ Form(program)
         /\ \E rank : Ranked(substitution, Ends, rank)
         /\ Agreeing(original, substitution, Ends) /\ Above(original, substitution, Ends)
<1>1. original \in Programs /\ kept \subseteq original.blocks
  BY DEF Left, Passes, Graph, Frame
<1>2. IsFiniteSet(kept)
  BY <1>1, VerifiedFacts, SmallBlocks
<1>. QED  BY <1>1, <1>2 DEF Left, Passes, Copied, Contents, Rewritten, Formed

(* The definitions that are left are those of the original but for the     *)
(* arguments replaced.                                                     *)
LEMMA DefinitionsLeft ==
  ASSUME Left
  PROVE  \A d : d \in Definitions(program) <=>
           d \in Definitions(original) /\ d[1] \notin DOMAIN substitution
<1>1. /\ original \in Programs /\ kept \subseteq original.blocks
      /\ RewrittenAs(program) /\ Form(program)
      /\ Agreeing(original, substitution, Ends)
  BY LeftFacts
<1>2. program.blocks = kept
  BY DEF Left
<1>3. ASSUME NEW b \in kept
      PROVE  /\ DOMAIN program.code[b] = DOMAIN original.code[b]
             /\ \A k \in DOMAIN original.code[b] :
                  program.code[b][k].defines = original.code[b][k].defines
             /\ \A m \in DOMAIN program.arguments[b] :
                  program.arguments[b][m] \notin DOMAIN substitution
             /\ SameArguments(program, b)
  BY <1>1 DEF RewrittenAs, SameInstructions, Form, Shaped
<1>4. ASSUME NEW b \in original.blocks, NEW k \in DOMAIN original.code[b],
             NEW v \in original.code[b][k].defines
      PROVE  v \notin DOMAIN substitution
  <2>1. SUFFICES ASSUME v \in DOMAIN substitution PROVE FALSE
    OBVIOUS
  <2>2. PICK c \in original.blocks : \E j \in DOMAIN original.arguments[c] :
          v = original.arguments[c][j]
    BY <1>1, <2>1 DEF Agreeing
  <2>3. ArgumentOf(original, v, c)
    BY <1>1, <2>2, ArgumentFacts
  <2>. DEFINE d == <<v, b, k>>
  <2>4. d \in Definitions(original) /\ d[1] = v /\ d[3] = k
    BY InstructionFacts
  <2>. HIDE DEF d
  <2>5. k = 0
    BY <2>3, <2>4 DEF ArgumentOf
  <2>6. original.code[b] \in Seq(Instructions)
    BY <1>1, OriginalTyped
  <2>. QED  BY <2>5, <2>6
<1>5. ASSUME NEW d \in Definitions(program)
      PROVE  d \in Definitions(original) /\ d[1] \notin DOMAIN substitution
  <2>1. PICK b \in kept :
           \/ \E k \in DOMAIN program.arguments[b] : d = <<program.arguments[b][k], b, 0>>
           \/ \E k \in DOMAIN program.code[b] : \E v \in program.code[b][k].defines : d = <<v, b, k>>
    BY <1>2, DefinitionCases
  <2>2. ASSUME NEW k \in DOMAIN program.arguments[b], d = <<program.arguments[b][k], b, 0>>
        PROVE  d \in Definitions(original) /\ d[1] \notin DOMAIN substitution
    <3>1. PICK j \in DOMAIN original.arguments[b] :
            program.arguments[b][k] = original.arguments[b][j]
      BY <1>3, <2>2 DEF SameArguments
    <3>2. ArgumentOf(original, original.arguments[b][j], b)
      BY <1>1, ArgumentFacts
    <3>. QED  BY <1>3, <2>2, <3>1, <3>2 DEF ArgumentOf
  <2>3. ASSUME NEW k \in DOMAIN program.code[b], NEW v \in program.code[b][k].defines,
               d = <<v, b, k>>
        PROVE  d \in Definitions(original) /\ d[1] \notin DOMAIN substitution
    <3>1. k \in DOMAIN original.code[b] /\ v \in original.code[b][k].defines /\ b \in original.blocks
      BY <1>1, <1>3, <2>3
    <3>. QED  BY <1>4, <2>3, <3>1, InstructionFacts
  <2>. QED  BY <2>1, <2>2, <2>3
<1>6. ASSUME NEW d \in Definitions(original), d[1] \notin DOMAIN substitution
      PROVE  d \in Definitions(program)
  <2>1. PICK b \in original.blocks :
           \/ \E k \in DOMAIN original.arguments[b] : d = <<original.arguments[b][k], b, 0>>
           \/ \E k \in DOMAIN original.code[b] : \E v \in original.code[b][k].defines : d = <<v, b, k>>
    BY DefinitionCases
  <2>2. b \in kept
    <3>1. SUFFICES ASSUME b \notin kept PROVE FALSE
      OBVIOUS
    <3>2. original.code[b] = <<>> /\ Bare(b)
      BY <3>1 DEF Left, Passes, Contents, RemovedEmpty
    <3>. QED  BY <1>6, <2>1, <3>2 DEF Bare
  <2>3. ASSUME NEW k \in DOMAIN original.arguments[b], d = <<original.arguments[b][k], b, 0>>
        PROVE  d \in Definitions(program)
    <3>1. PICK m \in DOMAIN program.arguments[b] :
            program.arguments[b][m] = original.arguments[b][k]
      BY <1>3, <1>6, <2>2, <2>3 DEF SameArguments
    <3>2. <<program.arguments[b][m], b, 0>> \in Definitions(program)
      BY <1>2, <2>2, ArgumentIsDefinition
    <3>. QED  BY <2>3, <3>1, <3>2
  <2>4. ASSUME NEW k \in DOMAIN original.code[b], NEW v \in original.code[b][k].defines,
               d = <<v, b, k>>
        PROVE  d \in Definitions(program)
    BY <1>2, <1>3, <2>2, <2>4, InstructionFacts
  <2>. QED  BY <2>1, <2>3, <2>4
<1>. QED  BY <1>5, <1>6

LEMMA UseCases ==
  ASSUME NEW p, NEW use \in Uses(p)
  PROVE  \E b \in p.blocks :
           \/ \E k \in DOMAIN p.code[b] : \E j \in DOMAIN p.code[b][k].reads :
                use = <<p.code[b][k].reads[j], b, k>>
           \/ \E j \in DOMAIN p.tests[b] : use = <<p.tests[b][j], b, Len(p.code[b]) + 1>>
           \/ \E i \in DOMAIN p.actuals[b] : \E k \in DOMAIN p.actuals[b][i] :
                use = <<p.actuals[b][i][k], b, Len(p.code[b]) + 1>>
<1>. DEFINE inner(a, k) == {<<v, a, k>> : v \in Elements(p.code[a][k].reads)}
            code(a) == UNION {inner(a, k) : k \in DOMAIN p.code[a]}
            passed(a) == UNION {Elements(x) : x \in Elements(p.actuals[a])}
            operands(a) == Elements(p.tests[a]) \cup passed(a)
            last(a) == {<<v, a, Len(p.code[a]) + 1>> : v \in operands(a)}
<1>1. use \in UNION {code(a) : a \in p.blocks} \/ use \in UNION {last(a) : a \in p.blocks}
  BY DEF Uses
<1>2. CASE use \in UNION {code(a) : a \in p.blocks}
  <2>1. PICK b \in p.blocks : use \in code(b)
    <3>. HIDE DEF code
    <3>. QED  BY <1>2
  <2>2. PICK k \in DOMAIN p.code[b] : use \in inner(b, k)
    <3>. HIDE DEF inner
    <3>. QED  BY <2>1
  <2>3. PICK j \in DOMAIN p.code[b][k].reads : use = <<p.code[b][k].reads[j], b, k>>
    BY <2>2 DEF Elements
  <2>. QED  BY <2>1, <2>2, <2>3
<1>3. CASE use \in UNION {last(a) : a \in p.blocks}
  <2>1. PICK b \in p.blocks : use \in last(b)
    <3>. HIDE DEF last
    <3>. QED  BY <1>3
  <2>2. PICK v \in operands(b) : use = <<v, b, Len(p.code[b]) + 1>>
    <3>. HIDE DEF operands
    <3>. QED  BY <2>1
  <2>3. CASE v \in Elements(p.tests[b])
    BY <2>1, <2>2, <2>3 DEF Elements
  <2>4. CASE v \in passed(b)
    <3>1. PICK x \in Elements(p.actuals[b]) : v \in Elements(x)
      BY <2>4
    <3>2. PICK i \in DOMAIN p.actuals[b] : x = p.actuals[b][i]
      BY <3>1 DEF Elements
    <3>3. PICK k \in DOMAIN p.actuals[b][i] : v = p.actuals[b][i][k]
      BY <3>1, <3>2 DEF Elements
    <3>. QED  BY <2>1, <2>2, <3>2, <3>3
  <2>. QED  BY <2>2, <2>3, <2>4
<1>. QED  BY <1>1, <1>2, <1>3

LEMMA UsesTyped ==
  ASSUME NEW p \in Programs, NEW use \in Uses(p)
  PROVE  use[1] \in Values /\ use[2] \in p.blocks /\ use[3] \in Nat \ {0}
<1>1. PICK b \in p.blocks :
           \/ \E k \in DOMAIN p.code[b] : \E j \in DOMAIN p.code[b][k].reads :
                use = <<p.code[b][k].reads[j], b, k>>
           \/ \E j \in DOMAIN p.tests[b] : use = <<p.tests[b][j], b, Len(p.code[b]) + 1>>
           \/ \E i \in DOMAIN p.actuals[b] : \E k \in DOMAIN p.actuals[b][i] :
                use = <<p.actuals[b][i][k], b, Len(p.code[b]) + 1>>
  BY UseCases
<1>2. /\ p.tests[b] \in Seq(Values) /\ p.code[b] \in Seq(Instructions)
      /\ \A k \in DOMAIN p.code[b] : p.code[b][k].reads \in Seq(Values)
      /\ DOMAIN p.actuals[b] = DOMAIN p.next[b]
      /\ \A i \in DOMAIN p.next[b] : p.actuals[b][i] \in Seq(Values)
  BY OriginalTyped
<1>3. Len(p.code[b]) \in Nat /\ DOMAIN p.code[b] = 1..Len(p.code[b])
  BY <1>2
<1>4. \A k \in DOMAIN p.code[b] : \A j \in DOMAIN p.code[b][k].reads : p.code[b][k].reads[j] \in Values
  BY <1>2
<1>5. \A j \in DOMAIN p.tests[b] : p.tests[b][j] \in Values
  BY <1>2
<1>6. \A i \in DOMAIN p.actuals[b] : \A k \in DOMAIN p.actuals[b][i] : p.actuals[b][i][k] \in Values
  BY <1>2
<1>. QED  BY <1>1, <1>3, <1>4, <1>5, <1>6

(* The uses that are left are uses of the original, renamed.               *)
LEMMA UsesLeft ==
  ASSUME Left, NEW use \in Uses(program)
  PROVE  \E u \in Uses(original) :
           use[1] = Ends[u[1]] /\ use[2] = u[2] /\ use[3] = u[3] /\ u[2] \in kept
<1>1. /\ original \in Programs /\ kept \subseteq original.blocks
      /\ RewrittenAs(program) /\ Form(program)
  BY LeftFacts
<1>2. PICK b \in kept :
           \/ \E k \in DOMAIN program.code[b] : \E j \in DOMAIN program.code[b][k].reads :
                use = <<program.code[b][k].reads[j], b, k>>
           \/ \E j \in DOMAIN program.tests[b] :
                use = <<program.tests[b][j], b, Len(program.code[b]) + 1>>
           \/ \E i \in DOMAIN program.actuals[b] : \E k \in DOMAIN program.actuals[b][i] :
                use = <<program.actuals[b][i][k], b, Len(program.code[b]) + 1>>
  BY UseCases DEF Left
<1>3. /\ Shaped(program, b)
      /\ DOMAIN program.code[b] = DOMAIN original.code[b]
      /\ Len(program.code[b]) = Len(original.code[b])
      /\ \A k \in DOMAIN original.code[b] :
           program.code[b][k].reads = Renamed(original.code[b][k].reads)
      /\ program.tests[b] = Renamed(original.tests[b])
  BY <1>1 DEF RewrittenAs, SameInstructions, Form
<1>4. /\ \A k \in DOMAIN original.code[b] : \A j \in DOMAIN original.code[b][k].reads :
              <<original.code[b][k].reads[j], b, k>> \in Uses(original)
      /\ \A j \in DOMAIN original.tests[b] :
           <<original.tests[b][j], b, Len(original.code[b]) + 1>> \in Uses(original)
      /\ \A i \in DOMAIN original.actuals[b] : \A k \in DOMAIN original.actuals[b][i] :
           <<original.actuals[b][i][k], b, Len(original.code[b]) + 1>> \in Uses(original)
  BY <1>1, OperandsAreUses
<1>5. ASSUME NEW v, NEW n, <<v, b, n>> \in Uses(original), use = <<Ends[v], b, n>>
      PROVE  \E u \in Uses(original) :
               use[1] = Ends[u[1]] /\ use[2] = u[2] /\ use[3] = u[3] /\ u[2] \in kept
  <2>. DEFINE u == <<v, b, n>>
  <2>1. u \in Uses(original) /\ u[1] = v /\ u[2] = b /\ u[3] = n
    BY <1>5
  <2>2. use[1] = Ends[v] /\ use[2] = b /\ use[3] = n
    BY <1>5
  <2>. HIDE DEF u
  <2>. QED  BY <2>1, <2>2
<1>6. ASSUME NEW k \in DOMAIN program.code[b], NEW j \in DOMAIN program.code[b][k].reads,
             use = <<program.code[b][k].reads[j], b, k>>
      PROVE  \E v, n : <<v, b, n>> \in Uses(original) /\ use = <<Ends[v], b, n>>
  <2>. DEFINE reads == original.code[b][k].reads
  <2>1. program.code[b][k].reads = Renamed(reads)
    BY <1>3, <1>6
  <2>2. j \in DOMAIN reads /\ program.code[b][k].reads[j] = Ends[reads[j]]
    BY <1>6, <2>1 DEF Renamed
  <2>3. <<reads[j], b, k>> \in Uses(original)
    BY <1>3, <1>4, <1>6, <2>2
  <2>. HIDE DEF reads
  <2>. QED  BY <1>6, <2>2, <2>3
<1>7. ASSUME NEW j \in DOMAIN program.tests[b],
             use = <<program.tests[b][j], b, Len(program.code[b]) + 1>>
      PROVE  \E v, n : <<v, b, n>> \in Uses(original) /\ use = <<Ends[v], b, n>>
  BY <1>3, <1>4, <1>7 DEF Renamed
<1>8. ASSUME NEW i \in DOMAIN program.actuals[b], NEW m \in DOMAIN program.actuals[b][i],
             use = <<program.actuals[b][i][m], b, Len(program.code[b]) + 1>>
      PROVE  \E v, n : <<v, b, n>> \in Uses(original) /\ use = <<Ends[v], b, n>>
  <2>. DEFINE c == original.next[b][i]
              t == program.next[b][i]
  <2>1. PICK f : Leads(f)
    BY DEF Left
  <2>2. i \in DOMAIN program.next[b] /\ DOMAIN program.next[b] = DOMAIN original.next[b]
    BY <1>3 DEF Shaped, Left, Passes, Graph, Terminators
  <2>3. t = f[c]
    BY <2>1, <2>2 DEF Leads
  <2>4. t \in kept
    BY <2>2 DEF Left, Passes, Graph, NothingDangles
  <2>5. /\ SameArguments(program, t) /\ SameActuals(program, b, i) /\ Shaped(program, t)
    BY <1>1, <2>2, <2>4 DEF RewrittenAs, Form
  <2>6. m \in DOMAIN program.arguments[t]
    <3>1. /\ program.actuals[b][i] \in Seq(Values)
          /\ Len(program.actuals[b][i]) = Len(program.arguments[t])
      BY <1>3, <2>2 DEF Shaped
    <3>2. program.arguments[t] \in Seq(Values)
      BY <2>5 DEF Shaped
    <3>. HIDE DEF t
    <3>. QED  BY <3>1, <3>2
  <2>7. PICK k \in DOMAIN original.arguments[t] :
          program.arguments[t][m] = original.arguments[t][k]
    BY <2>5, <2>6 DEF SameArguments
  <2>8. program.arguments[t][m] \notin DOMAIN substitution
    BY <2>5, <2>6 DEF Shaped
  <2>9. c \in kept
    <3>1. c \notin kept => Bare(t)
      BY <2>2 DEF Left, Passes, TurnedAway
    <3>. QED  BY <2>7, <2>8, <3>1 DEF Bare
  <2>10. t = c
    BY <2>1, <2>3, <2>9 DEF Leads
  <2>. HIDE DEF c, t
  <2>11. program.actuals[b][i][m] = Ends[original.actuals[b][i][k]]
    BY <2>5, <2>6, <2>7, <2>9, <2>10 DEF SameActuals, c
  <2>12. i \in DOMAIN original.actuals[b] /\ k \in DOMAIN original.actuals[b][i]
    BY <1>1, <2>2, <2>7, <2>10, OriginalTyped DEF c
  <2>. QED  BY <1>3, <1>4, <1>8, <2>11, <2>12
<1>. QED  BY <1>2, <1>5, <1>6, <1>7, <1>8

(* What an operand is replaced by is defined before it is used.            *)
LEMMA ReplacedAbove ==
  ASSUME Left, NEW use \in Uses(original)
  PROVE  \E g \in Definitions(original) :
           /\ g[1] = Ends[use[1]]
           /\ Dominates(original, g[2], use[2])
           /\ g[2] = use[2] => g[3] < use[3]
<1>. DEFINE v == use[1]
            b == use[2]
<1>1. /\ original \in Programs /\ IsFiniteSet(original.blocks)
      /\ Agreeing(original, substitution, Ends) /\ Above(original, substitution, Ends)
  BY LeftFacts, VerifiedFacts
<1>2. PICK rank : Ranked(substitution, Ends, rank)
  BY LeftFacts
<1>3. v \in Values /\ b \in original.blocks /\ use[3] \in Nat \ {0}
  BY <1>1, UsesTyped
<1>4. /\ \E d \in Definitions(original) : d[1] = v
      /\ \A d \in Definitions(original) : d[1] = v => Dominates(original, d[2], b)
      /\ \A d \in Definitions(original) : d[1] = v /\ d[2] = b => d[3] < use[3]
  BY <1>1, UsedBelow
<1>5. CASE v \notin DOMAIN substitution
  <2>1. Ends[v] = v
    BY <1>2, <1>3, <1>5 DEF Ranked
  <2>. QED  BY <1>4, <2>1
<1>6. CASE v \in DOMAIN substitution
  <2>1. PICK g \in Definitions(original) : g[1] = Ends[v]
    BY <1>6, DefinedFacts DEF Left, Grounded
  <2>2. PICK d \in Definitions(original) : d[1] = v
    BY <1>4
  <2>3. Dominates(original, g[2], d[2])
    BY <1>1, <1>6, <2>1, <2>2 DEF Above
  <2>4. Dominates(original, g[2], b)
    BY <1>1, <1>4, <2>2, <2>3, DominanceTransitive
  <2>5. ASSUME g[2] = b
        PROVE  g[3] < use[3]
    <3>1. PICK c \in original.blocks :
             \/ \E k \in DOMAIN original.arguments[c] : g = <<original.arguments[c][k], c, 0>>
             \/ \E k \in DOMAIN original.code[c] : \E w \in original.code[c][k].defines : g = <<w, c, k>>
      BY DefinitionCases
    <3>2. CASE \E k \in DOMAIN original.arguments[c] : g = <<original.arguments[c][k], c, 0>>
      BY <1>3, <3>2
    <3>3. CASE \E k \in DOMAIN original.code[c] : \E w \in original.code[c][k].defines : g = <<w, c, k>>
      <4>1. c = b /\ \E k \in DOMAIN original.code[b] : original.code[b][k].defines # {}
        BY <2>5, <3>3
      <4>2. b \in ReachedWithout(original, NoBlock)
        BY <1>1, <1>3, <4>1, VerifiedFacts DEF Built
      <4>3. Reachable(original, b)
        BY <1>1, <4>2, ReachedReachable
      <4>4. Sees(original, v, b)
        BY <1>4, <2>2 DEF Sees
      <4>. QED  BY <1>1, <1>2, <1>6, <2>1, <2>5, <4>3, <4>4, DefinedElsewhere
    <3>. QED  BY <3>1, <3>2, <3>3
  <2>. QED  BY <2>1, <2>4, <2>5
<1>. QED  BY <1>5, <1>6

LEMMA UsesStayDefined ==
  ASSUME Left, NEW use \in Uses(program)
  PROVE  DefinedBeforeUse(program, use)
<1>1. PICK u \in Uses(original) :
        use[1] = Ends[u[1]] /\ use[2] = u[2] /\ use[3] = u[3] /\ u[2] \in kept
  BY UsesLeft
<1>2. PICK g \in Definitions(original) :
        /\ g[1] = Ends[u[1]]
        /\ Dominates(original, g[2], u[2])
        /\ g[2] = u[2] => g[3] < u[3]
  BY ReplacedAbove
<1>3. /\ original \in Programs /\ IsFiniteSet(kept)
      /\ \E rank : Ranked(substitution, Ends, rank)
  BY LeftFacts
<1>4. u[1] \in Values
  BY <1>3, UsesTyped
<1>5. g[1] \notin DOMAIN substitution
  BY <1>2, <1>3, <1>4 DEF Ranked
<1>6. g \in Definitions(program)
  BY <1>5, DefinitionsLeft
<1>7. g[2] \in kept
  <2>1. PICK c \in kept :
           \/ \E k \in DOMAIN program.arguments[c] : g = <<program.arguments[c][k], c, 0>>
           \/ \E k \in DOMAIN program.code[c] : \E w \in program.code[c][k].defines : g = <<w, c, k>>
    BY <1>6, DefinitionCases DEF Left
  <2>. QED  BY <2>1
<1>8. Dominates(program, g[2], use[2])
  BY <1>1, <1>2, <1>3, <1>7, DominanceKept DEF Left
<1>. QED  BY <1>1, <1>2, <1>6, <1>8 DEF DefinedBeforeUse

LEMMA EdgesStillFit == Left => EdgesFit(program)
<1>. SUFFICES ASSUME Left PROVE EdgesFit(program)
  OBVIOUS
<1>1. original \in Programs /\ kept \subseteq original.blocks /\ RewrittenAs(program) /\ Form(program)
  BY LeftFacts
<1>2. program.blocks = kept
  BY DEF Left
<1>3. ASSUME NEW b \in kept
      PROVE  /\ TerminatorFits(program, b)
             /\ DOMAIN program.actuals[b] = DOMAIN program.next[b]
             /\ \A i \in DOMAIN program.next[b] :
                  /\ program.next[b][i] \in kept
                  /\ Len(program.actuals[b][i]) = Len(program.arguments[program.next[b][i]])
             /\ program.handler[b] \in kept \cup {NoBlock}
  <2>1. /\ program.kind[b] = original.kind[b] /\ DOMAIN program.next[b] = DOMAIN original.next[b]
        /\ program.handler[b] \in kept \cup {NoBlock}
        /\ \A i \in DOMAIN program.next[b] : program.next[b][i] \in kept
    BY DEF Left, Passes, Graph, Terminators, NothingDangles
  <2>2. Shaped(program, b) /\ program.tests[b] = Renamed(original.tests[b])
    BY <1>1 DEF Form, RewrittenAs, SameInstructions
  <2>3. program.next[b] \in Seq(original.blocks) /\ original.next[b] \in Seq(original.blocks)
    BY <1>1, <2>2, SuccessorsTyped DEF Shaped
  <2>4. Len(program.next[b]) = Len(original.next[b])
    BY <2>1, <2>3
  <2>5. Len(program.tests[b]) = Len(original.tests[b]) /\ Len(original.tests[b]) \in Nat
        /\ (program.tests[b] = <<>> <=> original.tests[b] = <<>>)
    <3>1. original.tests[b] \in Seq(Values)
      BY <1>1, OriginalTyped
    <3>2. Ends \in [Values -> Values]
      BY LeftFacts DEF Ranked
    <3>3. program.tests[b] \in Seq(Values) /\ DOMAIN program.tests[b] = DOMAIN original.tests[b]
      BY <2>2, <3>1, <3>2 DEF Renamed
    <3>. QED  BY <3>1, <3>3
  <2>6. program.next[b] = <<>> <=> original.next[b] = <<>>
    BY <2>3, <2>4
  <2>7. TerminatorFits(original, b)
    BY <1>1, VerifiedFacts DEF EdgesFit
  <2>8. TerminatorFits(program, b)
    BY <2>1, <2>4, <2>5, <2>6, <2>7 DEF TerminatorFits
  <2>. QED  BY <2>1, <2>2, <2>8 DEF Shaped
<1>. QED  BY <1>2, <1>3 DEF EdgesFit

LEMMA RecordsStayDefined ==
  ASSUME Left
  PROVE  program.expressionValues \cup Elements(program.provenance) \subseteq Defined(program)
<1>1. /\ original \in Programs /\ Form(program)
      /\ \E rank : Ranked(substitution, Ends, rank)
  BY LeftFacts
<1>2. original.expressionValues \cup Elements(original.provenance) \subseteq Defined(original)
  BY <1>1, ProgramsAssumption DEF Verified
<1>3. ASSUME NEW v \in Defined(original), v \notin DOMAIN substitution
      PROVE  v \in Defined(program)
  BY <1>3, DefinitionsLeft, DefinedFacts
<1>4. ASSUME NEW v \in program.expressionValues
      PROVE  v \in Defined(program)
  <2>1. v \in original.expressionValues
    BY <1>1, <1>4 DEF Form, Recorded
  <2>2. v \notin original.stored
    BY <1>1, <2>1, VerifiedFacts DEF Built
  <2>3. v \notin DOMAIN substitution
    BY <2>2 DEF Left, Grounded
  <2>. QED  BY <1>2, <1>3, <2>1, <2>3
<1>5. ASSUME NEW w \in Elements(program.provenance)
      PROVE  w \in Defined(program)
  <2>1. PICK v \in Elements(original.provenance) : w = Ends[v]
    BY <1>1, <1>5 DEF Form, Recorded
  <2>2. v \in Defined(original) /\ v \in Values
    BY <1>1, <1>2, <2>1, DefinedValues
  <2>3. CASE v \in DOMAIN substitution
    <3>1. w \in Defined(original) /\ w \notin DOMAIN substitution
      BY <1>1, <2>1, <2>3 DEF Left, Grounded, Ranked
    <3>. QED  BY <1>3, <3>1
  <2>4. CASE v \notin DOMAIN substitution
    <3>1. w = v
      BY <1>1, <2>1, <2>2, <2>4 DEF Ranked
    <3>. QED  BY <1>3, <2>2, <2>4, <3>1
  <2>. QED  BY <2>3, <2>4
<1>. QED  BY <1>4, <1>5

LEMMA LeftIsVerified == Left => Verified(program)
<1>. SUFFICES ASSUME Left PROVE Verified(program)
  OBVIOUS
<1>1. original \in Programs /\ Form(program) /\ program.blocks = kept
  BY LeftFacts DEF Left
<1>2. program.entry \in program.blocks /\ program.retained \subseteq program.blocks
  BY DEF Left, Passes, Graph, NothingDangles
<1>3. DefinedOnce(program)
  <2>1. \A d, e \in Definitions(program) : d[1] = e[1] => d = e
    BY <1>1, DefinitionsLeft, VerifiedFacts DEF DefinedOnce
  <2>2. \A b \in program.blocks : \A j, k \in DOMAIN program.arguments[b] :
          program.arguments[b][j] = program.arguments[b][k] => j = k
    BY <1>1 DEF Form, Shaped
  <2>. QED  BY <2>1, <2>2 DEF DefinedOnce
<1>. QED  BY <1>2, <1>3, EdgesStillFit, UsesStayDefined, RecordsStayDefined DEF Verified

Rebuilt == Grounded /\ NoWayAround /\ Formed

LEMMA RebuiltInitially == Init => Rebuilt
<1>. SUFFICES ASSUME Init PROVE Rebuilt
  OBVIOUS
<1>1. /\ original \in Programs /\ program = original /\ kept = original.blocks
      /\ pass = "mir-copy-propagation" /\ substitution = <<>>
  BY DEF Init, CopyInit
<1>2. Grounded
  BY <1>1 DEF Grounded
<1>. QED  BY <1>1, <1>2, NoWayAroundInitially DEF Rebuilt, Formed

LEMMA RebuiltKept ==
  ASSUME Passes, Paths, Rebuilt, [Next]_vars
  PROVE  Rebuilt'
<1>1. CASE Optimize
  <2>1. original' = original /\ original \in Programs
    BY <1>1 DEF Optimize, Passes, Graph, Frame
  <2>2. NoWayAround'
    BY <1>1, NoWayAroundThroughOptimize DEF Passes, Rebuilt
  <2>3. CASE CopyNext /\ UNCHANGED kept
    BY <2>1, <2>2, <2>3, GroundedKept, FormThroughCopy DEF Passes, Rebuilt
  <2>4. CASE CleanupNext /\ UNCHANGED copyVars
    <3>1. substitution' = substitution
      BY <2>4 DEF copyVars
    <3>2. Grounded'
      <4>1. Ends' = Ends
        BY <3>1 DEF Ends
      <4>. QED  BY <2>1, <3>1, <4>1 DEF Rebuilt, Grounded
    <3>3. Formed'
      BY <2>1, <2>4, <3>1, FormThroughRemoval, FormThroughCompaction
         DEF CleanupNext, Passes, Rebuilt
    <3>. QED  BY <2>2, <3>2, <3>3 DEF Rebuilt
  <2>. QED  BY <1>1, <2>3, <2>4 DEF Optimize
<1>2. CASE (at # NoBlock /\ Execute) \/ UNCHANGED vars
  <2>1. UNCHANGED <<program, pass, kept, original, substitution>>
    BY <1>2 DEF Execute, vars, copyVars
  <2>2. Grounded'
    <3>1. Ends' = Ends
      BY <2>1 DEF Ends
    <3>. QED  BY <2>1, <3>1 DEF Rebuilt, Grounded
  <2>3. NoWayAround'
    BY <2>1, NoWayAroundStill DEF Rebuilt
  <2>4. Formed'
    BY <2>1, FormStill DEF Rebuilt
  <2>. QED  BY <2>2, <2>3, <2>4 DEF Rebuilt
<1>. QED  BY <1>1, <1>2 DEF Next

(* After copy propagation and after the cleanup the function is one the    *)
(* verifier accepts: edges pass as many values as their target takes, no   *)
(* value is defined twice, every value used, recorded or traced is defined *)
(* by what is left, and on every path to its use.                          *)
THEOREM VerifiedAgain == Spec => []StaysVerified
<1>1. Init => Graph /\ Paths /\ Passes /\ Runs /\ NotYetRunning /\ Rebuilt
  BY GraphInitially, PathsInitially, PassesInitially, RunsInitially, RebuiltInitially
<1>2. (Graph /\ Paths /\ Passes /\ Runs /\ NotYetRunning /\ Rebuilt) /\ [Next]_vars
        => (Graph /\ Paths /\ Passes /\ Runs /\ NotYetRunning /\ Rebuilt)'
  BY GraphKept, PathsKept, RunsKept, RebuiltKept
<1>3. Paths /\ Passes /\ Rebuilt => StaysVerified
  <2>. SUFFICES ASSUME Paths, Passes, Rebuilt,
                       pass = "done" \/ (pass = "mir-cfg-cleanup" /\ kept = program.blocks)
                PROVE  Verified(program)
    BY DEF StaysVerified
  <2>1. program.blocks = kept /\ pass # "mir-copy-propagation"
    BY DEF Rebuilt, Formed
  <2>2. Left
    BY <2>1 DEF Left, Rebuilt, Paths
  <2>. QED  BY <2>2, LeftIsVerified
<1>. QED  BY <1>1, <1>2, <1>3, PTL DEF Spec

(***************************************************************************)
(* The worklist leaves no candidate behind.                                *)
(***************************************************************************)

(* The candidate x is passed one other value, when r says what each value  *)
(* stands for.                                                             *)
Uniform(x, r) ==
  /\ x.compatible /\ x.inputs # <<>>
  /\ r[x.inputs[1]] # x.value
  /\ \A k \in DOMAIN x.inputs : r[x.inputs[k]] = r[x.inputs[1]]

(* u lists each candidate under what each value passed to it stands for.   *)
Listed(u, r, gone) ==
  \A c \in DOMAIN candidates \ gone : \A k \in DOMAIN candidates[c].inputs :
    c \in Range(u[r[candidates[c].inputs[k]]])

(* A candidate queued is still ahead; one that is neither queued nor       *)
(* removed need not be looked at again before one of its inputs changes.   *)
Awake ==
  /\ \A c \in queued : \E n \in DOMAIN worklist : n >= cursor /\ worklist[n] = c
  /\ \A c \in DOMAIN candidates \ (removed \cup queued) : ~ Uniform(candidates[c], Ends)
  /\ Listed(users, Ends, removed)
  /\ \A c \in removed : candidates[c].value \in DOMAIN substitution

LEMMA RangeJoined ==
  ASSUME NEW X, NEW s \in Seq(X), NEW t \in Seq(X)
  PROVE  /\ \A x \in Range(s) : x \in Range(s \o t)
         /\ \A x \in Range(t) : x \in Range(s \o t)
<1>1. /\ Len(s) \in Nat /\ Len(t) \in Nat /\ DOMAIN s = 1..Len(s) /\ DOMAIN t = 1..Len(t)
      /\ DOMAIN (s \o t) = 1..(Len(s) + Len(t))
      /\ \A n \in 1..(Len(s) + Len(t)) :
           (s \o t)[n] = IF n <= Len(s) THEN s[n] ELSE t[n - Len(s)]
  OBVIOUS
<1>2. \A n \in DOMAIN s : n \in DOMAIN (s \o t) /\ (s \o t)[n] = s[n]
  BY <1>1
<1>3. \A n \in DOMAIN t : n + Len(s) \in DOMAIN (s \o t) /\ (s \o t)[n + Len(s)] = t[n]
  BY <1>1
<1>. QED  BY <1>2, <1>3 DEF Range

LEMMA AtPicks ==
  ASSUME NEW X, NEW seq \in Seq(X), NEW S, NEW k \in DOMAIN seq, k \in S
  PROVE  seq[k] \in Range(At(seq, S))
<1>. DEFINE order == InOrder(Len(seq), S)
            picked == At(seq, S)
<1>1. /\ DOMAIN picked = DOMAIN order
      /\ \A n \in DOMAIN order : picked[n] = seq[order[n]]
      /\ \E n \in DOMAIN order : order[n] = k
  BY AtFacts
<1>. HIDE DEF order, picked
<1>2. \E n \in DOMAIN picked : picked[n] = seq[k]
  BY <1>1
<1>3. seq[k] \in Range(picked)
  BY <1>2 DEF Range
<1>. QED  BY <1>3 DEF picked

LEMMA CandidateTyped ==
  ASSUME original \in Programs, Worklists, NEW c \in DOMAIN candidates
  PROVE  /\ candidates[c].inputs \in Seq(Values) /\ candidates[c].value \in Values
         /\ \A k \in DOMAIN candidates[c].inputs : candidates[c].inputs[k] \in Values
         /\ candidates[c].inputs # <<>> => 1 \in DOMAIN candidates[c].inputs
<1>1. PICK b \in original.blocks : \E k \in DOMAIN original.arguments[b] :
        Describes(original, candidates[c], b, k)
  BY InventoryFacts DEF Worklists
<1>2. candidates[c].inputs \in Seq(Values) /\ candidates[c].value \in Values
  BY <1>1, ArgumentFacts DEF Describes
<1>. QED  BY <1>2

LEMMA UsersListed ==
  ASSUME NEW list, NEW N \in Nat, DOMAIN list = 1..N, NEW X,
         \A c \in DOMAIN list : list[c].inputs \in Seq(X),
         NEW c \in DOMAIN list, NEW k \in DOMAIN list[c].inputs
  PROVE  c \in Range(UsersOf(list, list[c].inputs[k]))
<1>. DEFINE v == list[c].inputs[k]
            named(d) == [n \in DOMAIN list[d].inputs |-> d]
            S(d) == {n \in DOMAIN list[d].inputs : list[d].inputs[n] = v}
            seqs == [d \in DOMAIN list |-> At(named(d), S(d))]
            D == DOMAIN list
<1>1. UsersOf(list, v) = FlattenSeq(seqs)
  BY DEF UsersOf
<1>2. ASSUME NEW d \in D
      PROVE  named(d) \in Seq(D)
  <2>1. DOMAIN list[d].inputs = 1..Len(list[d].inputs) /\ Len(list[d].inputs) \in Nat
    BY <1>2
  <2>. HIDE DEF D
  <2>. QED  BY <2>1
<1>3. D = 1..N /\ c \in D
  OBVIOUS
<1>4. k \in DOMAIN named(c) /\ k \in S(c) /\ \A n \in DOMAIN named(c) : named(c)[n] = c
  OBVIOUS
<1>. HIDE DEF D, named, S
<1>5. seqs \in Seq(Seq(D)) /\ c \in DOMAIN seqs /\ seqs[c] = At(named(c), S(c))
  <2>1. \A d \in D : At(named(d), S(d)) \in Seq(D)
    BY <1>2, AtFacts
  <2>. QED  BY <1>3, <2>1 DEF D
<1>6. \E n \in DOMAIN seqs[c] : seqs[c][n] = c
  <2>1. named(c) \in Seq(D)
    BY <1>2, <1>3
  <2>2. named(c)[k] \in Range(At(named(c), S(c)))
    BY <1>4, <2>1, AtPicks
  <2>3. c \in Range(seqs[c])
    BY <1>4, <1>5, <2>2
  <2>. HIDE DEF seqs
  <2>. QED  BY <2>3 DEF Range
<1>. HIDE DEF seqs, v
<1>7. \E n \in DOMAIN FlattenSeq(seqs) : FlattenSeq(seqs)[n] = c
  BY <1>5, <1>6, FlattenFacts
<1>. QED  BY <1>1, <1>7 DEF Range, v

(* The worklist starts with every candidate.                               *)
LEMMA AwakeInitially ==
  ASSUME original \in Programs, program = original, CopyInit
  PROVE  Awake
<1>1. Worklists /\ Copied
  BY WorklistsInitially, CopiedInitially DEF CopyInit
<1>2. /\ candidates = Candidates(original) /\ removed = {} /\ queued = DOMAIN candidates
      /\ worklist = [c \in DOMAIN candidates |-> c] /\ cursor = 1
      /\ users = [v \in Values |-> UsersOf(candidates, v)]
  BY DEF CopyInit
<1>3. \A v \in Values : Ends[v] = v
  <2>1. PICK rank : Ranked(substitution, Ends, rank)
    BY <1>1 DEF Copied
  <2>2. DOMAIN substitution = {}
    BY DEF CopyInit
  <2>. QED  BY <2>1, <2>2 DEF Ranked
<1>4. DOMAIN candidates = 1..Len(candidates) /\ Len(candidates) \in Nat
  BY <1>2, InventoryFacts
<1>5. \A c \in DOMAIN candidates : candidates[c].inputs \in Seq(Values)
  BY <1>1, CandidateTyped
<1>6. ASSUME NEW c \in DOMAIN candidates, NEW k \in DOMAIN candidates[c].inputs
      PROVE  c \in Range(users[Ends[candidates[c].inputs[k]]])
  <2>1. candidates[c].inputs[k] \in Values
    BY <1>5
  <2>2. c \in Range(UsersOf(candidates, candidates[c].inputs[k]))
    BY <1>4, <1>5, UsersListed
  <2>3. users[candidates[c].inputs[k]] = UsersOf(candidates, candidates[c].inputs[k])
    BY <1>2, <2>1
  <2>. QED  BY <1>3, <2>1, <2>2, <2>3
<1>7. \A c \in queued : \E n \in DOMAIN worklist : n >= cursor /\ worklist[n] = c
  BY <1>2, <1>4
<1>. QED  BY <1>2, <1>6, <1>7 DEF Awake, Listed

(* The users of a value that is replaced are woken or are queued already.  *)
LEMMA UsersAreWoken ==
  ASSUME Worklists, NEW c \in DOMAIN candidates, candidates[c].value \in Values
  PROVE  /\ \A d \in Range(users[candidates[c].value]) :
              d \notin removed \cup {c} => d \in Range(Dependents(c))
         /\ \A d \in Range(Dependents(c)) : d \in queued \ {c} \/ d \in Range(Woken(c))
<1>. DEFINE D == DOMAIN candidates
            all == users[candidates[c].value]
            S == {n \in DOMAIN all : all[n] \notin removed \cup {c}}
            dependents == Dependents(c)
            T == {n \in DOMAIN dependents :
                        /\ dependents[n] \notin queued \ {c}
                        /\ \A m \in 1..(n - 1) : dependents[m] # dependents[n]}
<1>1. all \in Seq(D) /\ dependents \in Seq(D)
  BY WokenTyped DEF Worklists
<1>2. dependents = At(all, S) /\ Woken(c) = At(dependents, T)
  BY DEF Dependents, Woken
<1>. HIDE DEF D, dependents
<1>3. ASSUME NEW d \in Range(all), d \notin removed \cup {c}
      PROVE  d \in Range(dependents)
  <2>1. PICK n \in DOMAIN all : all[n] = d
    BY <1>3 DEF Range
  <2>2. n \in S
    BY <1>3, <2>1
  <2>. HIDE DEF all, S
  <2>3. all[n] \in Range(At(all, S))
    BY <1>1, <2>2, AtPicks
  <2>. QED  BY <1>2, <2>1, <2>3
<1>4. ASSUME NEW d \in Range(dependents), d \notin queued \ {c}
      PROVE  d \in Range(Woken(c))
  <2>. DEFINE here == {n \in DOMAIN dependents : dependents[n] = d}
  <2>1. DOMAIN dependents = 1..Len(dependents) /\ Len(dependents) \in Nat
    BY <1>1
  <2>2. here # {} /\ here \subseteq Nat
    BY <1>4, <2>1 DEF Range
  <2>3. PICK n \in here : \A m \in here : n <= m
    <3>. HIDE DEF here
    <3>. QED  BY <2>2, Least
  <2>4. n \in DOMAIN dependents /\ dependents[n] = d /\ n \in Nat
    BY <2>1
  <2>5. ASSUME NEW m \in 1..(n - 1)
        PROVE  dependents[m] # dependents[n]
    BY <2>1, <2>3, <2>4
  <2>6. n \in T
    BY <1>4, <2>4, <2>5
  <2>. HIDE DEF T
  <2>7. dependents[n] \in Range(At(dependents, T))
    BY <1>1, <2>4, <2>6, AtPicks
  <2>. QED  BY <1>2, <2>4, <2>7
<1>. QED  BY <1>3, <1>4 DEF dependents

LEMMA ReplaceableIsUniform ==
  ASSUME original \in Programs, Worklists, NEW c \in DOMAIN candidates, c \notin removed
  PROVE  Replaceable(c) <=> Uniform(candidates[c], Ends)
<1>1. /\ \A k \in DOMAIN candidates[c].inputs : candidates[c].inputs[k] \in Values
      /\ candidates[c].inputs # <<>> => 1 \in DOMAIN candidates[c].inputs
  BY CandidateTyped
<1>2. \A v \in Values : Ends[v] = Resolve(substitution, v)
  BY DEF Ends
<1>3. \A k \in DOMAIN candidates[c].inputs :
        Ends[candidates[c].inputs[k]] = Resolve(substitution, candidates[c].inputs[k])
  BY <1>1, <1>2
<1>4. CASE candidates[c].inputs = <<>>
  BY <1>4 DEF Replaceable, Open, Uniform
<1>5. CASE candidates[c].inputs # <<>>
  BY <1>1, <1>3, <1>5 DEF Replaceable, Open, Uniform, Representative, Agrees
<1>. QED  BY <1>4, <1>5

LEMMA AwakeThroughKeep ==
  ASSUME original \in Programs, Worklists, Copied, Awake, Keep
  PROVE  Awake'
<1>1. /\ queued' = queued \ {Current} /\ cursor' = cursor + 1
      /\ UNCHANGED <<candidates, users, worklist, removed>>
      /\ ~ Replaceable(Current)
  BY DEF Keep
<1>2. Ends' = Ends /\ DOMAIN substitution' = DOMAIN substitution
  BY EndsKept DEF Keep
<1>3. Current \in DOMAIN candidates /\ Current = worklist[cursor]
  BY CurrentIsCandidate DEF Keep, Current
<1>4. worklist \in Seq(DOMAIN candidates) /\ cursor \in Nat
  BY DEF Worklists
<1>5. ASSUME NEW c \in queued'
      PROVE  \E n \in DOMAIN worklist' : n >= cursor' /\ worklist'[n] = c
  <2>1. PICK n \in DOMAIN worklist : n >= cursor /\ worklist[n] = c
    BY <1>1, <1>5 DEF Awake
  <2>2. n # cursor
    BY <1>1, <1>3, <1>5, <2>1
  <2>3. n \in Nat
    BY <1>4
  <2>4. n >= cursor + 1
    BY <1>4, <2>1, <2>2, <2>3
  <2>. QED  BY <1>1, <2>1, <2>4
<1>6. ASSUME NEW c \in DOMAIN candidates \ (removed \cup queued')
      PROVE  ~ Uniform(candidates[c], Ends)
  <2>1. CASE c \in queued
    <3>1. c = Current /\ c \notin removed
      BY <1>1, <1>6, <2>1
    <3>. QED  BY <1>1, <1>3, <3>1, ReplaceableIsUniform
  <2>2. CASE c \notin queued
    BY <1>6, <2>2 DEF Awake
  <2>. QED  BY <2>1, <2>2
<1>7. Listed(users, Ends, removed)'
  <2>1. Listed(users, Ends, removed)
    BY DEF Awake
  <2>. QED  BY <1>1, <1>2, <2>1 DEF Listed
<1>8. \A c \in removed' : candidates'[c].value \in DOMAIN substitution'
  BY <1>1, <1>2 DEF Awake
<1>. QED  BY <1>1, <1>2, <1>5, <1>6, <1>7, <1>8 DEF Awake, Uniform

(* What a replacement changes for the inputs of another candidate d.       *)
LEMMA ListedThroughReplace ==
  ASSUME original \in Programs, Worklists, Copied, Awake, Replace,
         NEW d \in DOMAIN candidates \ (removed \cup {Current}), NEW w \in Values,
         d \in Range(users[Ends[w]])
  PROVE  /\ d \in Range(users'[Ends'[w]])
         /\ Ends'[w] # Ends[w] => d \in Range(Dependents(Current))
<1>. DEFINE c == Current
            v == candidates[c].value
            common == Representative(c)
            D == DOMAIN candidates
<1>1. c \in D /\ cursor <= Len(worklist)
  BY CurrentIsCandidate DEF Replace
<1>2. /\ v \in Values /\ common \in Values /\ common # v
      /\ \/ v \in DOMAIN substitution /\ Ends' = Ends
         \/ v \notin DOMAIN substitution /\ Ends' = Merged(Ends, v, common)
  BY EndsReplaced
<1>3. users' = [users EXCEPT ![v] = <<>>, ![common] = @ \o Dependents(c)]
  BY DEF Replace
<1>4. users \in [Values -> Seq(D)]
  BY DEF Worklists
<1>5. Dependents(c) \in Seq(D)
  BY <1>1, <1>2, WokenTyped
<1>6. d \in Range(users[v]) => d \in Range(Dependents(c))
  <2>1. \A x \in Range(users[v]) : x \notin removed \cup {c} => x \in Range(Dependents(c))
    BY <1>1, <1>2, UsersAreWoken
  <2>. QED  BY <2>1
<1>7. Ends[w] \in Values /\ Ends[w] \notin DOMAIN substitution
  BY DEF Copied, Ranked
<1>. HIDE DEF c, v, common, D
<1>8. /\ users'[common] = users[common] \o Dependents(c)
      /\ \A x \in Values \ {v, common} : users'[x] = users[x]
  BY <1>2, <1>3, <1>4
<1>9. /\ \A x \in Range(users[common]) : x \in Range(users'[common])
      /\ \A x \in Range(Dependents(c)) : x \in Range(users'[common])
  <2>1. users[common] \in Seq(D)
    BY <1>2, <1>4
  <2>. QED  BY <1>5, <1>8, <2>1, RangeJoined
<1>10. CASE Ends[w] # v
  <2>1. Ends'[w] = Ends[w]
    BY <1>2, <1>10 DEF Merged
  <2>2. CASE Ends[w] = common
    BY <1>9, <2>1, <2>2
  <2>3. CASE Ends[w] # common
    BY <1>7, <1>8, <1>10, <2>1, <2>3
  <2>. QED  BY <2>1, <2>2, <2>3
<1>11. CASE Ends[w] = v
  <2>1. Ends'[w] = common
    BY <1>2, <1>7, <1>11 DEF Merged
  <2>2. d \in Range(Dependents(c))
    BY <1>6, <1>11
  <2>. QED  BY <1>9, <2>1, <2>2 DEF c
<1>. QED  BY <1>10, <1>11

LEMMA AwakeThroughReplace ==
  ASSUME original \in Programs, Worklists, Copied, Awake, Replace
  PROVE  Awake'
<1>. DEFINE c == Current
            D == DOMAIN candidates
<1>1. /\ removed' = removed \cup {c} /\ candidates' = candidates
      /\ worklist' = worklist \o Woken(c)
      /\ queued' = (queued \ {c}) \cup Range(Woken(c))
      /\ cursor' = cursor + 1 /\ cursor <= Len(worklist)
  BY DEF Replace
<1>2. c \in D /\ c = worklist[cursor] /\ candidates[c].value \in Values
  BY <1>1, CurrentIsCandidate DEF Current
<1>3. worklist \in Seq(D) /\ cursor \in Nat /\ Woken(c) \in Seq(D)
  BY <1>2, WokenTyped DEF Worklists
<1>4. DOMAIN substitution' = DOMAIN substitution \cup {candidates[c].value}
  BY EndsReplaced
<1>5. \A d \in Range(Dependents(c)) : d \in queued'
  <2>1. \A d \in Range(Dependents(c)) : d \in queued \ {c} \/ d \in Range(Woken(c))
    BY <1>2, UsersAreWoken
  <2>. QED  BY <1>1, <2>1
<1>6. ASSUME NEW d \in D \ (removed \cup {c}), NEW k \in DOMAIN candidates[d].inputs
      PROVE  /\ d \in Range(users'[Ends'[candidates[d].inputs[k]]])
             /\ Ends'[candidates[d].inputs[k]] # Ends[candidates[d].inputs[k]] => d \in queued'
  <2>. DEFINE w == candidates[d].inputs[k]
  <2>1. w \in Values
    BY CandidateTyped
  <2>2. d \in Range(users[Ends[w]])
    BY DEF Awake, Listed
  <2>. HIDE DEF w
  <2>3. /\ d \in Range(users'[Ends'[w]])
        /\ Ends'[w] # Ends[w] => d \in Range(Dependents(c))
    BY <2>1, <2>2, ListedThroughReplace
  <2>. QED  BY <1>5, <2>3 DEF w
<1>. HIDE DEF c, D
<1>7. ASSUME NEW d \in queued'
      PROVE  \E n \in DOMAIN worklist' : n >= cursor' /\ worklist'[n] = d
  <2>1. /\ Len(worklist) \in Nat /\ DOMAIN worklist = 1..Len(worklist)
        /\ Len(Woken(c)) \in Nat /\ DOMAIN Woken(c) = 1..Len(Woken(c))
        /\ DOMAIN worklist' = 1..(Len(worklist) + Len(Woken(c)))
        /\ \A n \in 1..(Len(worklist) + Len(Woken(c))) :
             worklist'[n] = IF n <= Len(worklist) THEN worklist[n] ELSE Woken(c)[n - Len(worklist)]
    BY <1>1, <1>3
  <2>2. CASE d \in queued \ {c}
    <3>1. PICK n \in DOMAIN worklist : n >= cursor /\ worklist[n] = d
      BY <2>2 DEF Awake
    <3>2. n # cursor
      BY <1>2, <2>2, <3>1
    <3>3. n \in DOMAIN worklist' /\ worklist'[n] = d /\ n >= cursor + 1
      BY <1>3, <2>1, <3>1, <3>2
    <3>. QED  BY <1>1, <3>3
  <2>3. CASE d \in Range(Woken(c))
    <3>1. PICK n \in DOMAIN Woken(c) : Woken(c)[n] = d
      BY <2>3 DEF Range
    <3>2. /\ n + Len(worklist) \in DOMAIN worklist' /\ worklist'[n + Len(worklist)] = d
          /\ n + Len(worklist) >= cursor + 1
      BY <1>1, <1>3, <2>1, <3>1
    <3>. QED  BY <1>1, <3>2
  <2>. QED  BY <1>1, <2>2, <2>3
<1>8. ASSUME NEW d \in D \ (removed' \cup queued'), Uniform(candidates[d], Ends')
      PROVE  FALSE
  <2>1. d \notin removed \cup {c} /\ d \notin queued
    BY <1>1, <1>8
  <2>2. \A k \in DOMAIN candidates[d].inputs :
          Ends'[candidates[d].inputs[k]] = Ends[candidates[d].inputs[k]]
    BY <1>6, <1>8, <2>1
  <2>3. candidates[d].inputs # <<>> => 1 \in DOMAIN candidates[d].inputs
    BY CandidateTyped DEF D
  <2>4. Uniform(candidates[d], Ends)
    BY <1>8, <2>2, <2>3 DEF Uniform
  <2>. QED  BY <2>1, <2>4 DEF Awake, D
<1>9. Listed(users, Ends, removed)'
  BY <1>1, <1>6 DEF Listed, D
<1>10. \A d \in removed' : candidates'[d].value \in DOMAIN substitution'
  BY <1>1, <1>4 DEF Awake
<1>11. \A d \in DOMAIN candidates' \ (removed' \cup queued') : ~ Uniform(candidates'[d], Ends')
  BY <1>1, <1>8 DEF D
<1>. QED  BY <1>7, <1>9, <1>10, <1>11 DEF Awake, Uniform

(***************************************************************************)
(* The pass leaves nothing to propagate.                                   *)
(***************************************************************************)

LEMMA PositionsCover ==
  ASSUME NEW p \in Programs, NEW b \in p.blocks, NEW k \in DOMAIN p.arguments[b],
         p.arguments[b][k] \in p.stored
  PROVE  \E c \in DOMAIN Positions(p) : Positions(p)[c] = <<b, k>>
<1>. DEFINE X == p.blocks \X Nat
            N == Cardinality(p.blocks)
            stored(a) == {n \in DOMAIN Slots(p, a) : p.arguments[a][Slots(p, a)[n][2]] \in p.stored}
            seqs == [a \in 1..N |-> At(Slots(p, a), stored(a))]
<1>1. IsProgram(p) /\ p.blocks = 1..N /\ N \in Nat
  BY VerifiedFacts, FS_CardinalityType DEF IsProgram
<1>2. Positions(p) = FlattenSeq(seqs)
  BY DEF Positions
<1>. HIDE DEF N
<1>3. ASSUME NEW a \in p.blocks
      PROVE  /\ Slots(p, a) \in Seq(X)
             /\ \A j \in DOMAIN p.arguments[a] :
                  \E n \in DOMAIN Slots(p, a) : Slots(p, a)[n] = <<a, j>>
  <2>. DEFINE slots == [j \in DOMAIN p.arguments[a] |-> <<a, j>>]
              L == Len(p.arguments[a])
  <2>1. DOMAIN p.arguments[a] = 1..L /\ L \in Nat
    <3>1. p.arguments[a] \in Seq(Values)
      BY <1>1 DEF IsProgram
    <3>. QED  BY <3>1
  <2>. HIDE DEF L
  <2>2. slots \in Seq(X) /\ Len(slots) = L /\ \A j \in 1..L : slots[j] = <<a, j>>
    BY <2>1
  <2>3. Slots(p, a) = Reverse(slots)
    BY DEF Slots
  <2>. HIDE DEF slots, X
  <2>4. /\ Slots(p, a) = [n \in 1..L |-> slots[(L - n) + 1]]
        /\ Slots(p, a) \in Seq(X) /\ DOMAIN Slots(p, a) = 1..L
    BY <2>2, <2>3 DEF Reverse
  <2>5. ASSUME NEW j \in 1..L
        PROVE  \E n \in DOMAIN Slots(p, a) : Slots(p, a)[n] = <<a, j>>
    <3>1. (L - j) + 1 \in 1..L /\ (L - ((L - j) + 1)) + 1 = j
      BY <2>1
    <3>2. Slots(p, a)[(L - j) + 1] = slots[(L - ((L - j) + 1)) + 1]
      BY <2>4, <3>1
    <3>. QED  BY <2>2, <2>4, <3>1, <3>2
  <2>. QED  BY <2>1, <2>4, <2>5
<1>4. PICK n \in DOMAIN Slots(p, b) : Slots(p, b)[n] = <<b, k>>
  BY <1>3
<1>5. n \in stored(b)
  BY <1>4
<1>. HIDE DEF stored, X
<1>6. Slots(p, b)[n] \in Range(At(Slots(p, b), stored(b)))
  BY <1>3, <1>5, AtPicks
<1>7. seqs \in Seq(Seq(X)) /\ b \in DOMAIN seqs /\ seqs[b] = At(Slots(p, b), stored(b))
  <2>1. \A a \in p.blocks : At(Slots(p, a), stored(a)) \in Seq(X)
    BY <1>3, AtFacts
  <2>. QED  BY <1>1, <2>1
<1>. HIDE DEF seqs
<1>8. \E j \in DOMAIN seqs[b] : seqs[b][j] = <<b, k>>
  BY <1>4, <1>6, <1>7 DEF Range
<1>. QED  BY <1>2, <1>7, <1>8, FlattenFacts

(* Every argument with a storage is a candidate, and a compatible one.     *)
LEMMA InventoryComplete ==
  ASSUME NEW p \in Programs, NEW b \in p.blocks, NEW k \in DOMAIN p.arguments[b],
         p.arguments[b][k] \in p.stored
  PROVE  \E c \in DOMAIN Candidates(p) :
           Describes(p, Candidates(p)[c], b, k) /\ Candidates(p)[c].compatible
<1>1. PICK c \in DOMAIN Positions(p) : Positions(p)[c] = <<b, k>>
  BY PositionsCover
<1>2. c \in DOMAIN Candidates(p) /\ Candidates(p)[c] = Candidate(p, b, k)
  BY <1>1 DEF Candidates
<1>3. Describes(p, Candidate(p, b, k), b, k)
  BY CandidateFacts
<1>4. Candidate(p, b, k).compatible
  <2>. DEFINE edges == Incoming(p, b)
  <2>1. /\ edges \in Seq(Edges(p))
        /\ \A n \in DOMAIN edges : Target(p, edges[n]) = b
    BY IncomingFacts
  <2>2. Candidate(p, b, k).compatible <=>
          {n \in DOMAIN edges : k \in DOMAIN Actuals(p, edges[n])} = DOMAIN edges
    BY DEF Candidate
  <2>. HIDE DEF edges
  <2>3. \A n \in DOMAIN edges : edges[n] \in Edges(p)
    BY <2>1
  <2>4. \A n \in DOMAIN edges : k \in DOMAIN Actuals(p, edges[n])
    BY <2>1, <2>3, EdgeFacts
  <2>. QED  BY <2>2, <2>4
<1>. QED  BY <1>2, <1>3, <1>4

-----------------------------------------------------------------------------
(* Argument k of block b of q is passed v on all edges, and there are some. *)
PassedOnly(q, b, k, v) ==
  {Actuals(q, e)[k] : e \in {f \in Edges(q) : Target(q, f) = b}} = {v}

Settled(q) ==
  \A b \in q.blocks : \A k \in DOMAIN q.arguments[b] :
    q.arguments[b][k] \in q.stored =>
      \A v \in Values \ {q.arguments[b][k]} : ~ PassedOnly(q, b, k, v)

(* What leaves a removed block goes where nothing is passed.               *)
NothingPassed ==
  \A a \in program.blocks \ kept : \A i \in DOMAIN program.next[a] :
    program.arguments[program.next[a][i]] = <<>>

Finished ==
  /\ Awake
  /\ pass # "mir-copy-propagation" => Settled(program) /\ NothingPassed

LEMMA QuietIsSettled ==
  ASSUME original \in Programs, Worklists, Copied, Awake, queued = {}, kept = original.blocks,
         NEW q, RewrittenAs(q), Form(q),
         q.blocks = original.blocks, q.next = original.next, q.stored = original.stored
  PROVE  Settled(q)
<1>. SUFFICES ASSUME NEW b \in q.blocks, NEW m \in DOMAIN q.arguments[b],
                     q.arguments[b][m] \in q.stored,
                     NEW v \in Values \ {q.arguments[b][m]}, PassedOnly(q, b, m, v)
              PROVE  FALSE
  BY DEF Settled
<1>1. b \in kept /\ SameArguments(q, b)
  BY DEF RewrittenAs
<1>2. PICK k \in DOMAIN original.arguments[b] : q.arguments[b][m] = original.arguments[b][k]
  BY <1>1 DEF SameArguments
<1>3. q.arguments[b][m] \notin DOMAIN substitution
  BY <1>1 DEF Form, Shaped
<1>4. PICK c \in DOMAIN Candidates(original) :
        Describes(original, Candidates(original)[c], b, k) /\ Candidates(original)[c].compatible
  BY <1>1, <1>2, InventoryComplete
<1>5. /\ c \in DOMAIN candidates /\ Describes(original, candidates[c], b, k)
      /\ candidates[c].compatible
  BY <1>4 DEF Worklists
<1>6. c \notin removed
  BY <1>2, <1>3, <1>5 DEF Awake, Describes
<1>7. ~ Uniform(candidates[c], Ends)
  BY <1>5, <1>6 DEF Awake
<1>8. Edges(q) = Edges(original) /\ \A e : Target(q, e) = Target(original, e)
  BY DEF Edges, Target
<1>9. ASSUME NEW e \in Edges(original), Target(original, e) = b
      PROVE  Actuals(q, e)[m] = Ends[Actuals(original, e)[k]]
  <2>1. e[1] \in kept /\ e[2] \in DOMAIN original.next[e[1]]
    BY <1>9, EdgeFacts
  <2>2. original.next[e[1]][e[2]] = b /\ Actuals(q, e) = q.actuals[e[1]][e[2]]
        /\ Actuals(original, e) = original.actuals[e[1]][e[2]]
    BY <1>9 DEF Target, Actuals
  <2>3. SameActuals(q, e[1], e[2])
    BY <2>1 DEF RewrittenAs
  <2>. QED  BY <1>1, <1>2, <2>2, <2>3 DEF SameActuals
<1>10. ASSUME NEW n \in DOMAIN candidates[c].inputs
       PROVE  Ends[candidates[c].inputs[n]] = v
  <2>1. PICK e \in Edges(original) :
          Target(original, e) = b /\ candidates[c].inputs[n] = Actuals(original, e)[k]
    BY <1>5 DEF Describes
  <2>2. Actuals(q, e)[m] = v
    BY <1>8, <2>1 DEF PassedOnly
  <2>. QED  BY <1>9, <2>1, <2>2
<1>11. candidates[c].inputs # <<>>
  <2>1. PICK e \in Edges(original) : Target(original, e) = b
    BY <1>8 DEF PassedOnly
  <2>2. \E n \in DOMAIN candidates[c].inputs : candidates[c].inputs[n] = Actuals(original, e)[k]
    BY <1>5, <2>1 DEF Describes
  <2>. QED  BY <2>2
<1>12. 1 \in DOMAIN candidates[c].inputs /\ candidates[c].value = q.arguments[b][m]
  BY <1>2, <1>5, <1>11, CandidateTyped DEF Describes
<1>. QED  BY <1>5, <1>7, <1>10, <1>11, <1>12 DEF Uniform

LEMMA EdgeMembers ==
  ASSUME NEW q
  PROVE  \A e : e \in Edges(q) <=> \E a \in q.blocks : \E i \in DOMAIN q.next[a] : e = <<a, i>>
BY DEF Edges

(* Settled is about the edges into blocks with arguments only.             *)
LEMMA SettledStill ==
  ASSUME NEW p, NEW q, Settled(p), q.blocks \subseteq p.blocks, q.stored = p.stored,
         \A b \in q.blocks : q.arguments[b] = p.arguments[b],
         \A b \in q.blocks : q.arguments[b] # <<>> =>
           \A e : (e \in Edges(q) /\ Target(q, e) = b) <=> (e \in Edges(p) /\ Target(p, e) = b),
         \A e \in Edges(q) : Actuals(q, e) = Actuals(p, e)
  PROVE  Settled(q)
<1>. SUFFICES ASSUME NEW b \in q.blocks, NEW k \in DOMAIN q.arguments[b],
                     q.arguments[b][k] \in q.stored,
                     NEW v \in Values \ {q.arguments[b][k]}, PassedOnly(q, b, k, v)
              PROVE  FALSE
  BY DEF Settled
<1>1. q.arguments[b] # <<>>
  OBVIOUS
<1>2. {e \in Edges(q) : Target(q, e) = b} = {e \in Edges(p) : Target(p, e) = b}
  BY <1>1
<1>3. \A e \in {e \in Edges(q) : Target(q, e) = b} : Actuals(q, e)[k] = Actuals(p, e)[k]
  OBVIOUS
<1>4. PassedOnly(p, b, k, v)
  BY <1>2, <1>3 DEF PassedOnly
<1>. QED  BY <1>4 DEF Settled

LEMMA FinishedInitially == Init => Finished
BY AwakeInitially DEF Init, Finished

LEMMA AwakeStill ==
  ASSUME Awake, UNCHANGED copyVars
  PROVE  Awake'
<1>1. UNCHANGED <<candidates, users, worklist, cursor, queued, removed, substitution>>
  BY DEF copyVars
<1>2. Ends' = Ends
  BY <1>1 DEF Ends
<1>. QED  BY <1>1, <1>2 DEF Awake, Listed, Uniform

LEMMA FinishedThroughCopy ==
  ASSUME Graph, Worklists, Copied, Finished, CopyNext, UNCHANGED <<kept, original>>
  PROVE  Finished'
<1>1. pass = "mir-copy-propagation"
  BY DEF CopyNext, Keep, Replace, Propagate
<1>2. /\ program = original /\ kept = original.blocks /\ original \in Programs
      /\ DOMAIN original = Fields
  BY <1>1 DEF Graph, Frame
<1>3. CASE Keep
  BY <1>1, <1>2, <1>3, AwakeThroughKeep DEF Keep, Finished
<1>4. CASE Replace
  BY <1>1, <1>2, <1>4, AwakeThroughReplace DEF Replace, Finished
<1>5. CASE Propagate
  <2>. DEFINE q == IF substitution = <<>> THEN original ELSE Propagated(original, substitution)
  <2>1. program' = q /\ UNCHANGED copyVars /\ cursor > Len(worklist)
    BY <1>2, <1>5 DEF Propagate
  <2>2. RewrittenAs(q) /\ Form(q)
    <3>1. CASE substitution = <<>>
      BY <1>2, <3>1, RewrittenByNothing, FormOfOriginal
    <3>2. CASE substitution # <<>>
      BY <1>2, <3>2, PropagatedRewrites, FormOfPropagated
    <3>. QED  BY <3>1, <3>2
  <2>3. q.blocks = original.blocks /\ q.next = original.next /\ q.stored = original.stored
    <3>1. CASE substitution = <<>>
      BY <3>1
    <3>2. CASE substitution # <<>>
      <4>. DEFINE r == Propagated(original, substitution)
      <4>1. r.blocks = original.blocks /\ r.next = original.next /\ r.stored = original.stored
        BY <1>2 DEF Propagated, Fields
      <4>. QED  BY <3>2, <4>1
    <3>. QED  BY <3>1, <3>2
  <2>. HIDE DEF q
  <2>4. queued = {}
    <3>1. worklist \in Seq(DOMAIN candidates) /\ cursor \in Nat
      BY DEF Worklists
    <3>2. \A n \in DOMAIN worklist : ~ (n >= cursor)
      BY <2>1, <3>1
    <3>. QED  BY <3>2 DEF Finished, Awake
  <2>5. Settled(q)
    BY <1>2, <2>2, <2>3, <2>4, QuietIsSettled DEF Finished
  <2>6. NothingPassed'
    BY <1>2, <2>1, <2>3 DEF NothingPassed
  <2>. QED  BY <2>1, <2>5, <2>6, AwakeStill DEF Finished
<1>. QED  BY <1>3, <1>4, <1>5 DEF CopyNext

LEMMA FinishedThroughRemoval ==
  ASSUME Graph, Finished, RemoveBlock, UNCHANGED copyVars
  PROVE  Finished'
<1>1. PICK b \in kept :
        /\ FirstRemovable(program, b)
        /\ program' = [program EXCEPT !.next = Redirected(program, b)]
        /\ kept' = kept \ {b}
  BY DEF RemoveBlock
<1>2. pass = "mir-cfg-cleanup" /\ pass' = pass
  BY DEF RemoveBlock
<1>3. Settled(program) /\ NothingPassed
  BY <1>2 DEF Finished
<1>4. /\ program'.arguments = program.arguments /\ program'.actuals = program.actuals
      /\ program'.blocks = program.blocks /\ program'.stored = program.stored
      /\ program'.next = Redirected(program, b)
  BY <1>1 DEF Graph, Frame, Fields
<1>5. b \in program.blocks
  BY DEF Graph, Frame
<1>6. ASSUME NEW a \in program.blocks
      PROVE  /\ DOMAIN program'.next[a] = DOMAIN program.next[a]
             /\ \A i \in DOMAIN program.next[a] :
                  \/ program'.next[a][i] = program.next[a][i]
                  \/ /\ program.arguments[program'.next[a][i]] = <<>>
                     /\ program.arguments[program.next[a][i]] = <<>>
             /\ a \notin kept \ {b} => program'.next[a] = program.next[a]
  <2>1. CASE ~ Forwarding(program, b)
    BY <1>4, <2>1 DEF Redirected
  <2>2. CASE Forwarding(program, b)
    <3>. DEFINE t == program.next[b][1]
    <3>1. program.arguments[t] = <<>> /\ program.arguments[b] = <<>>
      BY <2>2 DEF Forwarding, Empty
    <3>2. program'.next[a] =
            IF a \in kept \ {b}
            THEN [i \in DOMAIN program.next[a] |->
                    IF program.next[a][i] = b THEN t ELSE program.next[a][i]]
            ELSE program.next[a]
      BY <1>4, <2>2 DEF Redirected
    <3>. HIDE DEF t
    <3>. QED  BY <3>1, <3>2
  <2>. QED  BY <2>1, <2>2
<1>7. Settled(program)'
  <2>. DEFINE q == program'
  <2>1. \A e : e \in Edges(q) <=> e \in Edges(program)
    BY <1>4, <1>6, EdgeMembers
  <2>2. ASSUME NEW x \in program.blocks, program.arguments[x] # <<>>, NEW e \in Edges(program)
        PROVE  Target(q, e) = x <=> Target(program, e) = x
    <3>1. e[1] \in program.blocks /\ e[2] \in DOMAIN program.next[e[1]]
      BY <2>2, EdgeMembers
    <3>. QED  BY <1>6, <2>2, <3>1 DEF Target
  <2>3. \A e : Actuals(q, e) = Actuals(program, e)
    BY <1>4 DEF Actuals
  <2>4. /\ q.blocks = program.blocks /\ q.stored = program.stored
        /\ q.arguments = program.arguments
    BY <1>4
  <2>. HIDE DEF q
  <2>5. Settled(q)
    BY <1>3, <2>1, <2>2, <2>3, <2>4, SettledStill
  <2>. QED  BY <2>5 DEF q
<1>8. NothingPassed'
  <2>. SUFFICES ASSUME NEW a \in program.blocks, a \notin kept \ {b}, NEW i \in DOMAIN program.next[a]
                PROVE  program.arguments[program.next[a][i]] = <<>>
    BY <1>1, <1>4, <1>6 DEF NothingPassed
  <2>1. CASE a # b
    BY <1>3, <2>1 DEF NothingPassed
  <2>2. CASE a = b
    <3>1. CASE Forwarding(program, b)
      <4>1. original.kind[b] = "branch" /\ DOMAIN program.next[b] = DOMAIN original.next[b]
        BY <3>1 DEF Forwarding, Graph, Terminators
      <4>2. DOMAIN program.next[b] = {1}
        BY <4>1, ProgramFacts DEF Graph, Frame
      <4>. QED  BY <2>2, <3>1, <4>2 DEF Forwarding
    <3>2. CASE ~ Forwarding(program, b)
      <4>1. program.kind[b] = "unreachable"
        BY <1>1, <3>2 DEF FirstRemovable, Removable, UnreachableEmpty
      <4>2. original.next[b] = <<>> /\ DOMAIN program.next[b] = DOMAIN original.next[b]
        BY <4>1, ProgramFacts DEF Graph, Frame, Terminators
      <4>. QED  BY <2>2, <4>2
    <3>. QED  BY <3>1, <3>2
  <2>. QED  BY <2>1, <2>2
<1>. QED  BY <1>7, <1>8, AwakeStill DEF Finished

LEMMA FinishedThroughCompaction ==
  ASSUME Graph, Finished, Compact, UNCHANGED copyVars
  PROVE  Finished'
<1>1. program' = Compacted(program) /\ kept' = kept /\ pass = "mir-cfg-cleanup"
  BY DEF Compact
<1>2. DOMAIN program = Fields /\ kept \subseteq program.blocks
  BY DEF Graph, Frame
<1>3. /\ program'.arguments = [b \in kept |-> program.arguments[b]]
      /\ program'.actuals = [b \in kept |-> program.actuals[b]]
      /\ program'.next = [b \in kept |-> program.next[b]]
      /\ program'.blocks = kept /\ program'.stored = program.stored
  BY <1>1, <1>2 DEF Compacted, Fields
<1>4. Settled(program) /\ NothingPassed
  BY <1>1 DEF Finished
<1>5. Settled(program)'
  <2>. DEFINE q == program'
  <2>1. \A e \in Edges(q) : e[1] \in kept /\ e \in Edges(program)
    BY <1>2, <1>3, EdgeMembers
  <2>2. \A e \in Edges(q) : Actuals(q, e) = Actuals(program, e) /\ Target(q, e) = Target(program, e)
    BY <1>3, <2>1 DEF Actuals, Target
  <2>3. ASSUME NEW x \in kept, program.arguments[x] # <<>>,
               NEW e \in Edges(program), Target(program, e) = x
        PROVE  e \in Edges(q)
    <3>1. PICK a \in program.blocks : \E i \in DOMAIN program.next[a] : e = <<a, i>>
      BY <2>3, EdgeMembers
    <3>2. PICK i \in DOMAIN program.next[a] : e = <<a, i>>
      BY <3>1
    <3>3. a \in kept
      BY <1>4, <2>3, <3>2 DEF NothingPassed, Target
    <3>. QED  BY <1>3, <3>2, <3>3, EdgeMembers
  <2>4. /\ q.blocks = kept /\ q.stored = program.stored
        /\ \A x \in kept : q.arguments[x] = program.arguments[x]
    BY <1>3
  <2>. HIDE DEF q
  <2>5. Settled(q)
    BY <1>2, <1>4, <2>1, <2>2, <2>3, <2>4, SettledStill
  <2>. QED  BY <2>5 DEF q
<1>6. NothingPassed'
  BY <1>1, <1>3 DEF NothingPassed
<1>. QED  BY <1>5, <1>6, AwakeStill DEF Finished

LEMMA FinishedKept ==
  ASSUME Passes, Finished, [Next]_vars
  PROVE  Finished'
<1>1. CASE Optimize
  BY <1>1, FinishedThroughCopy, FinishedThroughRemoval, FinishedThroughCompaction
     DEF Optimize, CleanupNext, Passes
<1>2. CASE (at # NoBlock /\ Execute) \/ UNCHANGED vars
  <2>1. UNCHANGED <<program, pass, copyVars, kept>>
    BY <1>2 DEF Execute, vars, copyVars
  <2>. QED  BY <2>1, AwakeStill DEF Finished, NothingPassed
<1>. QED  BY <1>1, <1>2 DEF Next

(* Once copy propagation is over no argument with storage is passed one    *)
(* and the same other value on all its edges: the worklist looks again at  *)
(* whatever a replacement changes, and the cleanup leaves the edges into   *)
(* blocks with arguments alone.                                            *)
THEOREM NothingLeftToPropagate == Spec => []PropagationComplete
<1>1. Init => Graph /\ Paths /\ Passes /\ Runs /\ NotYetRunning /\ Finished
  BY GraphInitially, PathsInitially, PassesInitially, RunsInitially, FinishedInitially
<1>2. (Graph /\ Paths /\ Passes /\ Runs /\ NotYetRunning /\ Finished) /\ [Next]_vars
        => (Graph /\ Paths /\ Passes /\ Runs /\ NotYetRunning /\ Finished)'
  BY GraphKept, PathsKept, RunsKept, FinishedKept
<1>3. Finished => PropagationComplete
  BY DEF Finished, Settled, PassedOnly, PropagationComplete
<1>. QED  BY <1>1, <1>2, <1>3, PTL DEF Spec
=============================================================================
