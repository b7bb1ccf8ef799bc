---------------------- MODULE OutputAssignmentVerifier ----------------------
(***************************************************************************)
(* verify_output_assignments (src/ir/output_assignment_verifier.cpp): the  *)
(* table of the analysis is compared with one computed another way, by     *)
(* exploring, for one output at a time, the pairs of a block and a Boolean *)
(* "is it assigned".  One iteration of each loop is one step: the next     *)
(* output, taking a path from the queue, an instruction, the exit of the   *)
(* block, a successor edge.                                                *)
(*                                                                         *)
(* The table under verification is an input.                               *)
(***************************************************************************)
EXTENDS ProgramFlow

CONSTANT OutputOrder(_) \* OutputOrder(p): the outputs of p, in slot order

VARIABLES
  program, analysis,   \* the inputs
  expected,            \* the verifier's own table
  slot,                \* ordinal of the output being explored, 0 before the first
  visited,             \* paths <<block, value>> flagged as seen, for all outputs
  touched,             \* the blocks with a flag to be cleared
  pending,             \* queue of the paths still to be explored
  block,               \* block of the path being walked, or NoBlock
  step,                \* its next instruction, then its exit, then its edges
  value,               \* the output's value on the path, where the walk stands
  verdict              \* "none", then "accepted" or "rejected"

explorer == <<expected, slot, visited, touched, pending, block, step, value>>

Start(p, o) == <<p.entry, IF o \in p.argument THEN "assigned" ELSE "unassigned">>

NothingRecorded(p) == [pt \in Points(p) |-> [o \in p.outputs |-> {}]]

Init ==
  /\ expected = NothingRecorded(program)
  /\ slot = 0
  /\ visited = {}
  /\ touched = {}
  /\ pending = <<>>
  /\ block = NoBlock
  /\ step = 1
  /\ value = "unassigned"
  /\ verdict = "none"

Output == OutputOrder(program)[slot]

Code == program.code[block]
Successors == program.next[block]

(* The table t once value v has been recorded at point pt.                 *)
Record(t, pt, v) == [t EXCEPT ![pt][Output] = @ \cup {v}]

(* mutant: a block is listed when it is first seen unassigned.             *)
TouchedUnassigned(seen, listed, b, v) ==
  IF v = "assigned" THEN listed ELSE listed \cup {b}

(* The blocks listed once b is seen with value v: a block is listed with   *)
(* its first flag, and its second one finds it listed.                     *)
Touched(seen, listed, b, v) ==
  IF \E w \in Value : <<b, w>> \in seen THEN listed ELSE listed \cup {b}

(* enqueue, where seen are the flags and listed the blocks that have some: *)
(* a path that was seen before is ignored.                                 *)
EnqueueAfter(seen, listed, b, v) ==
  IF <<b, v>> \in seen
  THEN visited' = seen /\ touched' = listed /\ UNCHANGED pending
  ELSE /\ visited' = seen \cup {<<b, v>>}
       /\ touched' = Touched(seen, listed, b, v)
       /\ pending' = Append(pending, <<b, v>>)

Enqueue(b, v) == EnqueueAfter(visited, touched, b, v)

(* The walk's step is done; the path is left when it was the last one.     *)
Advance ==
  /\ step' = step + 1
  /\ block' = IF step > Len(Code) + Len(Successors) THEN NoBlock ELSE block

(* The flags that are left when those of the listed blocks are cleared.    *)
Left == {path \in visited : path[1] \notin touched}

(* The flags are cleared through the list before the next output starts.   *)
NextOutput ==
  /\ block = NoBlock /\ pending = <<>>
  /\ slot < Len(OutputOrder(program))
  /\ slot' = slot + 1
  /\ LET first == Start(program, OutputOrder(program)[slot + 1])
     IN  EnqueueAfter(Left, {}, first[1], first[2])
  /\ UNCHANGED <<program, analysis, expected, block, step, value, verdict>>

TakePath ==
  /\ block = NoBlock /\ pending # <<>>
  /\ LET path == Head(pending)
     IN  /\ block' = path[1]
         /\ value' = path[2]
         /\ expected' = Record(expected, Entry(path[1]), path[2])
  /\ step' = 1
  /\ pending' = Tail(pending)
  /\ UNCHANGED <<program, analysis, slot, visited, touched, verdict>>

(* The value once the next instruction has committed its writes.           *)
ValueCommitted == IF Output \in Code[step].writes THEN "assigned" ELSE value

(* The value that leaves through the handler when the instruction fails.   *)
ValueAtFailure == value

WalkInstruction ==
  /\ block # NoBlock /\ step \in DOMAIN Code
  /\ LET fails == CanFail(program, block, step)
         before == Record(expected, Before(block, step), value)
         thrown == IF fails THEN Record(before, Exception(block), ValueAtFailure) ELSE before
     IN  /\ expected' = Record(thrown, After(block, step), ValueCommitted)
         /\ IF fails THEN Enqueue(program.handler[block], ValueAtFailure)
                     ELSE UNCHANGED <<visited, touched, pending>>
  /\ value' = ValueCommitted
  /\ Advance
  /\ UNCHANGED <<program, analysis, slot, verdict>>

WalkExit ==
  /\ block # NoBlock /\ step = Len(Code) + 1
  /\ expected' = Record(expected, Exit(block), value)
  /\ Advance
  /\ UNCHANGED <<program, analysis, slot, visited, touched, pending, value, verdict>>

WalkEdge ==
  /\ block # NoBlock /\ step > Len(Code) + 1
  /\ Enqueue(Successors[step - Len(Code) - 1], value)
  /\ Advance
  /\ UNCHANGED <<program, analysis, expected, slot, value, verdict>>

Compare ==
  /\ block = NoBlock /\ pending = <<>>
  /\ slot = Len(OutputOrder(program))
  /\ verdict = "none"
  /\ verdict' = IF analysis = expected THEN "accepted" ELSE "rejected"
  /\ UNCHANGED <<program, analysis, explorer>>

Next == NextOutput \/ TakePath \/ WalkInstruction \/ WalkExit \/ WalkEdge \/ Compare
=============================================================================
