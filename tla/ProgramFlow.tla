---------------------------- MODULE ProgramFlow ----------------------------
(***************************************************************************)
(* The control flow of one lowered function, and what it means to execute  *)
(* it.  Nothing here is an analysis: the module says what a MIR function   *)
(* is for the output-assignment analysis (blocks of instructions, normal   *)
(* successors, one exception handler per block) and which states a run of  *)
(* it goes through.                                                        *)
(*                                                                         *)
(* A program p is a record with                                            *)
(*   p.blocks    its blocks, p.entry the entry block                       *)
(*   p.outputs   its outputs, p.argument those that are parameters too     *)
(*   p.code[b]   the instructions of b: mayFail says that the effects of   *)
(*               the instruction contain may_fail, writes is the set of    *)
(*               outputs whose binding it defines                          *)
(*   p.next[b]   the successors of the terminator, in order                *)
(*   p.handler[b]  the exception handler of b, or NoBlock                  *)
(***************************************************************************)
EXTENDS Integers, Sequences

CONSTANTS
  Programs,   \* the lowered functions under consideration
  NoBlock     \* the invalid block id

Value == {"unassigned", "assigned"}

Instructions(outputs) == [mayFail : BOOLEAN, writes : SUBSET outputs]

(* The edges of a program stay inside it: the table of any other function  *)
(* is left incomplete and never computed.                                  *)
WellFormed(p) ==
  /\ p.entry \in p.blocks
  /\ NoBlock \notin p.blocks
  /\ p.argument \subseteq p.outputs
  /\ p.code \in [p.blocks -> Seq(Instructions(p.outputs))]
  /\ p.next \in [p.blocks -> Seq(p.blocks)]
  /\ p.handler \in [p.blocks -> p.blocks \cup {NoBlock}]

ASSUME ProgramsAssumption == \A p \in Programs : WellFormed(p)

-----------------------------------------------------------------------------
(* Execution.  A state is a block, how many of its instructions have       *)
(* committed, and the set of outputs assigned so far.                      *)

States(p) ==
  {s \in [block : p.blocks, done : Nat, assigned : SUBSET p.outputs] :
     s.done <= Len(p.code[s.block])}

InitialState(p) == [block |-> p.entry, done |-> 0, assigned |-> p.argument]

Entered(b, s) == [block |-> b, done |-> 0, assigned |-> s.assigned]

(* The next instruction can be left through the exception edge.            *)
CanFail(p, b, k) ==
  k \in DOMAIN p.code[b] /\ p.code[b][k].mayFail /\ p.handler[b] # NoBlock

Committed(p, s) ==
  [block |-> s.block, done |-> s.done + 1,
   assigned |-> s.assigned \cup p.code[s.block][s.done + 1].writes]

(* One step: commit the next instruction, fail in it, or leave the block.  *)
Steps(p, s) ==
  (IF s.done < Len(p.code[s.block]) THEN {Committed(p, s)} ELSE {})
    \cup
  (IF CanFail(p, s.block, s.done + 1) THEN {Entered(p.handler[s.block], s)} ELSE {})
    \cup
  (IF s.done = Len(p.code[s.block])
     THEN {Entered(p.next[s.block][j], s) : j \in DOMAIN p.next[s.block]} ELSE {})

Closed(p, R) ==
  /\ R \subseteq States(p)
  /\ InitialState(p) \in R
  /\ \A s \in R : Steps(p, s) \subseteq R

ValueOf(o, s) == IF o \in s.assigned THEN "assigned" ELSE "unassigned"

-----------------------------------------------------------------------------
(* Program points: the entry, the normal exit and the exceptional exit of  *)
(* a block, and the points before and after each of its instructions.      *)

BlockPoints(p) == {"entry", "exit", "exception"} \X p.blocks \X {0}

InstructionPoints(p) ==
  UNION {{"before", "after"} \X {b} \X DOMAIN p.code[b] : b \in p.blocks}

Points(p) == BlockPoints(p) \cup InstructionPoints(p)

Entry(b) == <<"entry", b, 0>>
Exit(b) == <<"exit", b, 0>>
Exception(b) == <<"exception", b, 0>>
Before(b, k) == <<"before", b, k>>
After(b, k) == <<"after", b, k>>

(* State s is one in which the run stands at point pt.                     *)
StandsAt(p, s, pt) ==
  /\ s.block = pt[2]
  /\ \/ pt[1] = "entry" /\ s.done = 0
     \/ pt[1] = "exit" /\ s.done = Len(p.code[s.block])
     \/ pt[1] = "exception" /\ CanFail(p, s.block, s.done + 1)
     \/ pt[1] = "before" /\ s.done + 1 = pt[3]
     \/ pt[1] = "after" /\ s.done = pt[3]

(* The values the states R give output o at point pt.                      *)
Collected(p, R, pt, o) == {ValueOf(o, s) : s \in {r \in R : StandsAt(p, r, pt)}}
=============================================================================
