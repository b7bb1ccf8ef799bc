------------------------- MODULE OptimizedExecution -------------------------
(***************************************************************************)
(* The two passes of the pipeline that change the control-flow graph, one  *)
(* after the other, and then the original and the optimized function run   *)
(* side by side: the twin takes the same branches, and fails at the same   *)
(* instructions, as the original does.                                     *)
(*                                                                         *)
(* In a run every definition of an instruction makes a value of its own    *)
(* (the instruction's value id and the step), so that two values are equal *)
(* only when one is a copy of the other.                                   *)
(***************************************************************************)
EXTENDS CopyPropagation, CfgCleanup

CONSTANTS
  Programs,    \* the verified functions under consideration
  MaxSteps     \* bound on the blocks one run goes through

VARIABLES
  original,          \* the function before optimization
  steps,             \* blocks left so far
  at, env, seen,     \* the original: its block, its values, the operands it read last
  twinAt, twinEnv, twinSeen

vars == <<program, pass, candidates, users, worklist, cursor, queued, removed,
          substitution, kept, original, steps, at, env, seen, twinAt, twinEnv, twinSeen>>

runVars == <<steps, at, env, seen, twinAt, twinEnv, twinSeen>>

ASSUME ProgramsAssumption ==
  /\ MaxSteps \in Nat
  /\ \A p \in Programs : IsProgram(p) /\ Verified(p) /\ Built(p)

Undefined == <<>>

InitialEnv(p) ==
  [v \in Values |-> IF v \in Elements(p.arguments[p.entry]) THEN <<v, 0>> ELSE Undefined]

Init ==
  /\ original \in Programs
  /\ program = original
  /\ pass = "mir-copy-propagation"
  /\ CopyInit
  /\ kept = original.blocks
  /\ steps = 0
  /\ at = original.entry /\ env = InitialEnv(original) /\ seen = <<>>
  /\ twinAt = original.entry /\ twinEnv = env /\ twinSeen = <<>>

-----------------------------------------------------------------------------
ValuesOf(e, operands) == [k \in DOMAIN operands |-> e[operands[k]]]

(* The first n instructions of block b of p, from the values e: the values *)
(* after them, and those they read.                                        *)
After(p, b, e, n) ==
  [v \in Values |-> IF \E k \in 1..n : v \in p.code[b][k].defines THEN <<v, steps>> ELSE e[v]]

Reading(p, b, e, n) ==
  FlattenSeq([k \in 1..n |-> ValuesOf(After(p, b, e, k - 1), p.code[b][k].reads)])

AtEnd(p, b, e) == After(p, b, e, Len(p.code[b]))

Observed(p, b, e) ==
  Reading(p, b, e, Len(p.code[b])) \o ValuesOf(AtEnd(p, b, e), p.tests[b])

(* Entering block b with the given values for its arguments.               *)
Entered(p, b, e, actuals) ==
  [v \in Values |->
     IF \E k \in DOMAIN p.arguments[b] : p.arguments[b][k] = v
     THEN e[actuals[CHOOSE k \in DOMAIN p.arguments[b] : p.arguments[b][k] = v]]
     ELSE e[v]]

Along(p, b, e, i) ==
  Entered(p, p.next[b][i], AtEnd(p, b, e), p.actuals[b][i])

Running == pass = "done" /\ steps < MaxSteps /\ at # NoBlock

(* The original leaves block at by its i-th successor; the twin does the   *)
(* same, or waits while the original crosses a block that was removed.     *)
Leave(i) ==
  /\ Running
  /\ at' = original.next[at][i]
  /\ env' = Along(original, at, env, i)
  /\ seen' = Observed(original, at, env)
  /\ IF at \in kept
     THEN /\ twinAt' = program.next[twinAt][i]
          /\ twinEnv' = Along(program, twinAt, twinEnv, i)
          /\ twinSeen' = Observed(program, twinAt, twinEnv)
     ELSE twinSeen' = <<>> /\ UNCHANGED <<twinAt, twinEnv>>

(* Instruction n + 1 fails and the exception edge is taken.                *)
Fail(n) ==
  /\ Running
  /\ original.handler[at] # NoBlock
  /\ at' = original.handler[at]
  /\ env' = After(original, at, env, n)
  /\ seen' = Reading(original, at, env, n)
  /\ twinAt' = program.handler[twinAt]
  /\ twinEnv' = After(program, twinAt, twinEnv, n)
  /\ twinSeen' = Reading(program, twinAt, twinEnv, n)

Halt ==
  /\ Running
  /\ original.next[at] = <<>>
  /\ at' = NoBlock /\ twinAt' = NoBlock
  /\ seen' = Observed(original, at, env)
  /\ twinSeen' = Observed(program, twinAt, twinEnv)
  /\ UNCHANGED <<env, twinEnv>>

Execute ==
  /\ \/ \E i \in DOMAIN original.next[at] : Leave(i)
     \/ \E n \in 0..(Len(original.code[at]) - 1) : Fail(n)
     \/ Halt
  /\ steps' = steps + 1
  /\ UNCHANGED <<program, pass, copyVars, kept, original>>

Optimize ==
  /\ \/ CopyNext /\ UNCHANGED kept
     \/ CleanupNext /\ UNCHANGED copyVars
  /\ UNCHANGED <<original, runVars>>

Next == Optimize \/ (at # NoBlock /\ Execute)

Spec == Init /\ [][Next]_vars

-----------------------------------------------------------------------------
(* What the pass manager checks between two passes and after the last: the *)
(* program is one the verifier accepts again, with the same entry, edges   *)
(* that pass as many values as their target takes, and no use, edge or     *)
(* expression that names an argument or a block that was removed.          *)
StaysVerified ==
  (pass = "done" \/ (pass = "mir-cfg-cleanup" /\ kept = program.blocks)) => Verified(program)

(* The optimized function goes where the original goes: whenever the       *)
(* original is in a block that was kept the twin is in that block.         *)
SamePath == at \in kept \cup {NoBlock} => twinAt = at

(* ... and reads there the same values, so that it has the same effects    *)
(* and takes the same branches.                                            *)
SameValues == seen = twinSeen
=============================================================================
