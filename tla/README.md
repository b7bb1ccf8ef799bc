# A verification project for the MPF compiler core

MPF translates Fortran, Matlab, Python and TypeScript programs to JavaScript and
C++. It is a batch compiler: one thread takes one source text through a chain of
stages and either produces code or stops at the first stage that reports an
error. What makes it correct is therefore not locking or messaging but a set of
**control flow**: what the analyzer says about statements that jump out of one
another, the blocks they are lowered to, and the fixed-point algorithms on those
blocks in the middle end (`src/ir`): worklists over loops and exception
handlers, summaries over recursive calls, joins of values around cycles, and
rewrites between which a verifier runs. Their results depend on nesting,
visiting orders, queue bits, limits and overflow checks that unit tests hit one
instance at a time. These algorithms are what the modules in this directory
describe, check and prove about.

Paths below are relative to the repository (`src/ir/...` is the compiler's own
source directory). A run is named as in `PROJECT.json`.

## 1. Inventory of the system

The compiler as a pipeline (`Transpiler::transpile`, `src/core/transpiler.cpp`):

    text -> front end (AST) -> HIR + semantic table -> analyzer -> MIR lowering
         -> MIR optimizer -> alias/effect, memory-dependence, output-assignment
         -> capability check -> target IR -> code (+ source map)

| Component | State it keeps | Operations | Interacts with | Hard behaviour | Modelled |
|---|---|---|---|---|---|
| Transpiler driver (`core/`) | result, session metrics, limits | the stages in order, limits between them | every component, by calls | partial results after a failed stage | no |
| Pass and analysis managers (`ir/pass_manager.hpp`) | passes, cached analyses by revision | run passes with the verifier in between, cache | optimizer, driver | stale caches | partly: the verifier between passes of the optimizer |
| Source manager, lexer, front ends (`source/`, `lexer/`, `frontends/`) | texts, tokens, AST arenas | scan, parse, build AST | HIR | text | no |
| Compiler contracts (`compiler/`) | catalogues | lookups | analyzer, back ends | none | no |
| Function dependency graph (`compiler/dependency_graph.cpp`) | discovery and low-link numbers, stacks | non-recursive search for order and recursion | analyzer, C++ capability check, plan and emission | search order, cycles, recursion decided twice | yes, with the order in which its users work |
| Flow and definite-assignment analysis (`semantic/`) | reachability, assigned variables per statement and per loop exit | one pass over the statements | MIR lowering | jumps, loops that run at least once, failures | yes, for the statements of all four languages |
| Name and semantic analysis (`semantic/`) | scopes, symbols, facts | passes over the HIR | HIR, MIR lowering | rule tables | no |
| MIR lowering (`ir/mir.cpp`) | blocks, loop stack, handlers, storage versions, regions | blocks and edges of each statement, versions as block arguments | all of `ir/` | jumps through try and loops, lazy conditions, dead ends | control flow and storage versions |
| MIR verifier (`ir/mir_verifier.cpp`) | definitions, dominators | CFG, dominance, edges; type and call rules | lowering, optimizer | blocks without predecessors | CFG, dominance and edges |
| Control value joins (`ir/control_value_join*.{cpp,hpp}`) | facts of block arguments, worklist; components | normalize after lowering; verify | lowering, verifier, optimizer | loops, unknown types, overflow, second run | yes |
| MIR optimizer (`ir/mir_optimization.cpp`, `ir/mir_copy_propagation.cpp`) | candidates, worklist, substitution; removal bits | canonicalize shapes, fold, propagate copies, clean the CFG | verifier between passes | rewriting loops, handlers, other tables' references | copies, CFG cleanup, constants with dead code |
| Alias and effect analysis (`ir/alias_effect_analysis.cpp`) | summaries per function, escapes, call facts | local facts, passes over calls, instantiate | memory dependence, back ends | recursion, views, limit on passes | yes, from local facts on |
| Storage regions (`ir/storage_region.cpp`) | none | compare two regions | alias analysis, dependence analysis | strides, overflow, enumeration limit | yes |
| Memory dependence (`ir/memory_dependence.cpp`) | search frames, frontiers, worklist, drafts | feedback edges, fixed point, collect | alias table, storage regions | kills, loops, handlers | yes |
| Output assignment and its verifier (`ir/output_assignment*.cpp`) | rows of cells, worklist; visited flags and the list of those set | analyse, verify | alias effects (may-fail), exception edges | handlers re-entered, failing writes | yes |
| Argument and output plumbing, dumps, back ends, run-time libraries, CLI | records and text | attach, check, print, emit | MIR, targets | wording and layout | no |

Interaction inside the middle end is by value: each analysis reads the MIR
program of a fixed revision and the tables computed before it. The interesting
couplings are: the dependence analysis trusts the alias table's accesses and its
own region relation; copy propagation leaves a graph on which CFG cleanup has to
work; shape canonicalization changes the strides from which joins were computed;
and each verifier recomputes a table with an algorithm of its own and must agree
with the producer.

What makes each modelled component correct:

* **output assignment**: the table holds, at every program point, exactly the
  values (assigned or not) that executions give each named output there, the
  handler of a failing instruction not counting its write;
* **its verifier**: it accepts exactly that table;
* **feedback edges**: every cycle crosses a marked edge, no mark without a cycle;
* **storage regions**: the definite answers (`disjoint`, `identical`) are true;
* **memory dependence**: no ordering between two accesses of an execution is
  missing from the table, loop-carried ones are marked;
* **alias effects**: summaries are the least fixed point over the call graph,
  calls and overlaps agree with them;
* **dependency graph**: recursion is marked exactly, callees come before their
  callers, no function is used undeclared;
* **flow and definite assignment**: a statement called unreachable is not
  executed, a variable called assigned has a value;
* **lowering**: the blocks do what the statements mean, failures go to the
  innermost handler, the verifier accepts them, block arguments carry the values
  of the path taken;
* **optimizer**: folding keeps every value and never fails; the rewritten function passes the verifier, takes the same path
  and reads the same values;
* **control value joins**: an argument's contract is the join of all that can
  reach it; producer and verifier agree; a second run changes nothing.

## 2. Modules

Each algorithm is a module whose VARIABLES are the data structures of the C++
function and whose actions are the iterations of its loops. Programs under
analysis are records with the parts of the program the algorithm reads; a run
gives a finite set of them, the proofs take any set that satisfies the named
ASSUME. Operators whose comment begins with "mutant:" are deliberately wrong
variants of the definition that follows; they show that a property can fail.

**Structured programs.** `StructuredProgram` is the statement tree of one
function. `FlowAnalysis` (termination, reachability) and `DefiniteAssignment`
(what is assigned before and after each statement, and whether the program is
accepted) are the analyzer's two passes as functions on the tree.
`StructuredSemantics` says what such a program means in its language: a walk
over the statements in which every decision may get any answer and every
statement in a try may fail. `MirLowering` is the `Builder`: its actions are what
`lower_statement` does between two statements (`OpenIf`, `TurnIf`, `CloseIf`,
`OpenLoop`, ..., `LowerBreak`, `Finish`), `frames` is its call stack, `contexts`
its loop stack. `LoweringVerifier` adds the verifier's step over what was built.
`LoweredExecution` then executes the blocks and implements
`StructuredSemantics` under the mapping from block and instruction to point
(`ImplementsSource`). It also remembers, in the history variable `outdated`, for
which variables the builder had already gone on from an earlier version on the
path executed (see the run below). `MCLoweredExecution` gives the programs.

**Function order.** `FunctionGraph` is the search of
`analyze_function_dependencies` with its low links (`Root`, `Follow`, `Leave`).
`FunctionOrder` adds what uses the result: the analyzer visits the functions in
that order (`Analyze`), the C++ capability check decides recursion again by
reachability (`Validate`), the plan declares (`Plan`), the renderer emits
(`Emit`). `MCFunctionOrder` and `FunctionOrderProofs` belong to it.

**Output assignment.** `ProgramFlow` defines programs (blocks, instructions with
their writes and may-fail flags, successors, handlers) and executions.
`OutputPaths` is the abstract promise: a table that only grows and stays below
what executions realise. `OutputAssignment` is the worklist of
`analyze_function`: `Pop` takes a block, `Instruction` does one instruction with
its exception edge, `BlockExit` writes the exit row, `SuccessorEdge` propagates.
It implements `OutputPaths` under the identity mapping (`ImplementsPaths`).
`OutputAssignmentVerifier` is the Boolean-path exploration, one iteration of its
loops at a time: `NextOutput`, `TakePath`, `WalkInstruction`, `WalkExit`,
`WalkEdge`, then `Compare`. Its visited flags are those of the code: only the
blocks on the list `touched` lose theirs before the next output. `VerifiedAssignment` composes the two: the table of
the analysis, or one damaged in one cell, is handed to the verifier.
`MCOutputAssignment` gives the programs; `OutputAssignmentProofs` and
`VerifiedAssignmentProofs` hold the proofs.

**Memory dependence.** `FeedbackEdges` is the non-recursive search (`Start`,
`Follow`, `Leave`), with `FeedbackEdgesProofs`. `StorageRegion` translates the
region comparison: progressions, residues, bounded enumeration, sizes of a fixed
width; it also says what a region means, a set of subscript tuples, where a
linearized one counts them in column-major order (`Offset`). `MemoryFlow` describes the functions, access sites and alias relation;
`MemoryDependence` is the analysis: `BuildGraph` runs `FeedbackEdges`
(INSTANCE), `Take`/`HandOn`/`Leave` are the worklist, `Collect` reads off the
table. `MemoryExecution` then executes the function on all bindings of its
parameters to memory, remembering for every cell the last write and the reads
since, and judges the region comparisons by the cells. The functions executed are
those the verifier accepts (`Verified`). `MemoryPrograms` lists
the functions for `MCMemoryExecution`; `MemoryDependenceProofs` has the proofs.

**Alias effects.** `AliasEffect` has one action per part of the nested loops of
`analyze_alias_effects`: `Pass` and `Skip` handle an argument of a call, `Merge`
a call's function-level facts, `EndPass` a pass (with the limit
`4 * functions + 8`), `Instantiate` the publication of call facts and overlaps.
`MCAliasEffect` and `AliasEffectProofs` belong to it. The facts of a single
instruction are inputs.

**Optimizer.** `MirProgram` has the program record and `Verified`, the
verifier's conditions on CFG, dominance, definitions and uses.
`CopyPropagation` is the candidate worklist, substitution and compaction of
arguments and edges; `CfgCleanup` removes unreachable empty blocks and
forwarders one at a time and compacts. `OptimizedExecution` runs both and then
the original and the optimized function in lockstep; `MCOptimizedExecution` and
`OptimizedExecutionProofs` belong to it. `ConstantFolding` is the pass between
the two, on the expression arena: `Descend` and `Leave` are the recursion of
`fold_expression`, `Sweep` the elimination with its checks and the compaction;
machine integers have the width `IntMax` gives them. It is separate because it
changes expressions and their instructions and no block or edge.
`MCConstantFolding` has the expressions, `ConstantFoldingProofs` the arithmetic
and the pass over any expressions.

**Control value joins.** `ValueDomain` is the lattice of type and shape facts,
with checked stride reconstruction. `ControlValueJoin` is the normalizer: `Keep`
and `Update` are an iteration of the worklist, `Settle`, `Write` and `Finish`
the writing of contracts, `Repeat` a second normalization.
`ControlJoinVerifier` extends it with the verifier: inventory, depth-first
search (`Start`, `Follow`, `Leave`), collection and condensation of components
(`Collect`, `Condense`), propagation (`Deliver`), comparison (`Compare`), and
`Canonicalize`, the shape pass of the optimizer, after which the verifier runs
again. It is also given programs nobody normalized, as a pipeline verifier is.
`MCControlValueJoin` gives the programs.

## 3. Runs

Number of distinct states in parentheses.

| Run | Checks | Bounds, and why they are enough |
|---|---|---|
| structured_programs | `FlowFactsTrue`, `UsesFindValuesUnlessSkipped`, `InnermostHandler`, `LoweringVerifiesUnlessDead`, `ArgumentsCurrent`, `ImplementsSource` | 6 530 functions with the statements of each of the four languages (379 696): two compound statements inside one another, lists of up to three statements with every kind of jump and store, every answer of every condition, every failure; and 2 354 functions in which two of if, select, conditional expression, try and loop follow one another, so that what the first merged is read, stored or merged again by the second. What a jump, a merge or a handler goes wrong about is the pair of constructs it crosses, inside or behind one another. `ArgumentsCurrent` speaks of an argument unless its variable is `outdated` on the path executed: stored by an earlier iteration of the loop whose body is executed (the body is lowered with the versions of before), by the try whose handler runs, by a for loop that was left, or by a range loop itself. It is a condition on the execution and not on the program: the same variable counts again in the first iteration, when the try did not fail, and once it is stored again. Without any one of the four parts of the exemption the property is violated. |
| function_order | `RecursiveExact`, `FactsReady`, `UsesDeclared`, `UnitComplete` | Every call graph of three functions and a family of four, with calls from the module's own statements (65 533): components of every size, edges into finished and into open ones. |
| output_assignment | `Precise`, `Exact`, `ImplementsPaths`, `VerdictIsExact`, `EveryTableJudged` | Two blocks with all handler maps (self-handling and mutual included) and two outputs, one of them a parameter; three blocks with loops, doubled edges, handlers in loops; for the two-block programs the exact table and every table with one cell changed are verified (141 907). A cell has four values and a block needs at most two re-visits per output: three blocks show every order of waking, two outputs the flags left over from one to the next. |
| memory_dependence | `AnswersTrue`, `FixedPoint`, `LoopsCut`, `MarksCloseLoops`, `NoDependenceLostIfCertain`, `OrderKept`, `Terminates` | Every graph on three blocks and a family on four; functions with nested, crossing, irreducible and self loops, with and without handlers; two accesses with every pair of some 80 regions, sizes of four bits and an enumeration limit of two, so that overflow, residues and the limit all decide comparisons (164 429). Executions have no bound on their length, because a record remembers only whether it has gone round a cycle. Two parameters and a global may be the same memory. |
| memory_lost_dependence | `NoDependenceLost` is violated | Three functions, see 6. |
| alias_effects | `SummariesClosed`, `NothingInvented`, `CallsMatchCallees`, `EscapesAgree`, `OverlapsReported`, `Terminates` | 337 programs: three functions, two of which call each other, in both orders of the calls, views, sections, a global, omitted arguments, external calls; and a rotation of three parameters (10 946). |
| optimized_execution | `NothingDangles`, `StaysVerified`, `SamePath`, `SameValues`, `PropagationComplete` | Eight graphs of 3 to 9 blocks with every choice of values passed on every edge; executions of up to `MaxSteps` = 7 blocks, enough to go round each loop twice and leave it (16 643). |
| constant_folding | `FoldingKeepsValues`, `FoldsAll`, `Completes` | 6 424 statements of up to three operators over 0, 1, 5, 6 and 7, a real, a truth value and a variable, with lazy operators and calls (114 156). `IntMax` = 15, `ExactMax` = 6: 7 is outside the exact range, and products of exact integers wrap into it, as products of 53-bit integers do in 64 bits. |
| folded_zero | `FoldingKeepsValues` is violated | The same statements where numbers have a negative zero, see 6. |
| control_value_joins | `VerdictExact`, `NormalizedAccepted`, `RepeatChangesNothing`, `Terminates` | Three arguments: all kinds of dependence cycles among them, blocks nothing reaches, slots fed only by a cycle, values without definition; seven contracts with a largest size of 9, so that strides overflow (41 045). |
| accepted_programs | `AcceptedProgramsRun` is violated | Seven programs, see 6; `tlc -continue` reports one violation for each. The property says of an accepted program that it is lowered to blocks the verifier takes, that its reads find values and that the blocks do what the statements mean. |
| actual_versions | `ArgumentsActual` is violated | Four programs, see 6, each of which refutes it alone: one for each part of the exemption of `ArgumentsCurrent`. |

`CHECK_DEADLOCK FALSE` is set where the algorithm really ends: when the worklist
is empty or the execution has returned there is no next step. `AliasEffect` and
`LoweredExecution` have an explicit last step instead.

**Bounds.** The bounds are the CONSTANTs of the `.cfg` files: `SizeMax` (largest
`std::size_t`), `EnumerationLimit` (4096 in `storage_region.cpp`, 2 here),
`IntMax` and `ExactMax` (the largest `std::int64_t` and 2^53 - 1), `MaxSteps`,
and the sets of programs. Nothing else is cut off: worklists, frontiers,
summaries and searches grow as they do in the code.

**Fairness.** All components are loops of a single thread that nothing
interrupts; `WF_vars(Next)` says only that a loop that can take its next
iteration does so. `ExecSpec` and `RunSpec` are fair to the compiler (`Analyse`,
`Lower`) and not to the execution of the compiled function, which may loop
forever. No liveness is claimed of anything but the compiler's loops.

**Comparison with the built compiler.** For each of the 1 920 Python and 1 080
Matlab programs of structured_programs a source text was generated and compiled:
in all 3 000 cases the compiler rejects the program, accepts it, or stops in its
verifier (MPF0006) exactly when the model does.

## 4. Proofs

Checked with TLAPS for all values of the constants that satisfy the named
assumptions (`ProgramsAssumption`, `ModulesAssumption`, `ReachAssumption`,
`BoundsAssumption`, `SizeAssumption`, `ExecutedAssumption`: the programs are well-formed as their producers guarantee;
`Reach` is closed under steps; the exact range is part of the machine integers).
TLC evaluates each assumption on the programs of the runs. The theorems about
`FeedbackEdges` need no assumption: they are about whatever graph of `Graphs`
satisfies `IsGraph`.

| Theorem | Says | Argument |
|---|---|---|
| `OutputAssignmentProofs!TypeCorrect` | table, queue and position have their types | inductive as it stands |
| `OutputAssignmentProofs!PreciseTable` | no cell ever holds a value no execution gives | `Precise` is not inductive: the row carried through a block is a copy. The invariant adds that the carried row, at instruction `ip`, is below what executions have there; a step of the analysis is then matched with a step of `ProgramFlow` under which `Reach` is closed. |
| `OutputAssignmentProofs!TableRefinesPaths` | the worklist implements `OutputPaths`: a table that only grows and stays below the executions | the row carried through a block is above what the table held at the points still to be overwritten, and rows there are above the row of the last visit (`ChainInv`), so overwriting only adds |
| `OutputAssignmentProofs!TableExact` | with an empty worklist every cell is exactly what executions give | `CoverInv`: a block neither queued nor in hand has handed all its rows on, and one in hand those before `ip`. The states covered by the table are then closed under steps, and `Reach` is the least such set. |
| `VerifiedAssignmentProofs!VerdictOfTable` | the verifier accepts a table exactly when it is the table of the executions, whatever table it is given | a path is seen exactly when it was queued, recorded values are realised; a seen path that is not queued or in hand has been walked, so the walked states are closed under steps; an output done stays done, a block whose flag is set is on the list of touched blocks, so that clearing those leaves no flag behind for the next output, whose flags do not disturb the cells of the one before |
| `FunctionOrderProofs!CalleesComeFirst` | a function is listed after every callee that does not lead back to it | the invariant ties frames to a path of calls: what is on the stack above a function is reached from it, so a callee still open leads back; a callee that is closed is listed |
| `FunctionOrderProofs!FactsAreReady` | the analyzer has the facts of every non-recursive callee | the order it follows is the listed one, by `CalleesComeFirst` |
| `FunctionOrderProofs!RecursiveFound` | a function is marked recursive exactly when it leads back to itself | `ComponentInv`: a low link is the number of an open function that its function leads to; everything open above a frame is reached from it, and a function left open has a low link below its own number; the low link of a frame is no higher than any of its segment of the stack and than any open function the segment has called. So when a frame is left with its own number the segment calls nothing below it: what is finished calls only what is finished, and the segment is a whole component. |
| `FunctionOrderProofs!UsesAreDeclared` | a unit that is not refused declares every function before its first use | `Reached` is closed under calls because a shortest chain visits no function twice (an induction on cardinality); with `RecursiveFound`, the recursion decided by components is the one decided by reachability, and the rest is `CalleesComeFirst` |
| `FeedbackEdgesProofs!TypeCorrect` | colours, stack and marks have their types | with the frames of the stack |
| `FeedbackEdgesProofs!CyclesCut` | every cycle of every graph crosses a marked edge | history variable `finished`: an unmarked edge leads to a block finished earlier. So a cycle has a first block to finish, and its outgoing edge is marked. The invariant ties colours to stack positions and followed edges to frames. |
| (`NothingCircular`) | in no set of blocks has every block an unmarked edge into the set | `CyclesCut` is the case of a cycle; the form with sets is what the executions need, which walk without an end |
| `FeedbackEdgesProofs!MarksAreCycles` | every marked edge closes a cycle | a block on the stack leads to every block above it, and an edge is marked when its target is on the stack; `LeadsTo` speaks of sets closed under successors, so that no path has to be built |
| `MemoryDependenceProofs!LoopsAreCut`, `MarksAreLoops` | the same two inside the analysis | the search is a conjunct of it, and no later step changes its variables |
| `MemoryDependenceProofs!QueueIsExact` | queue bits and work list agree, no duplicates | with the types of the worklist; the transfer of a block is never opened |
| `MemoryDependenceProofs!TableFromFixedPoint` | dependences are collected from a solution of the equations of all blocks and edges | a block not queued has the exit of its entry; an edge already followed has delivered its exit, but for the edges still to be followed of the block in hand |
| `MemoryDependenceProofs!AnswersAreTrue` | every answer of the region comparison is true of the elements, for every width of a size, every extent and every limit of enumeration | two progressions with a common element differ by a multiple of what divides both strides; of the bounded enumeration that it visits all of the shorter one; a linearized region meets another because every place within the root is the place of an element (`OffsetOnto`, an induction over the axes) |
| `MemoryDependenceProofs!DependencesAreFound` | where writes are certain, every dependence of every execution is in the table, marked when it goes round a cycle | `Tracked`: a record in which a dependence can start is stood for by an access of the frontier at hand, with its mark. It may lose its place only to an access that covers it: a full or identical write writes all its cells (`KillCovers`), which on a binding of parameters to memory is where `CommonSpot` is needed (accesses that touch the same memory are not called disjoint). Frontiers are handed on by the fixed point (`TableFromFixedPoint`); a read that is dropped meets no write. A cycled record has a marked access, because blocks passed over unmarked edges only form no cycle (`NothingCircular`). |
| `MemoryDependenceProofs!OrderIsKept` | also where a write that may not happen kills, a chain of dependences orders the two instructions | the same invariant, with its second half: a record that lost its place is followed by a later write that the table orders after it and that stands in its place. `OrderedAfter` has as many steps as there are instructions and is closed under further ones by cardinality (`OrderedClosed`). |
| `AliasEffectProofs!TypeCorrect` | summaries speak of existing functions and parameters; passes within the limit | a bound on `iteration` while propagating |
| `AliasEffectProofs!NoFactInvented` | flags are below every closed set, at every moment | one step per action, any closed set fixed |
| `AliasEffectProofs!FixedPointWhenSettled` | if a pass changed nothing the summaries are closed | while `changed` is false every call and argument already passed in this pass is closed |
| `AliasEffectProofs!ClosedWithinLimit` | short of the limit on passes, the published summaries are closed | below the limit the passes end only with one that changed nothing |
| `AliasEffectProofs!CallsMatchWithinLimit` | short of the limit, the published facts of a call are those of its callee, bound to its arguments | what a call has gathered is what the summaries held at its visit (`Gathered`); `Copied` and `Published` say how facts move from one table to the other |
| `AliasEffectProofs!EscapesMarked` | formals and storages agree on what escapes, the limit included | the storages marked are those of the flags, at every moment and for every view of a root |
| `AliasEffectProofs!OverlapsFound` | two arguments that can be the same memory are published as an overlap | what a storage may stand for through any number of calls has a root of a kind that `AliasBetween` does not call disjoint |
| `OptimizedExecutionProofs!ReferencesStayValid` | no reference to a removed block at any moment | frame facts on what the passes leave alone, terminators of kept blocks keep their shape, removed blocks had no handler |
| `OptimizedExecutionProofs!PathsAgree` | the optimized function is where the original is | a map from original blocks to where the cleanup leads their predecessors: identity on kept blocks, constant along removed ones |
| `OptimizedExecutionProofs!ValuesAgree` | the optimized function reads in each block the values the original reads | Copying: every replaced argument is one all of whose edges pass copies of one value, chains of copies go down in rank, and the end of a chain is defined above what it replaces (`Copied`). By dominance neither is assigned anew where the replaced one is still seen, so that they are equal in every run (`CopiesHold`). Rewriting: operands are renamed, and an edge and its target drop the same positions (`Rewritten`). Cleanup: a removed block had nothing left (`RemovedEmpty`), and an edge turned away leads to where nothing is passed (`TurnedAway`). |
| `OptimizedExecutionProofs!VerifiedAgain` | after each of the two passes the function is one the verifier accepts | Dominance: taking out a forwarder adds no way around a block that is kept, so that what dominates still does (`NoWayAround`). A use renamed to the end of its chain finds that end defined above what it replaces (`Copied`, `Grounded`). An edge and its target drop as many positions (`Formed`). Nothing replaced is named by the expression arena, because it has a storage. |
| `OptimizedExecutionProofs!NothingLeftToPropagate` | after copy propagation no argument with storage is passed one other value on all edges | `Awake`: a candidate queued is still ahead in the worklist, one that is neither queued nor replaced does not pass one value, and each is listed among the users of what its inputs stand for now, under whatever value they were passed first. The inventory has all arguments with storage. Removed blocks pass nothing to those that stay (`NothingPassed`), so that dropping their edges changes no answer. |
| `ConstantFoldingProofs!SumsAreExact` | the guards of the checked sum and difference test exactly whether the result is a machine integer | linear arithmetic; wrapping is the identity on what fits |
| `ConstantFoldingProofs!ProductsAreExact` | so do those of the checked product, for every width | a factor is above the quotient of a bound exactly when the product is above the bound (`AboveQuotient`), in four cases of signs |
| `ConstantFoldingProofs!OnePassFolds` | when the pass has ended nothing could be folded any more | `Visit`: the expressions being visited have increasing numbers, so that an operand neither visited nor being visited is the only kind left to wait for, and an expression is left after all its operands. What has been left is not foldable (`LeftFolded`): its operands change no more, but for being retired. |
| `ConstantFoldingProofs!PassNeverFails` | the elimination meets none of its three errors | a literal that replaces an operator cuts off literals only (`Origins`), and so, down from the first expression not reached, whatever cannot be reached is a literal; `Reached` is closed under operands (`ReachedClosed`), and an instruction takes the operands of its expression (`OperandsOf`) |
| `ConstantFoldingProofs!FoldedValues` | where numbers have no negative zero, what is left stands for the value it had | a replacement has the value of what it replaces (`ReplacementMeans`, from the two theorems on the arithmetic), and expressions equal but for operands of equal value have equal values, from the last expression down (`SameMeaning`). Both recursions, `Meaning` and `Reached`, are functions whose equations are first shown to have a solution (`MeaningSolves`, `GrowingHasSolution`). |

`TableExact` and `VerdictOfTable` suppose `LeastReach`: that `Reach` contains
nothing but what executions reach. `ReachAssumption` alone says that it is
closed, and with a larger set the table would be exact for no reason. In the run
`Reach` is computed by iterating the steps, and `ReachIsLeast` has TLC verify the
hypothesis on programs whose handlers form a cycle. `ClosedWithinLimit` and
`CallsMatchWithinLimit` suppose `WithinLimit`, that the passes ended before the
limit: at the limit the statements are false (section 6). `ParametersAssumption`
says that a function touches no parameter storage of another function: the
builder forgets its storages between two functions (`begin_function`).
The arenas of `ConstantFolding` have every expression before its operands,
because `lower_expression` takes its number first (`mir.cpp:1065`), and no
expression that neither a statement, an instruction nor another expression takes;
`FoldedValues` supposes that numbers have no negative zero, without which it is
false (section 6).
`ExecutedAssumption` takes the functions to execute from those that the verifier
accepts: every recorded region is valid (`mir_verifier.cpp:2984`) and, if known,
one of the root it is recorded with (the semantic analyzer builds it from the
extents of the root, `expression_analyzer.cpp:3185`); the variable of a loop is
assigned by the last instruction of a block with two successors. Of
`AnswersAreTrue` it is no hypothesis: a region may there be one that
`valid_storage_region` rejects.
`ValuesAgree`, `VerifiedAgain` and `NothingLeftToPropagate` take programs that
are `Verified` and `Built`. Besides what the verifier tests, no edge leads to the
entry and exception handlers have no block arguments, as both are blocks made for
the purpose (`mir.cpp:82`, `mir.cpp:558`); an argument that is the value of a lazy
expression has no storage; and a cycle of blocks that nothing enters holds no
definition, because the builder starts a block without predecessors, a root, for
code after a terminator (`ensure_open_block`, `mir.cpp:2267`). Without the last
condition `StaysVerified` would not follow from what the verifier tests: to its
dominators a block that no root leads to is dominated by every block, so an
argument may be used there by an instruction above the definition of the value
that replaces it, in one and the same block.

Not proved, only model-checked:

* all termination and liveness;
* the structured analyses and the lowering (`LoweredExecution`), whose facts
  need an induction over trees of statements that the prover cannot state;
* the control value joins (`VerdictExact`, `NormalizedAccepted`,
  `RepeatChangesNothing`). Nothing known puts them out of reach, but they have
  no proof yet. They need that joining in any order gives the join of the set of
  sources, that the component numbering of the verifier decreases along every
  edge, and that rewriting a slot leaves the facts of the others alone; the model
  also selects its inventories with `SelectSeq`, which the prover does not
  define, and a form without it makes the liveness run several times slower.

## 5. What the checks show

* The lowering of every pair of nested statements leads where the source says;
  where a program is not accepted wrongly, reads find values, handlers are the
  innermost ones and the verifier has nothing to object.
* The producers and their independent verifiers agree on all programs
  considered, and the verifiers reject each table or contract that is wrong.
* The queue discipline shared by four worklists (clear the bit on taking,
  enqueue on a change unless queued) loses no update and repeats no block.
* Recursion is decided twice, by two unrelated algorithms (components and
  reachability), and they agree wherever a translation unit depends on it. They
  start from one relation in the model, as in the code: both collect the calls of
  the same MIR statements, by different walks that are not modelled.
* Every definite answer of the region comparison is true, also where a product
  does not fit, where a stride is zero and beyond the enumeration limit.
* Folding computes nothing that one of the targets would compute differently,
  but for the sign of zero; one pass finds everything.
* Copy propagation followed by CFG cleanup preserves path and values through
  loops that swap arguments, irreducible loops, try regions and cycles of
  forwarders.
* Joins are a semilattice in effect: worklist order, components, a second
  normalization and a later change of strides do not alter a contract.

## 6. Findings

Each is a run that TLC refutes, and each was reproduced with the built compiler.

1. `memory_lost_dependence`: the handler edge carries the frontier of the *end*
   of a block, so a write that a later instruction of the block kills never
   reaches the handler, although the block may fail before that instruction; the
   write of a loop header kills earlier accesses on the exit edge too, although
   a loop without iterations writes nothing; and a callee's write on some path
   is treated as a certain one. A chain of dependences still orders the two
   accesses (`OrderKept`), but the direct dependence that
   `docs/COMPILER_PIPELINE.md` promises ("without losing dependences") is absent.
2. `accepted_programs`, a default that is not last: the lowering of a select
   stops at its default clause; clauses written after it are not generated,
   without a diagnostic.
3. `accepted_programs`, reads without a value: definite assignment takes the end
   of the body of a range loop over constants for the state after the loop, also
   when a break or continue leaves the body before; a return before a named
   result is assigned is not checked (`MPF2004`).
4. `accepted_programs`, rejected by the compiler's own verifier: statements
   behind a return, behind a loop only left by its else, or a try whose
   statements never go on make a block without predecessors that still passes
   versions on or counts as a predecessor of a handler. Dominance then fails,
   and a program for which a warning, or nothing, is due ends with MPF0006.
5. `folded_zero`: minus zero, and a product of zero and a negative literal, are
   folded to 0. In Matlab, whose numbers have a negative zero, `1/(-0)` changes
   its sign.
6. `actual_versions`: block arguments take versions of their variable that are
   not its last ones. The body of a loop is lowered with the versions of before
   the loop (`mir.cpp:723`, before the merge at its header in `:740`), a handler
   with those of before its try (`:591`), what follows a `for` loop with those of
   before it although its header was merged (`:550`), and a range loop stores
   without a value (`:1709`). `docs/ARCHITECTURE.md:117` and
   `docs/OUTPUT_SEMANTICS.md:35` say that joins use the values that really come
   in. Contracts are computed from these versions: a Matlab variable that grows
   in a loop gets a contract that fixes the size it had before the loop.
   Generated code loads the storages and is not affected.

Observed while modelling, and outside the runs: the limit on passes of the alias
analysis counts functions, not parameters (`alias_effect_analysis.cpp:513`).
Recursion that rotates many parameters is published before the fixed point, and
the verifier, a second run of the same analysis, agrees with it: with
`Rotation(22)` among the programs of `MCAliasEffect`, `SummariesClosed` is
violated.

## 7. Not modelled, and plan

Not modelled because the question is about text or tables and not about steps:
source manager, lexer, parsers, compiler catalogues, name analysis and the
expression rules of the semantic analyzer, dumps, source maps, emission,
run-time libraries, CLI. These are by far the most lines of the repository.

Not modelled inside the covered components: diagnostics (one verdict each);
expressions and calls in the structured programs, but for lazy conditions and
whether a variable is read; the local facts of a single instruction in the alias
analysis; reading a region from selectors; the type, call and expression rules
of the MIR verifier; shape canonicalization as a pass over the shape table (its
effect on strides is `Canonicalize`).

What would come next, in this order:

1. constant folding inside `OptimizedExecution`, so that one run covers the
   whole default pipeline on one program;
2. name analysis: binding over nested scopes, hoisting and captures;
3. the driver: stage order, limits between stages, what a failed stage leaves
   in the result;
4. proofs: that an empty worklist means a settled join.
