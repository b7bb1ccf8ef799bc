-------------------------- MODULE OutputAssignment --------------------------
(***************************************************************************)
(* The worklist of analyze_function (src/ir/output_assignment.cpp).  A     *)
(* cell is the set of values the output may have at a point: {} is the     *)
(* code's unreachable, the full set is path_dependent, and the join of two *)
(* cells, a bitwise or in the code, is their union.                        *)
(*                                                                         *)
(* One iteration of each loop is one step: taking a block from the queue,  *)
(* an instruction, the exit row, a successor edge.                         *)
(***************************************************************************)
EXTENDS ProgramFlow

CONSTANT Reach   \* Reach[p]: the states the executions of p go through

ASSUME ReachAssumption == \A p \in Programs : Closed(p, Reach[p])

(* Reach holds only the states that steps reach: no smaller set is closed  *)
(* under them.                                                             *)
IsLeast(p) == \A R \in SUBSET Reach[p] : Closed(p, R) => R = Reach[p]

LeastReach == \A p \in Programs : IsLeast(p)

VARIABLES
  program,  \* the function under analysis; never changes
  rows,     \* the table: point -> output -> cell
  pending,  \* the queue of blocks
  queued,   \* the blocks whose queued bit is set
  at,       \* the block being processed, or NoBlock between two blocks
  ip,       \* next instruction, then the exit row, then the successors
  current   \* the row carried through the block

vars == <<program, rows, pending, queued, at, ip, current>>

Cell == SUBSET Value

Row(p) == [p.outputs -> Cell]

Join(row, other) == [o \in DOMAIN row |-> row[o] \cup other[o]]

EntryRow(p) ==
  [o \in p.outputs |-> IF o \in p.argument THEN {"assigned"} ELSE {"unassigned"}]

Unreachable(p) == [o \in p.outputs |-> {}]

Init ==
  /\ program \in Programs
  /\ rows = [pt \in Points(program) |->
               IF pt = Entry(program.entry) THEN EntryRow(program) ELSE Unreachable(program)]
  /\ pending = <<program.entry>>
  /\ queued = {program.entry}
  /\ at = NoBlock
  /\ ip = 1
  /\ current = Unreachable(program)

Code == program.code[at]
Successors == program.next[at]

(* mutant: the target is queued whether its row changed or not.            *)
PropagateAlwaysWakes(t, row, target) ==
  /\ rows' = [t EXCEPT ![Entry(target)] = Join(t[Entry(target)], row)]
  /\ pending' = IF target \in queued THEN pending ELSE Append(pending, target)
  /\ queued' = queued \cup {target}

(* mutant: the row is copied, not joined.                                  *)
PropagateOverwrites(t, row, target) ==
  LET wake == row # t[Entry(target)] /\ target \notin queued
  IN  /\ rows' = [t EXCEPT ![Entry(target)] = row]
      /\ pending' = IF wake THEN Append(pending, target) ELSE pending
      /\ queued' = IF wake THEN queued \cup {target} ELSE queued

(* merge_row of row into the entry row of target, on the table t; the      *)
(* target is queued when that changed its row and it is not queued yet.    *)
Propagate(t, row, target) ==
  LET merged == Join(t[Entry(target)], row)
      wake == merged # t[Entry(target)] /\ target \notin queued
  IN  /\ rows' = [t EXCEPT ![Entry(target)] = merged]
      /\ pending' = IF wake THEN Append(pending, target) ELSE pending
      /\ queued' = IF wake THEN queued \cup {target} ELSE queued

(* The step at ip is done; the block is left when it was the last one.     *)
Advance ==
  /\ ip' = ip + 1
  /\ at' = IF ip > Len(Code) + Len(Successors) THEN NoBlock ELSE at

(* mutant: the queued bit is not reset.                                    *)
PopKeepsQueued ==
  /\ at = NoBlock
  /\ pending # <<>>
  /\ at' = Head(pending)
  /\ pending' = Tail(pending)
  /\ ip' = 1
  /\ current' = rows[Entry(Head(pending))]
  /\ UNCHANGED <<program, rows, queued>>

Pop ==
  /\ at = NoBlock
  /\ pending # <<>>
  /\ at' = Head(pending)
  /\ pending' = Tail(pending)
  /\ queued' = queued \ {Head(pending)}
  /\ ip' = 1
  /\ current' = rows[Entry(Head(pending))]
  /\ UNCHANGED <<program, rows>>

(* The carried row once the instruction at k has committed its write.      *)
RowAfter(k) ==
  [o \in program.outputs |-> IF o \in Code[k].writes THEN {"assigned"} ELSE current[o]]

(* mutant: the handler receives the row after the failing write.           *)
RowAtFailureCommitted(k) == RowAfter(k)

(* A failing instruction has not committed its binding write: what its     *)
(* handler receives is the carried row from before the instruction.        *)
RowAtFailure(k) == current

Instruction ==
  /\ at # NoBlock
  /\ ip \in DOMAIN Code
  /\ LET before == [rows EXCEPT ![Before(at, ip)] = current]
         thrown == [before EXCEPT ![Exception(at)] =
                      Join(before[Exception(at)], RowAtFailure(ip))]
     IN  IF CanFail(program, at, ip)
         THEN Propagate([thrown EXCEPT ![After(at, ip)] = RowAfter(ip)],
                        RowAtFailure(ip), program.handler[at])
         ELSE /\ rows' = [before EXCEPT ![After(at, ip)] = RowAfter(ip)]
              /\ UNCHANGED <<pending, queued>>
  /\ current' = RowAfter(ip)
  /\ Advance
  /\ UNCHANGED program

BlockExit ==
  /\ at # NoBlock
  /\ ip = Len(Code) + 1
  /\ rows' = [rows EXCEPT ![Exit(at)] = current]
  /\ Advance
  /\ UNCHANGED <<program, pending, queued, current>>

SuccessorEdge ==
  /\ at # NoBlock
  /\ ip > Len(Code) + 1
  /\ Propagate(rows, current, Successors[ip - Len(Code) - 1])
  /\ Advance
  /\ UNCHANGED <<program, current>>

Next == Pop \/ Instruction \/ BlockExit \/ SuccessorEdge

Spec == Init /\ [][Next]_vars

(* The analysis is a loop of one thread: while it can step, it steps.      *)
FairSpec == Spec /\ WF_vars(Next)

Done == at = NoBlock /\ pending = <<>>
-----------------------------------------------------------------------------

(* Every variable has its type, and the program counter fits the block.    *)
TypeOK ==
  /\ program \in Programs
  /\ rows \in [Points(program) -> Row(program)]
  /\ pending \in Seq(program.blocks)
  /\ queued \subseteq program.blocks
  /\ at \in program.blocks \cup {NoBlock}
  /\ ip \in Nat \ {0}
  /\ at # NoBlock => ip <= Len(Code) + 1 + Len(Successors)
  /\ current \in Row(program)

(* No cell holds a value that no execution gives the output there.  In     *)
(* particular a handler never counts the write of the instruction that     *)
(* failed, whatever blocks were visited, and re-visited, in which order.   *)
Precise ==
  \A pt \in Points(program) : \A o \in program.outputs :
    rows[pt][o] \subseteq Collected(program, Reach[program], pt, o)

(* When the queue is empty every value of every execution is in the table, *)
(* through loops, joins, and handlers that are themselves re-entered.      *)
Exact ==
  Done => \A pt \in Points(program) : \A o \in program.outputs :
            rows[pt][o] = Collected(program, Reach[program], pt, o)

(* The analysis halts on every program, cyclic and mutually handling       *)
(* blocks included.                                                        *)
Terminates == <>Done

(* The analysis implements the abstract promise.  In particular the rows   *)
(* of instructions, exits and exceptions, which are overwritten by copies  *)
(* and not joined, never lose what an earlier visit had found.             *)
Promise == INSTANCE OutputPaths

ImplementsPaths == Promise!PathSpec
=============================================================================
