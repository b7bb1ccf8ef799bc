----------------------- MODULE OutputAssignmentProofs -----------------------
(***************************************************************************)
(* Proofs about the output-assignment worklist, for every set of programs. *)
(***************************************************************************)
EXTENDS OutputAssignment, SequenceTheorems, TLAPS

(* The five kinds of points used by the worklist are points of the         *)
(* program, and distinct kinds are distinct points.                        *)
LEMMA PointKinds ==
  ASSUME NEW p \in Programs, NEW b \in p.blocks
  PROVE  /\ Entry(b) \in Points(p)
         /\ Exit(b) \in Points(p)
         /\ Exception(b) \in Points(p)
         /\ \A k \in DOMAIN p.code[b] :
              Before(b, k) \in Points(p) /\ After(b, k) \in Points(p)
  <1>1. /\ Entry(b) \in BlockPoints(p)
        /\ Exit(b) \in BlockPoints(p)
        /\ Exception(b) \in BlockPoints(p)
    BY DEF BlockPoints, Entry, Exit, Exception
  <1>2. ASSUME NEW k \in DOMAIN p.code[b]
        PROVE  Before(b, k) \in InstructionPoints(p) /\ After(b, k) \in InstructionPoints(p)
    BY DEF InstructionPoints, Before, After
  <1> QED
    BY <1>1, <1>2 DEF Points

(* A sequence of one element.                                              *)
LEMMA SingleSeq ==
  ASSUME NEW S, NEW x \in S
  PROVE  <<x>> \in Seq(S)
  <1>1. <<x>> \in [1..1 -> S]
    OBVIOUS
  <1> QED
    BY <1>1, SeqDef

(* Joining rows gives a row.                                               *)
LEMMA JoinType ==
  ASSUME NEW p, NEW row \in Row(p), NEW other \in Row(p)
  PROVE  /\ Join(row, other) \in Row(p)
         /\ \A o \in p.outputs : Join(row, other)[o] = row[o] \cup other[o]
  BY DEF Row, Cell, Join

(* Propagating the carried row keeps the table and the queue well typed.   *)
LEMMA PropagateType ==
  ASSUME TypeOK,
         NEW t \in [Points(program) -> Row(program)],
         NEW target \in program.blocks,
         Propagate(t, current, target)
  PROVE  /\ rows' \in [Points(program) -> Row(program)]
         /\ pending' \in Seq(program.blocks)
         /\ queued' \subseteq program.blocks
  <1> USE DEF TypeOK
  <1>1. Entry(target) \in Points(program)
    BY PointKinds
  <1>2. Join(t[Entry(target)], current) \in Row(program)
    BY <1>1, JoinType
  <1>3. rows' \in [Points(program) -> Row(program)]
    BY <1>1, <1>2 DEF Propagate
  <1>4. pending' \in {pending, Append(pending, target)}
        /\ queued' \in {queued, queued \cup {target}}
    BY DEF Propagate
  <1>5. Append(pending, target) \in Seq(program.blocks)
    OBVIOUS
  <1> QED
    BY <1>3, <1>4, <1>5

(* The rows written by one instruction, before they are propagated.        *)
LEMMA InstructionRows ==
  ASSUME TypeOK, at # NoBlock, NEW k \in DOMAIN Code,
         NEW row \in Row(program), NEW other \in Row(program), NEW third \in Row(program)
  PROVE  /\ [rows EXCEPT ![Before(at, k)] = row] \in [Points(program) -> Row(program)]
         /\ [[rows EXCEPT ![Before(at, k)] = row] EXCEPT ![After(at, k)] = other]
              \in [Points(program) -> Row(program)]
         /\ [[[rows EXCEPT ![Before(at, k)] = row] EXCEPT ![Exception(at)] = third]
               EXCEPT ![After(at, k)] = other]
              \in [Points(program) -> Row(program)]
  <1>1. at \in program.blocks /\ program \in Programs
    BY DEF TypeOK
  <1>2. /\ Before(at, k) \in Points(program)
        /\ After(at, k) \in Points(program)
        /\ Exception(at) \in Points(program)
    BY <1>1, PointKinds DEF Code
  <1> QED
    BY <1>2 DEF TypeOK

(* The row an instruction leaves behind when it commits.                   *)
LEMMA CommittedType ==
  ASSUME TypeOK, NEW w
  PROVE  [o \in program.outputs |-> IF o \in w THEN {"assigned"} ELSE current[o]]
           \in Row(program)
  BY DEF TypeOK, Row, Cell, Value

(* What the assumptions on programs say of the current block.              *)
LEMMA BlockFacts ==
  ASSUME TypeOK, at # NoBlock
  PROVE  /\ at \in program.blocks
         /\ Code \in Seq(Instructions(program.outputs))
         /\ Successors \in Seq(program.blocks)
         /\ program.handler[at] # NoBlock => program.handler[at] \in program.blocks
         /\ NoBlock \notin program.blocks
         /\ Len(Code) \in Nat /\ Len(Successors) \in Nat
         /\ DOMAIN Code = 1..Len(Code) /\ DOMAIN Successors = 1..Len(Successors)
  BY ProgramsAssumption DEF TypeOK, WellFormed, Code, Successors

(* Stepping within a block keeps the program counter in range.             *)
LEMMA AdvanceType ==
  ASSUME TypeOK, at # NoBlock, program' = program, Advance
  PROVE  /\ at' \in program'.blocks \cup {NoBlock}
         /\ ip' \in Nat \ {0}
         /\ at' # NoBlock => ip' <= Len(Code') + 1 + Len(Successors')
  <1>1. at \in program.blocks /\ Len(Code) \in Nat /\ Len(Successors) \in Nat
    BY BlockFacts
  <1>2. ip \in Nat \ {0}
    BY DEF TypeOK
  <1>3. at' # NoBlock => at' = at /\ ip <= Len(Code) + Len(Successors)
    BY <1>1, <1>2 DEF Advance
  <1>4. at' = at => Len(Code') = Len(Code) /\ Len(Successors') = Len(Successors)
    BY DEF Code, Successors
  <1>5. ip' = ip + 1 /\ at' \in {at, NoBlock}
    BY DEF Advance
  <1> QED
    BY <1>1, <1>2, <1>3, <1>4, <1>5

(* The type invariant is inductive.                                        *)
LEMMA InitType == Init => TypeOK
  <1> SUFFICES ASSUME Init PROVE TypeOK
    OBVIOUS
  <1>1. program \in Programs /\ WellFormed(program)
    BY ProgramsAssumption DEF Init
  <1>2. EntryRow(program) \in Row(program) /\ Unreachable(program) \in Row(program)
    BY DEF EntryRow, Unreachable, Row, Cell, Value
  <1>3. rows \in [Points(program) -> Row(program)]
    BY <1>2 DEF Init
  <1>4. pending = <<program.entry>> /\ queued = {program.entry}
    BY DEF Init
  <1>8. at = NoBlock /\ ip = 1
    BY DEF Init
  <1>5. program.entry \in program.blocks
    BY <1>1 DEF WellFormed
  <1>6. current \in Row(program)
    BY <1>2 DEF Init
  <1>7. <<program.entry>> \in Seq(program.blocks)
    BY <1>5, SingleSeq
  <1>9. pending \in Seq(program.blocks) /\ queued \subseteq program.blocks
    BY <1>4, <1>5, <1>7
  <1>10. at \in program.blocks \cup {NoBlock} /\ ip \in Nat \ {0} /\ ~(at # NoBlock)
    BY <1>8
  <1> QED
    BY <1>1, <1>3, <1>6, <1>9, <1>10 DEF TypeOK

LEMMA NextType == TypeOK /\ [Next]_vars => TypeOK'
  <1> SUFFICES ASSUME TypeOK, [Next]_vars PROVE TypeOK'
    OBVIOUS
  <1>1. CASE Pop
    <2>1. Head(pending) \in program.blocks /\ Tail(pending) \in Seq(program.blocks)
      BY <1>1 DEF Pop, TypeOK
    <2>2. Entry(Head(pending)) \in Points(program)
      BY <2>1, PointKinds DEF TypeOK
    <2>3. current' \in Row(program)
      BY <1>1, <2>2 DEF Pop, TypeOK
    <2>4. Len(Code)' \in Nat /\ Len(Successors)' \in Nat
      BY <1>1, <2>1, ProgramsAssumption DEF Pop, TypeOK, Code, Successors, WellFormed
    <2> QED
      BY <1>1, <2>1, <2>3, <2>4 DEF Pop, TypeOK
  <1>2. CASE Instruction
    <2>1. program' = program /\ at # NoBlock /\ ip \in DOMAIN Code
      BY <1>2 DEF Instruction, RowAfter, RowAtFailure, RowAfter, RowAtFailure
    <2>2. current' \in Row(program)
      BY <1>2, CommittedType DEF Instruction, RowAfter, RowAtFailure, RowAfter, RowAtFailure
    <2>3. /\ rows' \in [Points(program) -> Row(program)]
          /\ pending' \in Seq(program.blocks)
          /\ queued' \subseteq program.blocks
      <3> DEFINE before == [rows EXCEPT ![Before(at, ip)] = current]
                 thrown == [before EXCEPT ![Exception(at)] =
                              Join(before[Exception(at)], current)]
                 after == [thrown EXCEPT ![After(at, ip)] = current']
      <3>1. current \in Row(program) /\ before \in [Points(program) -> Row(program)]
        BY <2>1, <2>2, InstructionRows DEF TypeOK
      <3>2. Exception(at) \in Points(program)
        BY <2>1, PointKinds DEF TypeOK
      <3>3. Join(before[Exception(at)], current) \in Row(program)
        BY <3>1, <3>2, JoinType
      <3>4. CASE CanFail(program, at, ip)
        <4>1. Propagate(after, current, program.handler[at])
          BY <1>2, <3>4 DEF Instruction, RowAfter, RowAtFailure, RowAfter, RowAtFailure
        <4>2. after \in [Points(program) -> Row(program)]
          BY <2>1, <2>2, <3>1, <3>3, InstructionRows
        <4>3. program.handler[at] \in program.blocks
          BY <2>1, <3>4, BlockFacts DEF CanFail
        <4> HIDE DEF before, thrown, after
        <4> QED
          BY <4>1, <4>2, <4>3, PropagateType
      <3>5. CASE ~CanFail(program, at, ip)
        <4>1. rows' = [before EXCEPT ![After(at, ip)] = current']
          BY <1>2, <3>5 DEF Instruction, RowAfter, RowAtFailure, RowAfter, RowAtFailure
        <4>2. rows' \in [Points(program) -> Row(program)]
          BY <2>1, <2>2, <3>1, <4>1, InstructionRows
        <4> QED
          BY <1>2, <3>5, <4>2 DEF Instruction, RowAfter, RowAtFailure, TypeOK
      <3> QED
        BY <3>4, <3>5
    <2> QED
      BY <1>2, <2>1, <2>2, <2>3, AdvanceType DEF Instruction, RowAfter, RowAtFailure, TypeOK
  <1>3. CASE BlockExit
    <2>1. program' = program /\ at # NoBlock
      BY <1>3 DEF BlockExit
    <2>2. Exit(at) \in Points(program)
      BY <2>1, PointKinds DEF TypeOK
    <2>3. rows' \in [Points(program) -> Row(program)]
      BY <1>3, <2>2 DEF BlockExit, TypeOK
    <2>4. UNCHANGED <<pending, queued, current>> /\ Advance
      BY <1>3 DEF BlockExit
    <2> QED
      BY <2>1, <2>3, <2>4, AdvanceType DEF TypeOK
  <1>4. CASE SuccessorEdge
    <2>1. program' = program /\ at # NoBlock /\ current' = current
      BY <1>4 DEF SuccessorEdge
    <2>2. ip - Len(Code) - 1 \in 1..Len(Successors)
      BY <1>4, <2>1, BlockFacts DEF SuccessorEdge, TypeOK
    <2>3. Successors[ip - Len(Code) - 1] \in program.blocks
      BY <2>1, <2>2, BlockFacts
    <2>4. /\ rows' \in [Points(program) -> Row(program)]
          /\ pending' \in Seq(program.blocks)
          /\ queued' \subseteq program.blocks
      BY <1>4, <2>3, PropagateType DEF SuccessorEdge, TypeOK
    <2>5. Advance
      BY <1>4 DEF SuccessorEdge
    <2> QED
      BY <2>1, <2>4, <2>5, AdvanceType DEF TypeOK
  <1>5. CASE UNCHANGED vars
    BY <1>5 DEF vars, TypeOK, Code, Successors
  <1> QED
    BY <1>1, <1>2, <1>3, <1>4, <1>5 DEF Next

(* The type invariant holds in every reachable state.                      *)
THEOREM TypeCorrect == Spec => []TypeOK
  BY InitType, NextType, PTL DEF Spec

-----------------------------------------------------------------------------
(* Precision.  The carried row must be realised too, by states that stand  *)
(* where the worklist stands, and a block is queued or processed only if   *)
(* some execution enters it: a write makes the output "assigned" without   *)
(* looking at the carried row, so this is what keeps it from being made up. *)

Realised(b, k, o) ==
  {ValueOf(o, s) : s \in {r \in Reach[program] : r.block = b /\ r.done = k}}

Reached(b) == \E s \in Reach[program] : s.block = b /\ s.done = 0

CommittedCount == IF ip <= Len(Code) THEN ip - 1 ELSE Len(Code)

CarriedRealised ==
  at # NoBlock =>
    /\ \E s \in Reach[program] : s.block = at /\ s.done = CommittedCount
    /\ \A o \in program.outputs : current[o] \subseteq Realised(at, CommittedCount, o)

QueueRealised == \A i \in DOMAIN pending : Reached(pending[i])

PreciseInv == TypeOK /\ Precise /\ CarriedRealised /\ QueueRealised

(* The table t is precise at point pt.                                     *)
PreciseAt(t, pt) ==
  \A o \in program.outputs : t[pt][o] \subseteq Collected(program, Reach[program], pt, o)

(* What the executions give an output at each kind of point.               *)
LEMMA CollectedAt ==
  ASSUME TypeOK, NEW b \in program.blocks, NEW o \in program.outputs
  PROVE  /\ Collected(program, Reach[program], Entry(b), o) = Realised(b, 0, o)
         /\ Collected(program, Reach[program], Exit(b), o)
              = Realised(b, Len(program.code[b]), o)
         /\ \A k \in DOMAIN program.code[b] :
              /\ Collected(program, Reach[program], Before(b, k), o) = Realised(b, k - 1, o)
              /\ Collected(program, Reach[program], After(b, k), o) = Realised(b, k, o)
              /\ CanFail(program, b, k) =>
                   Realised(b, k - 1, o) \subseteq
                     Collected(program, Reach[program], Exception(b), o)
  <1>1. Reach[program] \subseteq States(program) /\ WellFormed(program)
    BY ReachAssumption, ProgramsAssumption DEF TypeOK, Closed
  <1>2. \A s \in Reach[program] : s.block \in program.blocks /\ s.done \in Nat
    BY <1>1 DEF States
  <1>3. \A s \in Reach[program] :
          /\ StandsAt(program, s, Entry(b)) <=> s.block = b /\ s.done = 0
          /\ StandsAt(program, s, Exit(b)) <=> s.block = b /\ s.done = Len(program.code[b])
    BY <1>2 DEF StandsAt, Entry, Exit
  <1>4. ASSUME NEW k \in DOMAIN program.code[b], NEW s \in Reach[program]
        PROVE  /\ StandsAt(program, s, Before(b, k)) <=> s.block = b /\ s.done = k - 1
               /\ StandsAt(program, s, After(b, k)) <=> s.block = b /\ s.done = k
               /\ CanFail(program, b, k) /\ s.block = b /\ s.done = k - 1 =>
                    StandsAt(program, s, Exception(b))
    <2>1. k \in Nat \ {0} /\ s.done \in Nat
      BY <1>1, <1>2 DEF WellFormed
    <2> QED
      BY <2>1 DEF StandsAt, Before, After, Exception
  <1> QED
    BY <1>3, <1>4 DEF Collected, Realised

(* Propagating a row that executions realise at the entry of target.       *)
LEMMA PropagatePrecise ==
  ASSUME TypeOK, QueueRealised,
         NEW t \in [Points(program) -> Row(program)],
         \A pt \in Points(program) : PreciseAt(t, pt),
         NEW target \in program.blocks,
         Reached(target),
         \A o \in program.outputs : current[o] \subseteq Realised(target, 0, o),
         program' = program,
         Propagate(t, current, target)
  PROVE  Precise' /\ QueueRealised'
  <1>1. Entry(target) \in Points(program)
    BY PointKinds DEF TypeOK
  <1>2. \A o \in program.outputs :
          Join(t[Entry(target)], current)[o] \subseteq
            Collected(program, Reach[program], Entry(target), o)
    BY <1>1, JoinType, CollectedAt DEF TypeOK, PreciseAt
  <1>3. rows' = [t EXCEPT ![Entry(target)] = Join(t[Entry(target)], current)]
    BY DEF Propagate
  <1>4. ASSUME NEW pt \in Points(program), NEW o \in program.outputs
        PROVE  rows'[pt][o] \subseteq Collected(program, Reach[program], pt, o)
    BY <1>1, <1>2, <1>3 DEF PreciseAt
  <1>5. Precise'
    BY <1>4 DEF Precise
  <1>6. pending' \in {pending, Append(pending, target)}
    BY DEF Propagate
  <1>7. \A i \in DOMAIN pending' : Reached(pending'[i])
    BY <1>6 DEF QueueRealised, TypeOK
  <1>8. QueueRealised'
    BY <1>7 DEF QueueRealised, Reached
  <1> QED
    BY <1>5, <1>8

(* The states the executions go through are closed under every step.       *)
LEMMA ReachSteps ==
  ASSUME TypeOK, NEW b \in program.blocks, NEW s \in Reach[program], s.block = b
  PROVE  /\ s.assigned \subseteq program.outputs
         /\ s.done \in 0..Len(program.code[b])
         /\ s.done < Len(program.code[b]) => Committed(program, s) \in Reach[program]
         /\ CanFail(program, b, s.done + 1) =>
              Entered(program.handler[b], s) \in Reach[program]
         /\ s.done = Len(program.code[b]) =>
              \A j \in DOMAIN program.next[b] :
                Entered(program.next[b][j], s) \in Reach[program]
  <1>1. Closed(program, Reach[program]) /\ WellFormed(program)
    BY ReachAssumption, ProgramsAssumption DEF TypeOK
  <1>2. s \in States(program) /\ Steps(program, s) \subseteq Reach[program]
    BY <1>1 DEF Closed
  <1>3. s.assigned \subseteq program.outputs /\ s.done \in 0..Len(program.code[b])
    BY <1>1, <1>2 DEF States, WellFormed
  <1> QED
    BY <1>2, <1>3 DEF Steps

(* A state that enters another block gives its outputs the same values.    *)
LEMMA EnteredValue ==
  \A b, s, o : /\ ValueOf(o, Entered(b, s)) = ValueOf(o, s)
               /\ Entered(b, s).block = b
               /\ Entered(b, s).done = 0
  BY DEF ValueOf, Entered

(* Leaving block b in a way that takes every state with k committed        *)
(* instructions to target makes target reached, with the same values.      *)
LEMMA RealisedEntered ==
  ASSUME TypeOK, NEW b \in program.blocks, NEW k, NEW target \in program.blocks,
         \E s \in Reach[program] : s.block = b /\ s.done = k,
         \A s \in Reach[program] :
           s.block = b /\ s.done = k => Entered(target, s) \in Reach[program]
  PROVE  Reached(target) /\ \A o : Realised(b, k, o) \subseteq Realised(target, 0, o)
  <1>1. Reached(target)
    BY EnteredValue DEF Reached
  <1>2. ASSUME NEW o, NEW v \in Realised(b, k, o)
        PROVE  v \in Realised(target, 0, o)
    <2>1. PICK s \in Reach[program] : s.block = b /\ s.done = k /\ v = ValueOf(o, s)
      BY <1>2 DEF Realised
    <2>2. Entered(target, s) \in Reach[program]
      BY <2>1
    <2> QED
      BY <2>1, <2>2, EnteredValue DEF Realised
  <1> QED
    BY <1>1, <1>2

(* Committing instruction k of the current block realises the row it       *)
(* leaves behind.                                                          *)
LEMMA RealisedCommitted ==
  ASSUME TypeOK, at # NoBlock, NEW k \in DOMAIN Code,
         \E s \in Reach[program] : s.block = at /\ s.done = k - 1,
         NEW o \in program.outputs,
         current[o] \subseteq Realised(at, k - 1, o)
  PROVE  /\ \E s \in Reach[program] : s.block = at /\ s.done = k
         /\ (IF o \in Code[k].writes THEN {"assigned"} ELSE current[o])
              \subseteq Realised(at, k, o)
  <1>1. k \in 1..Len(Code) /\ at \in program.blocks /\ Code = program.code[at]
    BY BlockFacts DEF Code
  <1>2. ASSUME NEW s \in Reach[program], s.block = at, s.done = k - 1
        PROVE  /\ Committed(program, s) \in Reach[program]
               /\ Committed(program, s).block = at
               /\ Committed(program, s).done = k
               /\ o \in Code[k].writes => ValueOf(o, Committed(program, s)) = "assigned"
               /\ o \notin Code[k].writes =>
                    ValueOf(o, Committed(program, s)) = ValueOf(o, s)
    <2>1. s.done < Len(program.code[at]) /\ s.done + 1 = k
      BY <1>1, <1>2, BlockFacts
    <2>2. Committed(program, s) \in Reach[program]
      BY <1>1, <1>2, <2>1, ReachSteps
    <2> QED
      BY <1>1, <1>2, <2>1, <2>2 DEF Committed, ValueOf
  <1>3. \E s \in Reach[program] : s.block = at /\ s.done = k
    BY <1>2
  <1>4. o \in Code[k].writes => "assigned" \in Realised(at, k, o)
    BY <1>2 DEF Realised
  <1>5. ASSUME o \notin Code[k].writes, NEW v \in current[o]
        PROVE  v \in Realised(at, k, o)
    <2>1. PICK s \in Reach[program] : s.block = at /\ s.done = k - 1 /\ v = ValueOf(o, s)
      BY <1>5 DEF Realised
    <2> QED
      BY <1>2, <1>5, <2>1 DEF Realised
  <1> QED
    BY <1>3, <1>4, <1>5

LEMMA RowsType == TypeOK => rows \in [Points(program) -> Row(program)]
  BY DEF TypeOK

(* Storing a precise row keeps a table precise.                            *)
LEMMA StorePrecise ==
  ASSUME NEW t \in [Points(program) -> Row(program)],
         \A pt \in Points(program) : PreciseAt(t, pt),
         NEW place \in Points(program),
         NEW row \in Row(program),
         \A o \in program.outputs :
           row[o] \subseteq Collected(program, Reach[program], place, o)
  PROVE  /\ [t EXCEPT ![place] = row] \in [Points(program) -> Row(program)]
         /\ \A pt \in Points(program) : PreciseAt([t EXCEPT ![place] = row], pt)
  BY DEF PreciseAt

(* Precision is an invariant: by induction with the carried row and the    *)
(* queue.                                                                  *)
LEMMA PreciseInvInit == Init => PreciseInv
  <1> SUFFICES ASSUME Init PROVE PreciseInv
    OBVIOUS
  <1>1. TypeOK
    BY InitType
  <1>2. InitialState(program) \in Reach[program]
    BY <1>1, ReachAssumption DEF TypeOK, Closed
  <1>3. program.entry \in program.blocks
    BY <1>1, ProgramsAssumption DEF TypeOK, WellFormed
  <1>4. ASSUME NEW o \in program.outputs
        PROVE  EntryRow(program)[o] \subseteq Realised(program.entry, 0, o)
    <2>1. /\ InitialState(program).block = program.entry
          /\ InitialState(program).done = 0
          /\ EntryRow(program)[o] = {ValueOf(o, InitialState(program))}
      BY DEF InitialState, EntryRow, ValueOf
    <2> QED
      BY <1>2, <2>1 DEF Realised
  <1>5. ASSUME NEW pt \in Points(program), NEW o \in program.outputs
        PROVE  rows[pt][o] \subseteq Collected(program, Reach[program], pt, o)
    <2>1. CASE pt = Entry(program.entry)
      <3>1. rows[pt] = EntryRow(program)
        BY <2>1 DEF Init
      <3> QED
        BY <1>1, <1>3, <1>4, <2>1, <3>1, CollectedAt
    <2>2. CASE pt # Entry(program.entry)
      <3>1. rows[pt][o] = {}
        BY <2>2 DEF Init, Unreachable
      <3> QED
        BY <3>1
    <2> QED
      BY <2>1, <2>2
  <1>6. Reached(program.entry)
    BY <1>2 DEF Reached, InitialState
  <1>7. QueueRealised
    BY <1>6 DEF QueueRealised, Init
  <1>8. CarriedRealised
    BY DEF CarriedRealised, Init
  <1> QED
    BY <1>1, <1>5, <1>7, <1>8 DEF PreciseInv, Precise

LEMMA PreciseInvNext == PreciseInv /\ [Next]_vars => PreciseInv'
  <1> SUFFICES ASSUME PreciseInv, [Next]_vars PROVE PreciseInv'
    OBVIOUS
  <1> USE DEF PreciseInv
  <1>0. TypeOK' /\ TypeOK
    BY NextType
  <1>a. \A pt \in Points(program) : PreciseAt(rows, pt)
    BY DEF Precise, PreciseAt
  <1>1. CASE Pop
    <2>1. /\ program' = program /\ rows' = rows /\ at' = pending[1] /\ ip' = 1
          /\ current' = rows[Entry(pending[1])] /\ pending # <<>>
          /\ pending' = Tail(pending) /\ Reach[program'] = Reach[program]
      BY <1>1, <1>0 DEF Pop, TypeOK
    <2>2. Precise'
      BY <2>1 DEF Precise
    <2>3. \A i \in DOMAIN pending' : i + 1 \in DOMAIN pending /\ pending'[i] = pending[i + 1]
      BY <1>0, <2>1 DEF TypeOK
    <2>4. QueueRealised'
      BY <2>1, <2>3 DEF QueueRealised, Reached
    <2>5. 1 \in DOMAIN pending /\ pending[1] \in program.blocks
      BY <1>0, <2>1 DEF TypeOK
    <2>6. Len(Code') \in Nat /\ CommittedCount' = 0
      <3>1. program.code[pending[1]] \in Seq(Instructions(program.outputs))
        BY <1>0, <2>5, ProgramsAssumption DEF TypeOK, WellFormed
      <3> QED
        BY <2>1, <3>1 DEF CommittedCount, Code
    <2>7. Reached(pending[1])
      BY <2>5 DEF QueueRealised
    <2>8. Entry(pending[1]) \in Points(program)
      BY <1>0, <2>5, PointKinds DEF TypeOK
    <2>9. \A o \in program.outputs :
            rows[Entry(pending[1])][o] \subseteq Realised(pending[1], 0, o)
      BY <1>0, <2>5, <2>8, CollectedAt DEF Precise
    <2>10. CarriedRealised'
      BY <2>1, <2>6, <2>7, <2>9 DEF CarriedRealised, Reached, Realised
    <2> QED
      BY <1>0, <2>2, <2>4, <2>10
  <1>2. CASE Instruction
    <2> DEFINE before == [rows EXCEPT ![Before(at, ip)] = current]
               thrown == [before EXCEPT ![Exception(at)] =
                            Join(before[Exception(at)], current)]
    <2>1. /\ program' = program /\ at # NoBlock /\ ip \in DOMAIN Code
          /\ Reach[program'] = Reach[program]
      BY <1>2 DEF Instruction, RowAfter, RowAtFailure, RowAfter, RowAtFailure
    <2>2. /\ at \in program.blocks /\ program \in Programs /\ current \in Row(program)
          /\ ip \in 1..Len(Code) /\ Len(Code) \in Nat /\ Len(Successors) \in Nat
      BY <1>0, <2>1, BlockFacts DEF TypeOK
    <2>3. /\ Before(at, ip) \in Points(program)
          /\ After(at, ip) \in Points(program)
          /\ Exception(at) \in Points(program)
      BY <2>1, <2>2, PointKinds DEF Code
    <2>4. CommittedCount = ip - 1
      BY <2>2 DEF CommittedCount
    <2>5. /\ \E s \in Reach[program] : s.block = at /\ s.done = ip - 1
          /\ \A o \in program.outputs : current[o] \subseteq Realised(at, ip - 1, o)
      BY <2>1, <2>4 DEF CarriedRealised
    <2>6. /\ before \in [Points(program) -> Row(program)]
          /\ \A pt \in Points(program) : PreciseAt(before, pt)
      <3>1. \A o \in program.outputs :
              current[o] \subseteq Collected(program, Reach[program], Before(at, ip), o)
        BY <1>0, <2>1, <2>2, <2>5, CollectedAt DEF Code
      <3> QED
        BY <1>0, <1>a, <2>2, <2>3, <3>1, StorePrecise DEF TypeOK
    <2>7. current' = [o \in program.outputs |->
                        IF o \in Code[ip].writes THEN {"assigned"} ELSE current[o]]
      BY <1>2 DEF Instruction, RowAfter, RowAtFailure, RowAfter, RowAtFailure
    <2>8. /\ current' \in Row(program)
          /\ \E s \in Reach[program] : s.block = at /\ s.done = ip
          /\ \A o \in program.outputs : current'[o] \subseteq Realised(at, ip, o)
      <3>1. \A o \in program.outputs : current'[o] \subseteq Realised(at, ip, o)
        BY <1>0, <2>1, <2>5, <2>7, RealisedCommitted
      <3>2. \E s \in Reach[program] : s.block = at /\ s.done = ip
        <4>1. PICK s \in Reach[program] : s.block = at /\ s.done = ip - 1
          BY <2>5
        <4>2. Committed(program, s) \in Reach[program]
          BY <1>0, <2>2, <4>1, ReachSteps DEF Code
        <4> QED
          BY <2>2, <4>1, <4>2 DEF Committed
      <3> QED
        BY <1>0, <2>1, <3>1, <3>2 DEF TypeOK
    <2>9. \A o \in program.outputs :
            current'[o] \subseteq Collected(program, Reach[program], After(at, ip), o)
      BY <1>0, <2>1, <2>2, <2>8, CollectedAt DEF Code
    <2>10. ASSUME CanFail(program, at, ip) PROVE Precise' /\ QueueRealised'
      <3> DEFINE after == [thrown EXCEPT ![After(at, ip)] = current']
                 target == program.handler[at]
      <3>1. Propagate(after, current, target)
        BY <1>2, <2>10 DEF Instruction, RowAfter, RowAtFailure, RowAfter, RowAtFailure
      <3>2. target \in program.blocks
        BY <1>0, <2>1, <2>10, BlockFacts DEF CanFail
      <3>3. Join(before[Exception(at)], current) \in Row(program)
        BY <2>2, <2>3, <2>6, JoinType
      <3>4. \A o \in program.outputs :
              Join(before[Exception(at)], current)[o] \subseteq
                Collected(program, Reach[program], Exception(at), o)
        <4>1. \A o \in program.outputs :
                Realised(at, ip - 1, o) \subseteq
                  Collected(program, Reach[program], Exception(at), o)
          BY <1>0, <2>1, <2>2, <2>10, CollectedAt DEF Code
        <4>2. \A o \in program.outputs :
                Join(before[Exception(at)], current)[o] =
                  before[Exception(at)][o] \cup current[o]
          BY <2>2, <2>3, <2>6, JoinType
        <4> QED
          BY <2>3, <2>5, <2>6, <4>1, <4>2 DEF PreciseAt
      <3>5. /\ thrown \in [Points(program) -> Row(program)]
            /\ \A pt \in Points(program) : PreciseAt(thrown, pt)
        BY <2>3, <2>6, <3>3, <3>4, StorePrecise
      <3>6. /\ after \in [Points(program) -> Row(program)]
            /\ \A pt \in Points(program) : PreciseAt(after, pt)
        BY <2>3, <2>8, <2>9, <3>5, StorePrecise
      <3>7. \A s \in Reach[program] :
              s.block = at /\ s.done = ip - 1 => Entered(target, s) \in Reach[program]
        BY <1>0, <2>2, <2>10, ReachSteps
      <3>8. Reached(target) /\ \A o : Realised(at, ip - 1, o) \subseteq Realised(target, 0, o)
        <4> HIDE DEF target
        <4> QED
          BY <1>0, <2>2, <2>5, <3>2, <3>7, RealisedEntered
      <3>9. \A o \in program.outputs : current[o] \subseteq Realised(target, 0, o)
        BY <2>5, <3>8
      <3> HIDE DEF after, target
      <3> QED
        BY <1>0, <2>1, <3>1, <3>2, <3>6, <3>8, <3>9, PropagatePrecise
    <2>11. ASSUME ~CanFail(program, at, ip) PROVE Precise' /\ QueueRealised'
      <3>1. rows' = [before EXCEPT ![After(at, ip)] = current'] /\ pending' = pending
        BY <1>2, <2>11 DEF Instruction, RowAfter, RowAtFailure, RowAfter, RowAtFailure
      <3>2. \A pt \in Points(program) : PreciseAt(rows', pt)
        BY <2>3, <2>6, <2>8, <2>9, <3>1, StorePrecise
      <3>3. Precise'
        BY <2>1, <3>2 DEF Precise, PreciseAt
      <3> QED
        BY <2>1, <3>1, <3>3 DEF QueueRealised, Reached
    <2>12. at' \in {at, NoBlock} /\ ip' = ip + 1
      BY <1>2 DEF Instruction, RowAfter, RowAtFailure, Advance
    <2>13. at' = at => CommittedCount' = ip
      BY <2>1, <2>2, <2>12 DEF CommittedCount, Code
    <2>14. CarriedRealised'
      BY <2>1, <2>8, <2>12, <2>13 DEF CarriedRealised, Realised
    <2> QED
      BY <1>0, <2>10, <2>11, <2>14
  <1>3. CASE BlockExit
    <2>1. /\ program' = program /\ at # NoBlock /\ ip = Len(Code) + 1
          /\ Reach[program'] = Reach[program] /\ UNCHANGED <<pending, queued, current>>
          /\ rows' = [rows EXCEPT ![Exit(at)] = current]
          /\ at' \in {at, NoBlock} /\ ip' = ip + 1
      BY <1>3 DEF BlockExit, Advance
    <2>2. at \in program.blocks /\ Len(Code) \in Nat /\ Code = program.code[at]
      BY <1>0, <2>1, BlockFacts DEF Code
    <2>3. CommittedCount = Len(Code) /\ (at' = at => CommittedCount' = Len(Code))
      BY <2>1, <2>2 DEF CommittedCount, Code
    <2>4. \A o \in program.outputs :
            current[o] \subseteq Collected(program, Reach[program], Exit(at), o)
      BY <1>0, <2>1, <2>2, <2>3, CollectedAt DEF CarriedRealised
    <2>5. \A pt \in Points(program) : PreciseAt(rows', pt)
      BY <1>0, <1>a, <2>1, <2>2, <2>4, PointKinds, StorePrecise DEF TypeOK
    <2>6. Precise'
      BY <2>1, <2>5 DEF Precise, PreciseAt
    <2>7. QueueRealised'
      BY <2>1 DEF QueueRealised, Reached
    <2>8. CarriedRealised'
      BY <2>1, <2>3 DEF CarriedRealised, Realised
    <2> QED
      BY <1>0, <2>6, <2>7, <2>8
  <1>4. CASE SuccessorEdge
    <2> DEFINE j == ip - Len(Code) - 1
               target == Successors[j]
    <2>1. /\ program' = program /\ at # NoBlock /\ ip > Len(Code) + 1
          /\ Reach[program'] = Reach[program] /\ current' = current
          /\ Propagate(rows, current, target)
          /\ at' \in {at, NoBlock} /\ ip' = ip + 1
      BY <1>4 DEF SuccessorEdge, Advance
    <2>2. /\ at \in program.blocks /\ Len(Code) \in Nat /\ Code = program.code[at]
          /\ Successors = program.next[at] /\ ip \in Nat
          /\ j \in DOMAIN Successors /\ target \in program.blocks
      <3>1. /\ at \in program.blocks /\ Len(Code) \in Nat /\ Len(Successors) \in Nat
            /\ DOMAIN Successors = 1..Len(Successors)
            /\ Successors \in Seq(program.blocks)
        BY <1>0, <2>1, BlockFacts
      <3>2. ip \in Nat /\ ip <= Len(Code) + 1 + Len(Successors)
        BY <1>0, <2>1 DEF TypeOK
      <3>3. j \in 1..Len(Successors)
        BY <2>1, <3>1, <3>2
      <3>4. target \in program.blocks
        BY <3>1, <3>3
      <3> QED
        BY <3>1, <3>2, <3>3, <3>4 DEF Code, Successors
    <2>3. CommittedCount = Len(Code) /\ (at' = at => CommittedCount' = Len(Code))
      BY <2>1, <2>2 DEF CommittedCount, Code
    <2>4. /\ \E s \in Reach[program] : s.block = at /\ s.done = Len(Code)
          /\ \A o \in program.outputs : current[o] \subseteq Realised(at, Len(Code), o)
      BY <2>1, <2>3 DEF CarriedRealised
    <2>5. \A s \in Reach[program] :
            s.block = at /\ s.done = Len(Code) => Entered(target, s) \in Reach[program]
      BY <1>0, <2>2, ReachSteps
    <2>6. Reached(target)
          /\ \A o : Realised(at, Len(Code), o) \subseteq Realised(target, 0, o)
      <3> HIDE DEF target, j
      <3> QED
        BY <1>0, <2>2, <2>4, <2>5, RealisedEntered
    <2>7. Precise' /\ QueueRealised'
      <3>1. \A o \in program.outputs : current[o] \subseteq Realised(target, 0, o)
        BY <2>4, <2>6
      <3> HIDE DEF target, j
      <3> QED
        BY <1>0, <1>a, <2>1, <2>2, <2>6, <3>1, RowsType, PropagatePrecise
    <2>8. CarriedRealised'
      BY <2>1, <2>3, <2>4 DEF CarriedRealised, Realised
    <2> QED
      BY <1>0, <2>7, <2>8
  <1>5. CASE UNCHANGED vars
    BY <1>0, <1>5 DEF vars, Precise, CarriedRealised, QueueRealised, Reached, Realised,
                      CommittedCount, Code
  <1> QED
    BY <1>1, <1>2, <1>3, <1>4, <1>5 DEF Next

(* In every reachable state every cell of the table holds only values that *)
(* some execution of the function gives the output at that point.          *)
THEOREM PreciseTable == Spec => []Precise
  <1>1. PreciseInv => Precise
    BY DEF PreciseInv
  <1> QED
    BY <1>1, PreciseInvInit, PreciseInvNext, PTL DEF Spec

-----------------------------------------------------------------------------
(* Growth and completeness.  The invariant says what each row was copied   *)
(* from, and what has been handed on from it.  A row is named by how many  *)
(* instructions of its block have committed.                               *)

Arrived(b, k) == IF k = 0 THEN Entry(b) ELSE After(b, k)

Length(b) == Len(program.code[b])

WrittenBy(b, k, o) == IF o \in program.code[b][k].writes THEN {"assigned"} ELSE rows[Before(b, k)][o]

Chained ==
  \A b \in program.blocks : \A o \in program.outputs :
    /\ \A k \in DOMAIN program.code[b] :
         /\ rows[Before(b, k)][o] \subseteq rows[Arrived(b, k - 1)][o]
         /\ rows[After(b, k)][o] \subseteq WrittenBy(b, k, o)
    /\ rows[Exit(b)][o] \subseteq rows[Arrived(b, Length(b))][o]

CarriedIsLast ==
  at # NoBlock =>
    current = rows[IF ip <= Len(Code) + 1 THEN Arrived(at, ip - 1) ELSE Exit(at)]

InstructionDone(b, k) ==
  \A o \in program.outputs :
    /\ rows[Arrived(b, k - 1)][o] \subseteq rows[Before(b, k)][o]
    /\ WrittenBy(b, k, o) \subseteq rows[After(b, k)][o]
    /\ CanFail(program, b, k) =>
         /\ rows[Before(b, k)][o] \subseteq rows[Exception(b)][o]
         /\ rows[Before(b, k)][o] \subseteq rows[Entry(program.handler[b])][o]

ExitDone(b) == \A o \in program.outputs : rows[Arrived(b, Length(b))][o] \subseteq rows[Exit(b)][o]

EdgeDone(b, j) == \A o \in program.outputs : rows[Exit(b)][o] \subseteq rows[Entry(program.next[b][j])][o]

Behind(b, step) == b = at => step < ip

BlockDone(b) ==
  /\ \A k \in DOMAIN program.code[b] : Behind(b, k) => InstructionDone(b, k)
  /\ Behind(b, Length(b) + 1) => ExitDone(b)
  /\ \A j \in DOMAIN program.next[b] : Behind(b, Length(b) + 1 + j) => EdgeDone(b, j)

Untouched(b) ==
  /\ b # at
  /\ \A o \in program.outputs : \A k \in 0 .. Length(b) : rows[Arrived(b, k)][o] = {}

NothingMissed == \A b \in program.blocks \ queued : Untouched(b) \/ BlockDone(b)

QueuedArePending == queued \subseteq {pending[i] : i \in DOMAIN pending}

StartKept == \A o \in program.outputs : EntryRow(program)[o] \subseteq rows[Entry(program.entry)][o]

-----------------------------------------------------------------------------
(* What a step does to the cells.                                          *)

(* Points of different kinds, blocks or positions are different.           *)
LEMMA PointsDiffer ==
  \A b, c, j, k :
    /\ Entry(b) # Exit(c) /\ Entry(b) # Exception(c) /\ Entry(b) # Before(c, k)
    /\ Entry(b) # After(c, k) /\ Exit(b) # Exception(c) /\ Exit(b) # Before(c, k)
    /\ Exit(b) # After(c, k) /\ Exception(b) # Before(c, k) /\ Exception(b) # After(c, k)
    /\ Before(b, j) # After(c, k)
    /\ Entry(b) = Entry(c) => b = c
    /\ Exit(b) = Exit(c) => b = c
    /\ Exception(b) = Exception(c) => b = c
    /\ Before(b, j) = Before(c, k) => b = c /\ j = k
    /\ After(b, j) = After(c, k) => b = c /\ j = k
  BY DEF Entry, Exit, Exception, Before, After

(* Propagating a row only adds to one entry; a block whose entry changes   *)
(* is in the queue afterwards.                                             *)
LEMMA PropagateCells ==
  ASSUME TypeOK, program' = program,
         NEW t \in [Points(program) -> Row(program)], NEW row \in Row(program),
         NEW target \in program.blocks, Propagate(t, row, target)
  PROVE  /\ \A pt \in Points(program) : pt # Entry(target) => rows'[pt] = t[pt]
         /\ \A o \in program.outputs : rows'[Entry(target)][o] = t[Entry(target)][o] \cup row[o]
         /\ queued \subseteq queued'
         /\ target \notin queued' => rows'[Entry(target)] = t[Entry(target)]
         /\ QueuedArePending => QueuedArePending'
  <1>1. Entry(target) \in Points(program)
    BY PointKinds DEF TypeOK
  <1>2. Join(t[Entry(target)], row) \in Row(program)
        /\ \A o \in program.outputs :
             Join(t[Entry(target)], row)[o] = t[Entry(target)][o] \cup row[o]
    BY <1>1, JoinType
  <1>3. rows' = [t EXCEPT ![Entry(target)] = Join(t[Entry(target)], row)]
    BY DEF Propagate
  <1>4. rows'[Entry(target)] = Join(t[Entry(target)], row)
        /\ \A pt \in Points(program) : pt # Entry(target) => rows'[pt] = t[pt]
    BY <1>1, <1>3
  <1>5. /\ queued \subseteq queued'
        /\ target \notin queued' => Join(t[Entry(target)], row) = t[Entry(target)]
    BY DEF Propagate
  <1>6. ASSUME QueuedArePending PROVE QueuedArePending'
    <2>1. \/ pending' = pending /\ queued' \subseteq queued
          \/ pending' = pending /\ queued' = queued \cup {target} /\ target \in queued
          \/ pending' = Append(pending, target) /\ queued' = queued \cup {target}
      BY DEF Propagate
    <2>2. /\ \A i \in DOMAIN pending :
               i \in DOMAIN Append(pending, target) /\ Append(pending, target)[i] = pending[i]
          /\ \E i \in DOMAIN Append(pending, target) : Append(pending, target)[i] = target
      <3>1. pending \in Seq(program.blocks) /\ target \in program.blocks
        BY DEF TypeOK
      <3> HIDE DEF TypeOK
      <3>2. Append(pending, target)[Len(pending) + 1] = target
            /\ Len(pending) + 1 \in DOMAIN Append(pending, target)
        BY <3>1
      <3>3. \A i \in DOMAIN pending :
               i \in DOMAIN Append(pending, target) /\ Append(pending, target)[i] = pending[i]
        BY <3>1
      <3> QED
        BY <3>2, <3>3
    <2>3. ASSUME NEW q \in queued' PROVE \E i \in DOMAIN pending' : pending'[i] = q
      <3>1. q \in queued => \E i \in DOMAIN pending : pending[i] = q
        BY <1>6 DEF QueuedArePending
      <3>2. CASE pending' = pending
        BY <2>1, <2>3, <3>1, <3>2
      <3>3. CASE pending' = Append(pending, target) /\ queued' = queued \cup {target}
        BY <2>2, <2>3, <3>1, <3>3
      <3> QED
        BY <2>1, <3>2, <3>3
    <2> QED
      BY <2>3 DEF QueuedArePending
  <1> QED
    BY <1>2, <1>4, <1>5, <1>6

(* The block being processed: its program counter, and where it goes.      *)
LEMMA StepFacts ==
  ASSUME TypeOK, Instruction \/ BlockExit \/ SuccessorEdge
  PROVE  /\ program' = program /\ program \in Programs
         /\ at \in program.blocks /\ at # NoBlock
         /\ ip \in Nat \ {0} /\ ip' = ip + 1
         /\ current \in Row(program)
         /\ Code = program.code[at] /\ Len(Code) = Length(at) /\ Length(at) \in Nat
         /\ DOMAIN program.code[at] = 1 .. Length(at)
         /\ Successors = program.next[at] /\ Len(Successors) \in Nat
         /\ DOMAIN program.next[at] = 1 .. Len(Successors)
         /\ at' \in {at, NoBlock}
         /\ at' = NoBlock => ip > Length(at) + Len(Successors)
  <1>1. /\ program' = program /\ at # NoBlock /\ Advance
    BY DEF Instruction, BlockExit, SuccessorEdge
  <1>2. /\ at \in program.blocks
        /\ Len(Code) \in Nat /\ Len(Successors) \in Nat
        /\ DOMAIN Code = 1..Len(Code) /\ DOMAIN Successors = 1..Len(Successors)
    BY <1>1, BlockFacts
  <1>3. ip' = ip + 1 /\ at' \in {at, NoBlock}
        /\ (at' = NoBlock => ip > Len(Code) + Len(Successors))
    BY <1>1 DEF Advance
  <1> QED
    BY <1>1, <1>2, <1>3 DEF TypeOK, Code, Successors, Length

(* An instruction writes the rows before and after it, and adds to its     *)
(* block's exception row and to the entry of the handler.                  *)
LEMMA InstructionCells ==
  ASSUME TypeOK, Instruction
  PROVE  /\ ip \in 1 .. Length(at)
         /\ rows'[Before(at, ip)] = current
         /\ rows'[After(at, ip)] = current'
         /\ \A o \in program.outputs :
              current'[o] = IF o \in program.code[at][ip].writes THEN {"assigned"} ELSE current[o]
         /\ \A b \in program.blocks : \A k \in DOMAIN program.code[b] :
              b # at \/ k # ip =>
                rows'[Before(b, k)] = rows[Before(b, k)] /\ rows'[After(b, k)] = rows[After(b, k)]
         /\ \A b \in program.blocks : rows'[Exit(b)] = rows[Exit(b)]
         /\ \A b \in program.blocks : \A o \in program.outputs :
              /\ rows[Entry(b)][o] \subseteq rows'[Entry(b)][o]
              /\ rows[Exception(b)][o] \subseteq rows'[Exception(b)][o]
         /\ CanFail(program, at, ip) => \A o \in program.outputs :
              /\ current[o] \subseteq rows'[Exception(at)][o]
              /\ current[o] \subseteq rows'[Entry(program.handler[at])][o]
         /\ queued \subseteq queued'
         /\ \A b \in program.blocks \ queued' : rows'[Entry(b)] = rows[Entry(b)]
         /\ QueuedArePending => QueuedArePending'
  <1> DEFINE before == [rows EXCEPT ![Before(at, ip)] = current]
             thrown == [before EXCEPT ![Exception(at)] =
                          Join(before[Exception(at)], current)]
             after == [thrown EXCEPT ![After(at, ip)] = RowAfter(ip)]
  <1>1. /\ at \in program.blocks /\ at # NoBlock /\ current \in Row(program)
        /\ Code = program.code[at] /\ program' = program /\ program \in Programs
        /\ ip \in DOMAIN program.code[at] /\ ip \in 1 .. Length(at)
    BY StepFacts DEF Instruction
  <1>2. /\ Before(at, ip) \in Points(program)
        /\ After(at, ip) \in Points(program)
        /\ Exception(at) \in Points(program)
    BY <1>1, PointKinds
  <1>3. RowAfter(ip) \in Row(program) /\ rows \in [Points(program) -> Row(program)]
    BY <1>1, CommittedType DEF RowAfter, TypeOK
  <1>4. before[Exception(at)] = rows[Exception(at)] /\ before[Exception(at)] \in Row(program)
    BY <1>2, <1>3, PointsDiffer
  <1>5. /\ Join(before[Exception(at)], current) \in Row(program)
        /\ \A o \in program.outputs : Join(before[Exception(at)], current)[o] =
             rows[Exception(at)][o] \cup current[o]
    BY <1>1, <1>4, JoinType
  <1>6. after \in [Points(program) -> Row(program)]
    BY <1>1, <1>2, <1>3, <1>5
  <1>7. /\ after[Before(at, ip)] = current
        /\ after[After(at, ip)] = RowAfter(ip)
        /\ after[Exception(at)] = Join(before[Exception(at)], current)
        /\ \A pt \in Points(program) :
             pt \notin {Before(at, ip), After(at, ip), Exception(at)} => after[pt] = rows[pt]
    BY <1>2, <1>3, PointsDiffer
  <1>8. current' = RowAfter(ip)
        /\ \A o \in program.outputs :
             current'[o] = IF o \in program.code[at][ip].writes THEN {"assigned"} ELSE current[o]
    BY <1>1 DEF Instruction, RowAfter
  <1>9. \A b \in program.blocks :
          /\ Entry(b) \in Points(program)
          /\ Exit(b) \in Points(program)
          /\ Exception(b) \in Points(program)
          /\ \A k \in DOMAIN program.code[b] :
               Before(b, k) \in Points(program) /\ After(b, k) \in Points(program)
    BY <1>1, PointKinds
  <1>10. CASE CanFail(program, at, ip)
    <2> DEFINE target == program.handler[at]
    <2>1. Propagate(after, current, target)
      BY <1>10 DEF Instruction, RowAtFailure
    <2>2. target \in program.blocks
      BY <1>1, <1>10, BlockFacts DEF CanFail
    <2>3. /\ \A pt \in Points(program) : pt # Entry(target) => rows'[pt] = after[pt]
          /\ \A o \in program.outputs :
               rows'[Entry(target)][o] = after[Entry(target)][o] \cup current[o]
          /\ queued \subseteq queued'
          /\ target \notin queued' => rows'[Entry(target)] = after[Entry(target)]
          /\ QueuedArePending => QueuedArePending'
      <3> HIDE DEF after, target
      <3> QED
        BY <1>1, <1>6, <2>1, <2>2, PropagateCells
    <2> HIDE DEF before, thrown, after, target
    <2>4. ASSUME NEW b \in program.blocks PROVE after[Entry(b)] = rows[Entry(b)]
      <3>1. Entry(b) \notin {Before(at, ip), After(at, ip), Exception(at)}
        BY PointsDiffer
      <3> QED
        BY <1>7, <1>9, <3>1
    <2>5. \A b \in program.blocks : \A o \in program.outputs :
            rows[Exception(b)][o] \subseteq after[Exception(b)][o]
      BY <1>5, <1>7, <1>9, PointsDiffer
    <2>10. rows'[Before(at, ip)] = current /\ rows'[After(at, ip)] = current'
      BY <1>2, <1>7, <1>8, <2>3, PointsDiffer
    <2>11. ASSUME NEW b \in program.blocks PROVE rows'[Exit(b)] = rows[Exit(b)]
      <3>1. Exit(b) \notin {Before(at, ip), After(at, ip), Exception(at), Entry(target)}
        BY PointsDiffer
      <3> QED
        BY <1>7, <1>9, <2>3, <3>1
    <2>12. ASSUME NEW b \in program.blocks, NEW k \in DOMAIN program.code[b], b # at \/ k # ip
           PROVE  rows'[Before(b, k)] = rows[Before(b, k)] /\ rows'[After(b, k)] = rows[After(b, k)]
      <3>1. /\ Before(b, k) \notin {Before(at, ip), After(at, ip), Exception(at), Entry(target)}
            /\ After(b, k) \notin {Before(at, ip), After(at, ip), Exception(at), Entry(target)}
        BY <2>12, PointsDiffer
      <3> QED
        BY <1>7, <1>9, <2>3, <3>1
    <2>7. \A b \in program.blocks : \A o \in program.outputs :
            /\ rows[Entry(b)][o] \subseteq rows'[Entry(b)][o]
            /\ rows[Exception(b)][o] \subseteq rows'[Exception(b)][o]
      BY <1>9, <2>3, <2>4, <2>5, PointsDiffer
    <2>8. \A o \in program.outputs :
            /\ current[o] \subseteq rows'[Exception(at)][o]
            /\ current[o] \subseteq rows'[Entry(program.handler[at])][o]
      BY <1>2, <1>5, <1>7, <2>3, PointsDiffer DEF target
    <2>9. \A b \in program.blocks \ queued' : rows'[Entry(b)] = rows[Entry(b)]
      BY <1>9, <2>3, <2>4, PointsDiffer
    <2> QED
      BY <1>1, <1>8, <2>3, <2>7, <2>8, <2>9, <2>10, <2>11, <2>12
  <1>11. CASE ~ CanFail(program, at, ip)
    <2>1. /\ rows' = [before EXCEPT ![After(at, ip)] = RowAfter(ip)]
          /\ UNCHANGED <<pending, queued>>
      BY <1>11 DEF Instruction
    <2>2. /\ rows'[Before(at, ip)] = current
          /\ rows'[After(at, ip)] = RowAfter(ip)
          /\ \A pt \in Points(program) :
               pt \notin {Before(at, ip), After(at, ip)} => rows'[pt] = rows[pt]
      BY <1>2, <1>3, <2>1, PointsDiffer
    <2>3. QueuedArePending => QueuedArePending'
      BY <2>1 DEF QueuedArePending
    <2> HIDE DEF before, thrown, after
    <2>4. /\ \A b \in program.blocks :
               rows'[Exit(b)] = rows[Exit(b)] /\ rows'[Entry(b)] = rows[Entry(b)]
               /\ rows'[Exception(b)] = rows[Exception(b)]
          /\ \A b \in program.blocks : \A k \in DOMAIN program.code[b] :
               b # at \/ k # ip =>
                 rows'[Before(b, k)] = rows[Before(b, k)] /\ rows'[After(b, k)] = rows[After(b, k)]
      BY <1>9, <2>2, PointsDiffer
    <2> QED
      BY <1>1, <1>8, <1>11, <2>1, <2>2, <2>3, <2>4
  <1> QED
    BY <1>10, <1>11

LEMMA ExitCells ==
  ASSUME TypeOK, BlockExit
  PROVE  /\ ip = Length(at) + 1 /\ current' = current /\ queued' = queued
         /\ rows'[Exit(at)] = current
         /\ \A pt \in Points(program) : pt # Exit(at) => rows'[pt] = rows[pt]
         /\ QueuedArePending => QueuedArePending'
  <1>1. at \in program.blocks /\ program \in Programs /\ Len(Code) = Length(at)
    BY StepFacts
  <1>2. Exit(at) \in Points(program)
    BY <1>1, PointKinds
  <1> QED
    BY <1>1, <1>2 DEF BlockExit, TypeOK, QueuedArePending

LEMMA EdgeCells ==
  ASSUME TypeOK, SuccessorEdge
  PROVE  LET j == ip - Length(at) - 1
             target == program.next[at][j]
         IN  /\ j \in DOMAIN program.next[at] /\ target \in program.blocks
             /\ current' = current
             /\ \A pt \in Points(program) : pt # Entry(target) => rows'[pt] = rows[pt]
             /\ \A o \in program.outputs :
                  rows'[Entry(target)][o] = rows[Entry(target)][o] \cup current[o]
             /\ queued \subseteq queued'
             /\ target \notin queued' => rows'[Entry(target)] = rows[Entry(target)]
             /\ QueuedArePending => QueuedArePending'
  <1> DEFINE j == ip - Length(at) - 1
             target == program.next[at][j]
  <1>1. /\ at \in program.blocks /\ at # NoBlock /\ program \in Programs
        /\ Len(Code) = Length(at) /\ Length(at) \in Nat
        /\ Successors = program.next[at] /\ Len(Successors) \in Nat
        /\ DOMAIN program.next[at] = 1 .. Len(Successors)
        /\ ip \in Nat /\ program' = program /\ current \in Row(program)
    BY StepFacts
  <1>2. ip > Len(Code) + 1 /\ ip <= Len(Code) + 1 + Len(Successors)
    BY <1>1 DEF SuccessorEdge, TypeOK
  <1>3. j \in DOMAIN program.next[at]
    BY <1>1, <1>2
  <1>4. target \in program.blocks
    BY <1>1, <1>3, BlockFacts
  <1>5. Propagate(rows, current, target) /\ current' = current
    BY <1>1 DEF SuccessorEdge
  <1>6. rows \in [Points(program) -> Row(program)]
    BY DEF TypeOK
  <1> HIDE DEF j, target
  <1>7. /\ \A pt \in Points(program) : pt # Entry(target) => rows'[pt] = rows[pt]
        /\ \A o \in program.outputs :
             rows'[Entry(target)][o] = rows[Entry(target)][o] \cup current[o]
        /\ queued \subseteq queued'
        /\ target \notin queued' => rows'[Entry(target)] = rows[Entry(target)]
        /\ QueuedArePending => QueuedArePending'
    BY <1>1, <1>4, <1>5, <1>6, PropagateCells
  <1> QED
    BY <1>3, <1>4, <1>5, <1>7 DEF j, target

(* Every point is one of the five kinds.                                   *)
LEMMA PointCases ==
  ASSUME NEW p, NEW pt \in Points(p)
  PROVE  \E b \in p.blocks :
           \/ pt = Entry(b) \/ pt = Exit(b) \/ pt = Exception(b)
           \/ \E k \in DOMAIN p.code[b] : pt = Before(b, k) \/ pt = After(b, k)
  BY DEF Points, BlockPoints, InstructionPoints, Entry, Exit, Exception, Before, After

-----------------------------------------------------------------------------
(* The table only grows.  The rows of instructions and exits are copies,   *)
(* but each is a copy of a row that the previous step made at least as     *)
(* large as the one it was copied from before.                             *)

ChainInv == Chained /\ CarriedIsLast

(* An unfilled table: what holds before the first step.                    *)
LEMMA InitCells ==
  ASSUME Init
  PROVE  /\ program \in Programs /\ WellFormed(program)
         /\ \A b \in program.blocks : \A o \in program.outputs :
              /\ rows[Exit(b)][o] = {}
              /\ b # program.entry => rows[Entry(b)][o] = {}
              /\ \A k \in DOMAIN program.code[b] :
                   rows[Before(b, k)][o] = {} /\ rows[After(b, k)][o] = {}
         /\ rows[Entry(program.entry)] = EntryRow(program)
  <1>1. program \in Programs /\ WellFormed(program)
    BY ProgramsAssumption DEF Init
  <1>2. program.entry \in program.blocks
    BY <1>1 DEF WellFormed
  <1>3. \A pt \in Points(program) :
          rows[pt] = IF pt = Entry(program.entry) THEN EntryRow(program) ELSE Unreachable(program)
    BY DEF Init
  <1>4. \A o \in program.outputs : Unreachable(program)[o] = {}
    BY DEF Unreachable
  <1>5. ASSUME NEW b \in program.blocks, NEW o \in program.outputs
        PROVE  /\ rows[Exit(b)][o] = {}
               /\ b # program.entry => rows[Entry(b)][o] = {}
               /\ \A k \in DOMAIN program.code[b] :
                    rows[Before(b, k)][o] = {} /\ rows[After(b, k)][o] = {}
    <2>1. \A pt \in Points(program) : pt # Entry(program.entry) => rows[pt][o] = {}
      BY <1>3, <1>4
    <2>2. /\ Exit(b) \in Points(program) /\ Entry(b) \in Points(program)
          /\ \A k \in DOMAIN program.code[b] :
               Before(b, k) \in Points(program) /\ After(b, k) \in Points(program)
      BY <1>1, PointKinds
    <2>3. /\ Exit(b) # Entry(program.entry)
          /\ b # program.entry => Entry(b) # Entry(program.entry)
          /\ \A k : Before(b, k) # Entry(program.entry) /\ After(b, k) # Entry(program.entry)
      BY PointsDiffer
    <2> QED
      BY <2>1, <2>2, <2>3
  <1>6. rows[Entry(program.entry)] = EntryRow(program)
    BY <1>1, <1>2, <1>3, PointKinds
  <1> QED
    BY <1>1, <1>5, <1>6

LEMMA ChainInit == Init => ChainInv
  <1> SUFFICES ASSUME Init PROVE ChainInv
    OBVIOUS
  <1>1. Chained
    BY InitCells DEF Chained, WrittenBy
  <1>2. CarriedIsLast
    BY DEF Init, CarriedIsLast
  <1> QED
    BY <1>1, <1>2 DEF ChainInv

(* Each step makes every cell at least as large as it was.                 *)
GrowsAt(pt) == \A o \in program.outputs : rows[pt][o] \subseteq rows'[pt][o]

LEMMA InstructionGrows ==
  ASSUME TypeOK, ChainInv, Instruction
  PROVE  \A pt \in Points(program) : GrowsAt(pt)
  <1>1. /\ at \in program.blocks /\ at # NoBlock /\ ip \in DOMAIN program.code[at]
        /\ ip \in 1 .. Length(at) /\ Len(Code) = Length(at) /\ Length(at) \in Nat
    BY StepFacts, InstructionCells
  <1>2. current = rows[Arrived(at, ip - 1)]
    BY <1>1 DEF ChainInv, CarriedIsLast
  <1>3. \A o \in program.outputs :
          /\ rows[Before(at, ip)][o] \subseteq current[o]
          /\ rows[After(at, ip)][o] \subseteq current'[o]
    BY <1>1, <1>2, InstructionCells DEF ChainInv, Chained, WrittenBy
  <1>4. ASSUME NEW b \in program.blocks PROVE GrowsAt(Entry(b)) /\ GrowsAt(Exception(b))
    BY InstructionCells DEF GrowsAt
  <1>5. ASSUME NEW b \in program.blocks PROVE GrowsAt(Exit(b))
    BY InstructionCells DEF GrowsAt
  <1>6. ASSUME NEW b \in program.blocks, NEW k \in DOMAIN program.code[b]
        PROVE  GrowsAt(Before(b, k)) /\ GrowsAt(After(b, k))
    BY <1>3, InstructionCells DEF GrowsAt
  <1> QED
    BY <1>4, <1>5, <1>6, PointCases

LEMMA ExitGrows ==
  ASSUME TypeOK, ChainInv, BlockExit
  PROVE  \A pt \in Points(program) : GrowsAt(pt)
  <1>1. /\ at \in program.blocks /\ at # NoBlock /\ ip = Length(at) + 1
        /\ Len(Code) = Length(at) /\ Length(at) \in Nat
    BY StepFacts, ExitCells
  <1>2. current = rows[Arrived(at, Length(at))]
    BY <1>1 DEF ChainInv, CarriedIsLast
  <1>3. \A o \in program.outputs : rows[Exit(at)][o] \subseteq current[o]
    BY <1>1, <1>2 DEF ChainInv, Chained
  <1> QED
    BY <1>3, ExitCells DEF GrowsAt

LEMMA EdgeGrows ==
  ASSUME TypeOK, SuccessorEdge
  PROVE  \A pt \in Points(program) : GrowsAt(pt)
  BY EdgeCells DEF GrowsAt

(* The chain of copies is kept: its source only grows, and its target is   *)
(* either left alone or copied again.                                      *)
LEMMA InstructionChain ==
  ASSUME TypeOK, ChainInv, Instruction
  PROVE  ChainInv'
  <1>1. /\ at \in program.blocks /\ at # NoBlock /\ ip \in DOMAIN program.code[at]
        /\ ip \in 1 .. Length(at) /\ Len(Code) = Length(at) /\ Length(at) \in Nat
        /\ program' = program /\ ip' = ip + 1 /\ at' \in {at, NoBlock} /\ program \in Programs
    BY StepFacts, InstructionCells
  <1>2. current = rows[Arrived(at, ip - 1)]
    BY <1>1 DEF ChainInv, CarriedIsLast
  <1>3. \A b \in program.blocks : /\ Length(b) \in Nat
                                  /\ DOMAIN program.code[b] = 1 .. Length(b)
    BY <1>1, ProgramsAssumption DEF WellFormed, Length
  <1>4. ASSUME NEW b \in program.blocks, NEW k \in 0 .. Length(b), NEW o \in program.outputs
        PROVE  rows[Arrived(b, k)][o] \subseteq rows'[Arrived(b, k)][o]
    <2>1. Arrived(b, k) \in Points(program)
      BY <1>1, <1>3, PointKinds DEF Arrived
    <2> QED
      BY <2>1, InstructionGrows DEF GrowsAt
  <1>5. ASSUME NEW b \in program.blocks, NEW k \in DOMAIN program.code[b], NEW o \in program.outputs
        PROVE  /\ rows'[Before(b, k)][o] \subseteq rows'[Arrived(b, k - 1)][o]
               /\ rows'[After(b, k)][o] \subseteq
                    IF o \in program.code[b][k].writes THEN {"assigned"} ELSE rows'[Before(b, k)][o]
    <2>1. k - 1 \in 0 .. Length(b)
      BY <1>3
    <2>2. CASE b = at /\ k = ip
      <3>1. rows'[Before(at, ip)] = current
            /\ rows'[After(at, ip)] = current'
            /\ current'[o] = IF o \in program.code[at][ip].writes THEN {"assigned"} ELSE current[o]
        BY InstructionCells
      <3> QED
        BY <1>2, <1>4, <2>1, <2>2, <3>1
    <2>3. CASE b # at \/ k # ip
      <3>1. /\ rows'[Before(b, k)] = rows[Before(b, k)]
            /\ rows'[After(b, k)] = rows[After(b, k)]
        BY <2>3, InstructionCells
      <3>2. /\ rows[Before(b, k)][o] \subseteq rows[Arrived(b, k - 1)][o]
            /\ rows[After(b, k)][o] \subseteq WrittenBy(b, k, o)
        BY DEF ChainInv, Chained
      <3> QED
        BY <1>4, <2>1, <3>1, <3>2 DEF WrittenBy
    <2> QED
      BY <2>2, <2>3
  <1>6. ASSUME NEW b \in program.blocks, NEW o \in program.outputs
        PROVE  rows'[Exit(b)][o] \subseteq rows'[Arrived(b, Length(b))][o]
    <2>1. rows'[Exit(b)] = rows[Exit(b)] /\ Length(b) \in 0 .. Length(b)
      BY <1>3, InstructionCells
    <2>2. rows[Exit(b)][o] \subseteq rows[Arrived(b, Length(b))][o]
      BY DEF ChainInv, Chained
    <2> QED
      BY <1>4, <2>1, <2>2
  <1>7. Chained'
    BY <1>1, <1>5, <1>6 DEF Chained, WrittenBy, Length
  <1>8. CarriedIsLast'
    <2>1. SUFFICES ASSUME at' = at PROVE current' = rows'[After(at, ip)]
                                         /\ ip' <= Len(Code') + 1 /\ Arrived(at, ip' - 1) = After(at, ip)
      BY <1>1 DEF CarriedIsLast, Arrived
    <2>2. Len(Code') = Length(at)
      BY <1>1, <2>1 DEF Code, Length
    <2>3. Arrived(at, ip' - 1) = After(at, ip)
      BY <1>1 DEF Arrived
    <2> QED
      BY <1>1, <2>2, <2>3, InstructionCells
  <1> QED
    BY <1>7, <1>8 DEF ChainInv

LEMMA ExitChain ==
  ASSUME TypeOK, ChainInv, BlockExit
  PROVE  ChainInv'
  <1>1. /\ at \in program.blocks /\ at # NoBlock /\ ip = Length(at) + 1
        /\ Len(Code) = Length(at) /\ Length(at) \in Nat
        /\ program' = program /\ ip' = ip + 1 /\ at' \in {at, NoBlock} /\ program \in Programs
        /\ current' = current /\ rows'[Exit(at)] = current
        /\ \A pt \in Points(program) : pt # Exit(at) => rows'[pt] = rows[pt]
    BY StepFacts, ExitCells
  <1>2. current = rows[Arrived(at, Length(at))]
    BY <1>1 DEF ChainInv, CarriedIsLast
  <1>3. ASSUME NEW b \in program.blocks
        PROVE  /\ Length(b) \in Nat /\ DOMAIN program.code[b] = 1 .. Length(b)
               /\ \A k \in 0 .. Length(b) : rows'[Arrived(b, k)] = rows[Arrived(b, k)]
               /\ \A k \in DOMAIN program.code[b] : rows'[Before(b, k)] = rows[Before(b, k)]
                                                    /\ rows'[After(b, k)] = rows[After(b, k)]
               /\ b # at => rows'[Exit(b)] = rows[Exit(b)]
    <2>1. Length(b) \in Nat /\ DOMAIN program.code[b] = 1 .. Length(b)
      BY <1>1, ProgramsAssumption DEF WellFormed, Length
    <2>2. /\ Exit(b) \in Points(program) /\ Entry(b) \in Points(program)
          /\ \A k \in DOMAIN program.code[b] :
               Before(b, k) \in Points(program) /\ After(b, k) \in Points(program)
      BY <1>1, PointKinds
    <2>3. /\ Entry(b) # Exit(at) /\ (b # at => Exit(b) # Exit(at))
          /\ \A k : Before(b, k) # Exit(at) /\ After(b, k) # Exit(at)
      BY PointsDiffer
    <2>4. /\ \A k \in DOMAIN program.code[b] : rows'[Before(b, k)] = rows[Before(b, k)]
                                               /\ rows'[After(b, k)] = rows[After(b, k)]
          /\ rows'[Entry(b)] = rows[Entry(b)]
          /\ b # at => rows'[Exit(b)] = rows[Exit(b)]
      BY <1>1, <2>2, <2>3
    <2> QED
      BY <2>1, <2>4 DEF Arrived
  <1>4. ASSUME NEW b \in program.blocks, NEW k \in DOMAIN program.code[b], NEW o \in program.outputs
        PROVE  /\ rows'[Before(b, k)][o] \subseteq rows'[Arrived(b, k - 1)][o]
               /\ rows'[After(b, k)][o] \subseteq
                    IF o \in program.code[b][k].writes THEN {"assigned"} ELSE rows'[Before(b, k)][o]
    <2>1. k - 1 \in 0 .. Length(b)
      BY <1>3
    <2> QED
      BY <1>3, <2>1 DEF ChainInv, Chained, WrittenBy
  <1>5. ASSUME NEW b \in program.blocks, NEW o \in program.outputs
        PROVE  rows'[Exit(b)][o] \subseteq rows'[Arrived(b, Length(b))][o]
    <2>1. Length(b) \in 0 .. Length(b)
      BY <1>3
    <2>2. rows[Exit(b)][o] \subseteq rows[Arrived(b, Length(b))][o]
      BY DEF ChainInv, Chained
    <2>3. rows'[Arrived(b, Length(b))] = rows[Arrived(b, Length(b))]
      BY <1>3, <2>1
    <2>4. CASE b = at
      BY <1>1, <1>2, <2>3, <2>4
    <2>5. CASE b # at
      BY <1>3, <2>2, <2>3, <2>5
    <2> QED
      BY <2>4, <2>5
  <1>6. Chained'
    BY <1>1, <1>4, <1>5 DEF Chained, WrittenBy, Length
  <1>7. CarriedIsLast'
    <2>1. SUFFICES ASSUME at' = at
                   PROVE  current' = rows'[Exit(at)] /\ ~ (ip' <= Len(Code') + 1)
      BY <1>1 DEF CarriedIsLast
    <2>2. Len(Code') = Length(at)
      BY <1>1, <2>1 DEF Code, Length
    <2> QED
      BY <1>1, <2>2
  <1> QED
    BY <1>6, <1>7 DEF ChainInv

LEMMA EdgeChain ==
  ASSUME TypeOK, ChainInv, SuccessorEdge
  PROVE  ChainInv'
  <1> DEFINE target == program.next[at][ip - Length(at) - 1]
  <1>1. /\ at \in program.blocks /\ at # NoBlock /\ ip \in Nat
        /\ Len(Code) = Length(at) /\ Length(at) \in Nat
        /\ program' = program /\ ip' = ip + 1 /\ at' \in {at, NoBlock} /\ program \in Programs
        /\ current' = current /\ target \in program.blocks
        /\ \A pt \in Points(program) : pt # Entry(target) => rows'[pt] = rows[pt]
    BY StepFacts, EdgeCells
  <1>2. ip > Length(at) + 1
    BY <1>1 DEF SuccessorEdge
  <1>3. current = rows[Exit(at)]
    BY <1>1, <1>2 DEF ChainInv, CarriedIsLast
  <1> HIDE DEF target
  <1>4. ASSUME NEW b \in program.blocks
        PROVE  /\ Length(b) \in Nat /\ DOMAIN program.code[b] = 1 .. Length(b)
               /\ \A k \in DOMAIN program.code[b] : rows'[Before(b, k)] = rows[Before(b, k)]
                                                    /\ rows'[After(b, k)] = rows[After(b, k)]
               /\ rows'[Exit(b)] = rows[Exit(b)]
    <2>1. Length(b) \in Nat /\ DOMAIN program.code[b] = 1 .. Length(b)
      BY <1>1, ProgramsAssumption DEF WellFormed, Length
    <2>2. /\ Exit(b) \in Points(program)
          /\ \A k \in DOMAIN program.code[b] :
               Before(b, k) \in Points(program) /\ After(b, k) \in Points(program)
      BY <1>1, PointKinds
    <2>3. /\ Exit(b) # Entry(target)
          /\ \A k : Before(b, k) # Entry(target) /\ After(b, k) # Entry(target)
      BY PointsDiffer
    <2> QED
      BY <1>1, <2>1, <2>2, <2>3
  <1>5. ASSUME NEW b \in program.blocks, NEW k \in 0 .. Length(b), NEW o \in program.outputs
        PROVE  rows[Arrived(b, k)][o] \subseteq rows'[Arrived(b, k)][o]
    <2>1. Arrived(b, k) \in Points(program)
      BY <1>1, <1>4, PointKinds DEF Arrived
    <2> QED
      BY <2>1, EdgeGrows DEF GrowsAt
  <1>6. ASSUME NEW b \in program.blocks, NEW k \in DOMAIN program.code[b], NEW o \in program.outputs
        PROVE  /\ rows'[Before(b, k)][o] \subseteq rows'[Arrived(b, k - 1)][o]
               /\ rows'[After(b, k)][o] \subseteq
                    IF o \in program.code[b][k].writes THEN {"assigned"} ELSE rows'[Before(b, k)][o]
    <2>1. k - 1 \in 0 .. Length(b)
      BY <1>4
    <2>2. /\ rows[Before(b, k)][o] \subseteq rows[Arrived(b, k - 1)][o]
          /\ rows[After(b, k)][o] \subseteq WrittenBy(b, k, o)
      BY DEF ChainInv, Chained
    <2> QED
      BY <1>4, <1>5, <2>1, <2>2 DEF WrittenBy
  <1>7. ASSUME NEW b \in program.blocks, NEW o \in program.outputs
        PROVE  rows'[Exit(b)][o] \subseteq rows'[Arrived(b, Length(b))][o]
    <2>1. Length(b) \in 0 .. Length(b)
      BY <1>4
    <2>2. rows[Exit(b)][o] \subseteq rows[Arrived(b, Length(b))][o]
      BY DEF ChainInv, Chained
    <2> QED
      BY <1>4, <1>5, <2>1, <2>2
  <1>8. Chained'
    BY <1>1, <1>6, <1>7 DEF Chained, WrittenBy, Length
  <1>9. CarriedIsLast'
    <2>1. SUFFICES ASSUME at' = at
                   PROVE  current' = rows'[Exit(at)] /\ ~ (ip' <= Len(Code') + 1)
      BY <1>1 DEF CarriedIsLast
    <2>2. Len(Code') = Length(at)
      BY <1>1, <2>1 DEF Code, Length
    <2> QED
      BY <1>1, <1>2, <1>3, <1>4, <2>2
  <1> QED
    BY <1>8, <1>9 DEF ChainInv

LEMMA PopFacts ==
  ASSUME TypeOK, Pop
  PROVE  /\ program' = program /\ rows' = rows /\ ip' = 1
         /\ at' = Head(pending) /\ at' \in program.blocks
         /\ pending # <<>> /\ pending' = Tail(pending) /\ queued' = queued \ {at'}
         /\ current' = rows[Entry(at')]
  BY DEF Pop, TypeOK

LEMMA PopChain ==
  ASSUME TypeOK, ChainInv, Pop
  PROVE  ChainInv'
  <1>1. /\ program' = program /\ rows' = rows /\ ip' = 1
        /\ at' \in program.blocks /\ current' = rows[Entry(at')] /\ program \in Programs
    BY PopFacts DEF TypeOK
  <1>2. Chained'
    BY <1>1 DEF ChainInv, Chained, Arrived, WrittenBy, Length
  <1>3. Len(Code') \in Nat
    BY <1>1, ProgramsAssumption DEF WellFormed, Code
  <1>4. CarriedIsLast'
    BY <1>1, <1>3 DEF CarriedIsLast, Arrived
  <1> QED
    BY <1>2, <1>4 DEF ChainInv

LEMMA ChainNext == TypeOK /\ ChainInv /\ [Next]_vars => ChainInv'
  <1> SUFFICES ASSUME TypeOK, ChainInv, [Next]_vars PROVE ChainInv'
    OBVIOUS
  <1>1. CASE UNCHANGED vars
    BY <1>1 DEF vars, ChainInv, Chained, CarriedIsLast, Arrived, WrittenBy, Length, Code
  <1> QED
    BY <1>1, PopChain, InstructionChain, ExitChain, EdgeChain DEF Next

(* Each step adds to the table, or leaves it alone.                        *)
LEMMA TableGrows ==
  ASSUME TypeOK, ChainInv, [Next]_vars
  PROVE  program' = program /\ \A pt \in Points(program) : GrowsAt(pt)
  <1>1. CASE Pop \/ UNCHANGED vars
    BY <1>1, PopFacts DEF vars, GrowsAt
  <1>2. CASE Instruction \/ BlockExit \/ SuccessorEdge
    BY <1>2, InstructionGrows, ExitGrows, EdgeGrows, StepFacts
  <1> QED
    BY <1>1, <1>2 DEF Next

(* The promise means the same points, values and executions.               *)
LEMMA PromiseMeans ==
  /\ Promise!Value = Value
  /\ \A p : Promise!Points(p) = Points(p)
  /\ \A p, R, pt, o : Promise!Collected(p, R, pt, o) = Collected(p, R, pt, o)
  <1>1. Promise!Value = Value
    BY DEF Promise!Value, Value
  <1>2. ASSUME NEW p PROVE Promise!Points(p) = Points(p)
    BY DEF Promise!Points, Points, Promise!BlockPoints, BlockPoints,
           Promise!InstructionPoints, InstructionPoints
  <1>3. ASSUME NEW p, NEW R, NEW pt, NEW o
        PROVE  Promise!Collected(p, R, pt, o) = Collected(p, R, pt, o)
    <2>1. ASSUME NEW s PROVE Promise!StandsAt(p, s, pt) <=> StandsAt(p, s, pt)
      BY DEF Promise!StandsAt, StandsAt, Promise!CanFail, CanFail
    <2>2. ASSUME NEW s PROVE Promise!ValueOf(o, s) = ValueOf(o, s)
      BY DEF Promise!ValueOf, ValueOf
    <2> QED
      BY <2>1, <2>2 DEF Promise!Collected, Collected
  <1> QED
    BY <1>1, <1>2, <1>3

(* The analysis implements the abstract promise: a table that only grows   *)
(* and never holds a value that no execution gives the output there.       *)
THEOREM TableRefinesPaths == Spec => ImplementsPaths
  <1>1. ASSUME TypeOK, Precise
        PROVE  /\ program \in Programs /\ rows \in Promise!Table(program)
               /\ Promise!Below(program, rows, Promise!Promised(program))
    <2>1. program \in Programs
      BY <1>1 DEF TypeOK
    <2>2. Promise!Table(program) = [Points(program) -> Row(program)]
      BY PromiseMeans DEF Promise!Table, Row, Cell
    <2>3. rows \in Promise!Table(program)
      BY <1>1, <2>2 DEF TypeOK
    <2>4. ASSUME NEW pt \in Points(program), NEW o \in program.outputs
          PROVE  Promise!Promised(program)[pt][o] = Collected(program, Reach[program], pt, o)
      BY PromiseMeans DEF Promise!Promised
    <2>5. Promise!Below(program, rows, Promise!Promised(program))
      BY <1>1, <2>4, PromiseMeans DEF Precise, Promise!Below
    <2> QED
      BY <2>1, <2>3, <2>5
  <1>2. TypeOK /\ Precise /\ ChainInv /\ [Next]_vars /\ TypeOK' /\ Precise'
          => [Promise!Collect]_(Promise!pathVars)
    <2> SUFFICES ASSUME TypeOK, Precise, ChainInv, [Next]_vars, TypeOK', Precise'
                 PROVE  Promise!Collect
      OBVIOUS
    <2>1. program' = program /\ Promise!Below(program, rows, rows')
      <3>1. program' = program /\ \A pt \in Points(program) : GrowsAt(pt)
        BY TableGrows
      <3> QED
        BY <3>1, PromiseMeans DEF GrowsAt, Promise!Below
    <2>2. /\ rows' \in Promise!Table(program)
          /\ Promise!Below(program, rows', Promise!Promised(program))
      <3>1. Promise!Table(program) = [Points(program) -> Row(program)]
        BY PromiseMeans DEF Promise!Table, Row, Cell
      <3>2. rows' \in Promise!Table(program)
        BY <2>1, <3>1 DEF TypeOK
      <3>3. ASSUME NEW pt \in Points(program), NEW o \in program.outputs
            PROVE  Promise!Promised(program)[pt][o] = Collected(program, Reach[program], pt, o)
        BY PromiseMeans DEF Promise!Promised
      <3>4. Promise!Below(program, rows', Promise!Promised(program))
        BY <2>1, <3>3, PromiseMeans DEF Precise, Promise!Below
      <3> QED
        BY <3>2, <3>4
    <2> QED
      BY <2>1, <2>2 DEF Promise!Collect
  <1>3. Init /\ TypeOK /\ Precise => Promise!PathInit
    BY <1>1 DEF Promise!PathInit
  <1>4. Spec => []ChainInv
    BY TypeCorrect, ChainInit, ChainNext, PTL DEF Spec
  <1> QED
    BY <1>2, <1>3, <1>4, TypeCorrect, PreciseTable, PTL DEF Spec, ImplementsPaths, Promise!PathSpec

-----------------------------------------------------------------------------
(* Completeness.  Every block that is not queued has handed on all that    *)
(* its rows hold, up to the step the worklist stands at.                   *)
CoverInv == NothingMissed /\ QueuedArePending /\ StartKept

InBlock == Instruction \/ BlockExit \/ SuccessorEdge

LEMMA CodeDomain ==
  ASSUME TypeOK, NEW b \in program.blocks
  PROVE  /\ Length(b) \in Nat /\ DOMAIN program.code[b] = 1 .. Length(b)
         /\ Len(program.next[b]) \in Nat
         /\ DOMAIN program.next[b] = 1 .. Len(program.next[b])
         /\ b # NoBlock
  BY ProgramsAssumption DEF TypeOK, WellFormed, Length

(* The cells of a block that is not queued change only where the worklist  *)
(* stands.                                                                 *)
LEMMA SameCells ==
  ASSUME TypeOK, InBlock, NEW b \in program.blocks, b \notin queued'
  PROVE  /\ rows'[Entry(b)] = rows[Entry(b)]
         /\ \A k \in DOMAIN program.code[b] : b # at \/ k # ip =>
              rows'[Before(b, k)] = rows[Before(b, k)] /\ rows'[After(b, k)] = rows[After(b, k)]
         /\ b # at \/ ip # Length(at) + 1 => rows'[Exit(b)] = rows[Exit(b)]
  <1>1. CASE Instruction
    BY <1>1, InstructionCells
  <1>2. /\ Exit(b) \in Points(program) /\ Entry(b) \in Points(program)
        /\ \A k \in DOMAIN program.code[b] :
             Before(b, k) \in Points(program) /\ After(b, k) \in Points(program)
    BY PointKinds DEF TypeOK
  <1>3. CASE BlockExit
    <2>1. /\ Entry(b) # Exit(at) /\ (b # at => Exit(b) # Exit(at))
          /\ \A k : Before(b, k) # Exit(at) /\ After(b, k) # Exit(at)
      BY PointsDiffer
    <2> QED
      BY <1>2, <1>3, <2>1, ExitCells
  <1>4. CASE SuccessorEdge
    <2> DEFINE target == program.next[at][ip - Length(at) - 1]
    <2>1. /\ \A pt \in Points(program) : pt # Entry(target) => rows'[pt] = rows[pt]
          /\ target \notin queued' => rows'[Entry(target)] = rows[Entry(target)]
      BY <1>4, EdgeCells
    <2> HIDE DEF target
    <2>2. /\ Exit(b) # Entry(target) /\ (Entry(b) = Entry(target) => b = target)
          /\ \A k : Before(b, k) # Entry(target) /\ After(b, k) # Entry(target)
      BY PointsDiffer
    <2> QED
      BY <1>2, <2>1, <2>2
  <1> QED
    BY <1>1, <1>3, <1>4 DEF InBlock

LEMMA InBlockGrows ==
  ASSUME TypeOK, ChainInv, InBlock
  PROVE  program' = program /\ \A pt \in Points(program) : GrowsAt(pt)
  BY TableGrows DEF InBlock, Next

(* What a step has handed on stays handed on.                              *)
LEMMA InstructionStaysDone ==
  ASSUME TypeOK, ChainInv, InBlock, NEW b \in program.blocks, b \notin queued',
         NEW k \in DOMAIN program.code[b], b # at \/ k < ip, InstructionDone(b, k)
  PROVE  InstructionDone(b, k)'
  <1>1. program' = program /\ program \in Programs /\ \A pt \in Points(program) : GrowsAt(pt)
    BY InBlockGrows DEF TypeOK
  <1>2. k \in 1 .. Length(b) /\ Length(b) \in Nat /\ DOMAIN program.code[b] = 1 .. Length(b)
    BY CodeDomain
  <1>3. ip \in Nat
    BY DEF TypeOK
  <1>4. rows'[Before(b, k)] = rows[Before(b, k)] /\ rows'[After(b, k)] = rows[After(b, k)]
    BY <1>2, <1>3, SameCells
  <1>5. rows'[Arrived(b, k - 1)] = rows[Arrived(b, k - 1)]
    <2>1. CASE k - 1 = 0
      BY <2>1, SameCells DEF Arrived
    <2>2. CASE k - 1 # 0
      <3>1. k - 1 \in DOMAIN program.code[b] /\ (b # at \/ k - 1 # ip)
        BY <1>2, <1>3, <2>2
      <3> QED
        BY <2>2, <3>1, SameCells DEF Arrived
    <2> QED
      BY <2>1, <2>2
  <1>6. ASSUME NEW o \in program.outputs
        PROVE  /\ rows[Arrived(b, k - 1)][o] \subseteq rows[Before(b, k)][o]
               /\ WrittenBy(b, k, o) \subseteq rows[After(b, k)][o]
               /\ WrittenBy(b, k, o)' = WrittenBy(b, k, o)
    BY <1>1, <1>4 DEF InstructionDone, WrittenBy
  <1>7. ASSUME CanFail(program, b, k), NEW o \in program.outputs
        PROVE  /\ rows'[Before(b, k)][o] \subseteq rows'[Exception(b)][o]
               /\ rows'[Before(b, k)][o] \subseteq rows'[Entry(program.handler[b])][o]
    <2>1. program.handler[b] \in program.blocks
      BY <1>1, <1>7, ProgramsAssumption DEF CanFail, WellFormed
    <2>2. Exception(b) \in Points(program) /\ Entry(program.handler[b]) \in Points(program)
      BY <1>1, <2>1, PointKinds
    <2>3. /\ rows[Before(b, k)][o] \subseteq rows[Exception(b)][o]
          /\ rows[Before(b, k)][o] \subseteq rows[Entry(program.handler[b])][o]
      BY <1>7 DEF InstructionDone
    <2> QED
      BY <1>1, <1>4, <2>2, <2>3 DEF GrowsAt
  <1> QED
    BY <1>1, <1>4, <1>5, <1>6, <1>7 DEF InstructionDone, Arrived

LEMMA ExitStaysDone ==
  ASSUME TypeOK, ChainInv, InBlock, NEW b \in program.blocks, b \notin queued',
         b # at \/ Length(b) + 1 < ip, ExitDone(b)
  PROVE  ExitDone(b)'
  <1>1. program' = program
    BY InBlockGrows
  <1>2. Length(b) \in Nat /\ DOMAIN program.code[b] = 1 .. Length(b) /\ ip \in Nat
    BY CodeDomain DEF TypeOK
  <1>3. rows'[Exit(b)] = rows[Exit(b)]
    BY <1>2, SameCells
  <1>4. rows'[Arrived(b, Length(b))] = rows[Arrived(b, Length(b))]
    <2>1. CASE Length(b) = 0
      BY <2>1, SameCells DEF Arrived
    <2>2. CASE Length(b) # 0
      <3>1. Length(b) \in DOMAIN program.code[b] /\ (b # at \/ Length(b) # ip)
        BY <1>2, <2>2
      <3> QED
        BY <2>2, <3>1, SameCells DEF Arrived
    <2> QED
      BY <2>1, <2>2
  <1>5. Length(b)' = Length(b)
    BY <1>1 DEF Length
  <1> QED
    BY <1>1, <1>3, <1>4, <1>5 DEF ExitDone, Arrived

LEMMA EdgeStaysDone ==
  ASSUME TypeOK, ChainInv, InBlock, NEW b \in program.blocks, b \notin queued',
         NEW j \in DOMAIN program.next[b], b # at \/ Length(b) + 1 + j < ip, EdgeDone(b, j)
  PROVE  EdgeDone(b, j)'
  <1>1. program' = program /\ program \in Programs /\ \A pt \in Points(program) : GrowsAt(pt)
    BY InBlockGrows DEF TypeOK
  <1>2. Length(b) \in Nat /\ j \in Nat /\ ip \in Nat
    BY CodeDomain DEF TypeOK
  <1>3. rows'[Exit(b)] = rows[Exit(b)]
    BY <1>2, SameCells
  <1>4. program.next[b][j] \in program.blocks
    BY <1>1, ProgramsAssumption DEF WellFormed
  <1>5. Entry(program.next[b][j]) \in Points(program)
    BY <1>1, <1>4, PointKinds
  <1> QED
    BY <1>1, <1>3, <1>5 DEF EdgeDone, GrowsAt

(* The step just taken has been handed on, unless it queued its own block. *)
LEMMA InstructionGetsDone ==
  ASSUME TypeOK, ChainInv, InBlock, at \notin queued', NEW b, b = at, NEW k, k = ip, ip <= Length(at)
  PROVE  InstructionDone(b, k)'
  <1>1. /\ program' = program /\ at \in program.blocks /\ at # NoBlock
        /\ Length(at) \in Nat /\ ip \in Nat /\ Len(Code) = Length(at)
    BY StepFacts DEF InBlock
  <1>2. Instruction
    BY <1>1, ExitCells DEF InBlock, SuccessorEdge
  <1>3. current = rows[Arrived(b, k - 1)]
    BY <1>1 DEF ChainInv, CarriedIsLast
  <1>4. rows'[Arrived(b, k - 1)] = rows[Arrived(b, k - 1)]
    <2>1. CASE k - 1 = 0
      BY <1>1, <2>1, SameCells DEF Arrived
    <2>2. CASE k - 1 # 0
      <3>1. k - 1 \in DOMAIN program.code[b] /\ k - 1 # ip /\ ip \in 1 .. Length(at)
        BY <1>1, <1>2, <2>2, CodeDomain, InstructionCells
      <3> QED
        BY <1>1, <2>2, <3>1, SameCells DEF Arrived
    <2> QED
      BY <2>1, <2>2
  <1>5. /\ rows'[Before(b, k)] = current
        /\ \A o \in program.outputs : WrittenBy(b, k, o)' = rows'[After(b, k)][o]
    BY <1>1, <1>2, InstructionCells DEF WrittenBy
  <1>6. CanFail(program, b, k) => \A o \in program.outputs :
          /\ rows'[Before(b, k)][o] \subseteq rows'[Exception(b)][o]
          /\ rows'[Before(b, k)][o] \subseteq rows'[Entry(program.handler[b])][o]
    BY <1>2, <1>5, InstructionCells
  <1> QED
    BY <1>1, <1>3, <1>4, <1>5, <1>6 DEF InstructionDone, Arrived

LEMMA ExitGetsDone ==
  ASSUME TypeOK, ChainInv, InBlock, at \notin queued', NEW b, b = at, ip = Length(at) + 1
  PROVE  ExitDone(b)'
  <1>1. /\ program' = program /\ at \in program.blocks /\ at # NoBlock
        /\ Length(at) \in Nat /\ ip \in Nat /\ Len(Code) = Length(at)
        /\ DOMAIN program.code[at] = 1 .. Length(at)
    BY StepFacts DEF InBlock
  <1>2. BlockExit
    BY <1>1, InstructionCells DEF InBlock, SuccessorEdge
  <1>3. current = rows[Arrived(b, Length(b))]
    BY <1>1 DEF ChainInv, CarriedIsLast
  <1>4. rows'[Arrived(b, Length(b))] = rows[Arrived(b, Length(b))]
    <2>1. CASE Length(b) = 0
      BY <1>1, <2>1, SameCells DEF Arrived
    <2>2. CASE Length(b) # 0
      <3>1. Length(b) \in DOMAIN program.code[b] /\ Length(b) # ip
        BY <1>1, <2>2
      <3> QED
        BY <1>1, <2>2, <3>1, SameCells DEF Arrived
    <2> QED
      BY <2>1, <2>2
  <1>5. Length(b)' = Length(b)
    BY <1>1 DEF Length
  <1> QED
    BY <1>1, <1>2, <1>3, <1>4, <1>5, ExitCells DEF ExitDone, Arrived

LEMMA EdgeGetsDone ==
  ASSUME TypeOK, ChainInv, InBlock, at \notin queued', NEW b, b = at,
         NEW j \in DOMAIN program.next[b], ip = Length(at) + 1 + j
  PROVE  EdgeDone(b, j)'
  <1>1. /\ program' = program /\ at \in program.blocks /\ at # NoBlock
        /\ Length(at) \in Nat /\ ip \in Nat /\ Len(Code) = Length(at)
        /\ DOMAIN program.next[at] = 1 .. Len(Successors) /\ Len(Successors) \in Nat
    BY StepFacts DEF InBlock
  <1>2. j \in Nat \ {0} /\ ip - Length(at) - 1 = j /\ ~ (ip <= Len(Code) + 1)
    BY <1>1
  <1>3. SuccessorEdge
    BY <1>1, <1>2, InstructionCells, ExitCells DEF InBlock
  <1>4. current = rows[Exit(b)]
    BY <1>1, <1>2 DEF ChainInv, CarriedIsLast
  <1>5. rows'[Exit(b)] = rows[Exit(b)]
    BY <1>1, <1>2, SameCells
  <1>6. \A o \in program.outputs : current[o] \subseteq rows'[Entry(program.next[b][j])][o]
    BY <1>2, <1>3, EdgeCells
  <1> QED
    BY <1>1, <1>4, <1>5, <1>6 DEF EdgeDone

LEMMA InBlockMissesNothing ==
  ASSUME TypeOK, ChainInv, NothingMissed, InBlock
  PROVE  NothingMissed'
  <1>1. /\ program' = program /\ at \in program.blocks /\ at # NoBlock
        /\ Length(at) \in Nat /\ ip \in Nat /\ ip' = ip + 1 /\ at' \in {at, NoBlock}
        /\ Successors = program.next[at]
        /\ at' = NoBlock => ip > Length(at) + Len(Successors)
    BY StepFacts DEF InBlock
  <1>2. queued \subseteq queued'
    BY InstructionCells, ExitCells, EdgeCells DEF InBlock
  <1>3. ASSUME NEW b \in program.blocks, b \notin queued', Untouched(b) PROVE Untouched(b)'
    <2>1. b # at /\ b # NoBlock
      BY <1>3, CodeDomain DEF Untouched
    <2>2. ASSUME NEW k \in 0 .. Length(b) PROVE rows'[Arrived(b, k)] = rows[Arrived(b, k)]
      <3>1. k = 0 \/ k \in DOMAIN program.code[b]
        BY CodeDomain
      <3> QED
        BY <1>3, <2>1, <3>1, SameCells DEF Arrived
    <2>3. ASSUME NEW o \in program.outputs, NEW k \in 0 .. Length(b)
          PROVE  rows'[Arrived(b, k)][o] = {}
      BY <1>3, <2>2 DEF Untouched
    <2> QED
      BY <1>1, <2>1, <2>3 DEF Untouched, Arrived, Length
  <1>4. ASSUME NEW b \in program.blocks, b \notin queued', BlockDone(b) PROVE BlockDone(b)'
    <2>0. /\ Length(b) \in Nat /\ DOMAIN program.code[b] = 1 .. Length(b)
          /\ Len(program.next[b]) \in Nat
          /\ DOMAIN program.next[b] = 1 .. Len(program.next[b]) /\ b # NoBlock
      BY CodeDomain
    <2>1. ASSUME NEW k \in DOMAIN program.code[b], Behind(b, k)' PROVE InstructionDone(b, k)'
      <3>1. b # at \/ k < ip \/ k = ip
        BY <1>1, <2>0, <2>1 DEF Behind
      <3>2. CASE b # at \/ k < ip
        <4>1. InstructionDone(b, k)
          BY <1>4, <3>2 DEF BlockDone, Behind
        <4> QED
          BY <1>4, <3>2, <4>1, InstructionStaysDone
      <3>3. CASE b = at /\ k = ip
        BY <1>4, <2>0, <3>3, InstructionGetsDone
      <3> QED
        BY <3>1, <3>2, <3>3
    <2>2. ASSUME Behind(b, Length(b) + 1)' PROVE ExitDone(b)'
      <3>0. Length(b)' = Length(b)
        BY <1>1 DEF Length
      <3>1. b # at \/ Length(b) + 1 < ip \/ Length(b) + 1 = ip
        BY <1>1, <2>0, <2>2, <3>0 DEF Behind
      <3>2. CASE b # at \/ Length(b) + 1 < ip
        <4>1. ExitDone(b)
          BY <1>4, <3>2 DEF BlockDone, Behind
        <4> QED
          BY <1>4, <3>2, <4>1, ExitStaysDone
      <3>3. CASE b = at /\ Length(b) + 1 = ip
        BY <1>4, <3>3, ExitGetsDone
      <3> QED
        BY <3>1, <3>2, <3>3
    <2>3. ASSUME NEW j \in DOMAIN program.next[b], Behind(b, Length(b) + 1 + j)'
          PROVE  EdgeDone(b, j)'
      <3>0. Length(b)' = Length(b)
        BY <1>1 DEF Length
      <3>1. b # at \/ Length(b) + 1 + j < ip \/ Length(b) + 1 + j = ip
        BY <1>1, <2>0, <2>3, <3>0 DEF Behind
      <3>2. CASE b # at \/ Length(b) + 1 + j < ip
        <4>1. EdgeDone(b, j)
          BY <1>4, <3>2 DEF BlockDone, Behind
        <4> QED
          BY <1>4, <3>2, <4>1, EdgeStaysDone
      <3>3. CASE b = at /\ Length(b) + 1 + j = ip
        BY <1>4, <3>3, EdgeGetsDone
      <3> QED
        BY <3>1, <3>2, <3>3
    <2> QED
      BY <1>1, <2>1, <2>2, <2>3 DEF BlockDone
  <1> QED
    BY <1>1, <1>2, <1>3, <1>4 DEF NothingMissed

LEMMA PopMissesNothing ==
  ASSUME TypeOK, NothingMissed, Pop
  PROVE  NothingMissed'
  <1>1. /\ program' = program /\ rows' = rows /\ ip' = 1 /\ at = NoBlock
        /\ queued' = queued \ {at'}
    BY PopFacts DEF Pop
  <1>2. ASSUME NEW b \in program.blocks PROVE b # at /\ Length(b) \in Nat /\ Length(b)' = Length(b)
                                              /\ DOMAIN program.code[b] = 1 .. Length(b)
                                              /\ DOMAIN program.next[b] = 1 .. Len(program.next[b])
                                              /\ Len(program.next[b]) \in Nat
    BY <1>1, CodeDomain DEF Length
  <1>3. ASSUME NEW b \in program.blocks, b = at' PROVE BlockDone(b)'
    <2>1. /\ \A k \in DOMAIN program.code[b] : ~ Behind(b, k)'
          /\ ~ Behind(b, Length(b) + 1)'
          /\ \A j \in DOMAIN program.next[b] : ~ Behind(b, Length(b) + 1 + j)'
      BY <1>1, <1>2, <1>3 DEF Behind
    <2> QED
      BY <1>1, <2>1 DEF BlockDone
  <1>4. ASSUME NEW b \in program.blocks, b # at', Untouched(b) PROVE Untouched(b)'
    BY <1>1, <1>2, <1>4 DEF Untouched, Arrived
  <1>5. ASSUME NEW b \in program.blocks, b # at', BlockDone(b) PROVE BlockDone(b)'
    <2>1. /\ \A k \in DOMAIN program.code[b] : InstructionDone(b, k)
          /\ ExitDone(b)
          /\ \A j \in DOMAIN program.next[b] : EdgeDone(b, j)
      BY <1>2, <1>5 DEF BlockDone, Behind
    <2>2. /\ \A k \in DOMAIN program.code[b] : InstructionDone(b, k)'
          /\ ExitDone(b)'
          /\ \A j \in DOMAIN program.next[b] : EdgeDone(b, j)'
      BY <1>1, <1>2, <2>1 DEF InstructionDone, ExitDone, EdgeDone, Arrived, WrittenBy
    <2> QED
      BY <1>1, <2>2 DEF BlockDone
  <1> QED
    BY <1>1, <1>3, <1>4, <1>5 DEF NothingMissed

LEMMA PopQueue ==
  ASSUME TypeOK, QueuedArePending, Pop
  PROVE  QueuedArePending'
  <1>1. ASSUME NEW q \in queued' PROVE \E i \in DOMAIN pending' : pending'[i] = q
    <2>1. q \in queued /\ q # Head(pending) /\ pending' = Tail(pending) /\ pending # <<>>
          /\ pending \in Seq(program.blocks)
      BY <1>1 DEF Pop, TypeOK
    <2>2. PICK i \in DOMAIN pending : pending[i] = q
      BY <2>1 DEF QueuedArePending
    <2>3. i # 1 /\ i - 1 \in DOMAIN Tail(pending) /\ Tail(pending)[i - 1] = q
      BY <2>1, <2>2
    <2> QED
      BY <2>1, <2>3
  <1> QED
    BY <1>1 DEF QueuedArePending

LEMMA CoverInit == Init => CoverInv
  <1> SUFFICES ASSUME Init PROVE CoverInv
    OBVIOUS
  <1>1. TypeOK
    BY InitType
  <1>2. ASSUME NEW b \in program.blocks, b \notin queued PROVE Untouched(b)
    <2>1. b # program.entry /\ at = NoBlock
      BY <1>2 DEF Init
    <2>2. b # at
      BY <1>1, <2>1, CodeDomain
    <2>3. \A k \in 0 .. Length(b) : k = 0 \/ k \in DOMAIN program.code[b]
      BY <1>1, CodeDomain
    <2> QED
      BY <2>1, <2>2, <2>3, InitCells DEF Untouched, Arrived
  <1>3. NothingMissed
    BY <1>2 DEF NothingMissed
  <1>4. QueuedArePending
    BY DEF Init, QueuedArePending
  <1>5. StartKept
    BY InitCells DEF StartKept
  <1> QED
    BY <1>3, <1>4, <1>5 DEF CoverInv

LEMMA CoverNext == TypeOK /\ ChainInv /\ CoverInv /\ [Next]_vars => CoverInv'
  <1> SUFFICES ASSUME TypeOK, ChainInv, CoverInv, [Next]_vars PROVE CoverInv'
    OBVIOUS
  <1> USE DEF CoverInv
  <1>1. CASE UNCHANGED vars
    <2>0. /\ program' = program /\ rows' = rows /\ queued' = queued /\ at' = at /\ ip' = ip
      BY <1>1 DEF vars
    <2>3. ASSUME NEW b \in program.blocks, Untouched(b) PROVE Untouched(b)'
      BY <2>0, <2>3 DEF Untouched, Arrived, Length
    <2>4. ASSUME NEW b \in program.blocks, BlockDone(b) PROVE BlockDone(b)'
      <3>1. \A k \in DOMAIN program.code[b] :
              Behind(b, k)' = Behind(b, k) /\ InstructionDone(b, k)' = InstructionDone(b, k)
        BY <2>0 DEF Behind, InstructionDone, Arrived, WrittenBy
      <3>2. (Behind(b, Length(b) + 1))' = Behind(b, Length(b) + 1) /\ ExitDone(b)' = ExitDone(b)
        BY <2>0 DEF Behind, ExitDone, Arrived, Length
      <3>3. \A j \in DOMAIN program.next[b] :
              (Behind(b, Length(b) + 1 + j))' = Behind(b, Length(b) + 1 + j)
              /\ EdgeDone(b, j)' = EdgeDone(b, j)
        BY <2>0 DEF Behind, EdgeDone, Length
      <3> QED
        BY <2>0, <2>4, <3>1, <3>2, <3>3 DEF BlockDone
    <2>1. NothingMissed'
      BY <2>0, <2>3, <2>4 DEF NothingMissed
    <2> QED
      BY <1>1, <2>1 DEF vars, QueuedArePending, StartKept
  <1>2. StartKept'
    <2>1. program' = program /\ \A pt \in Points(program) : GrowsAt(pt)
      BY TableGrows
    <2>2. Entry(program.entry) \in Points(program)
      BY ProgramsAssumption, PointKinds DEF TypeOK, WellFormed
    <2> QED
      BY <2>1, <2>2 DEF StartKept, GrowsAt
  <1>3. CASE Pop
    BY <1>2, <1>3, PopMissesNothing, PopQueue
  <1>4. CASE InBlock
    <2>1. QueuedArePending'
      BY <1>4, InstructionCells, ExitCells, EdgeCells DEF InBlock
    <2> QED
      BY <1>2, <1>4, <2>1, InBlockMissesNothing
  <1> QED
    BY <1>1, <1>3, <1>4 DEF Next, InBlock

(* The states whose values the table holds.                                *)
Covered ==
  {s \in States(program) :
     \A o \in program.outputs : ValueOf(o, s) \in rows[Arrived(s.block, s.done)][o]}

(* Nothing is left to hand on when the queue is empty.                     *)
LEMMA AllDone ==
  ASSUME TypeOK, CoverInv, Done, NEW b \in program.blocks
  PROVE  \/ \A o \in program.outputs : \A k \in 0 .. Length(b) : rows[Arrived(b, k)][o] = {}
         \/ /\ \A k \in DOMAIN program.code[b] : InstructionDone(b, k)
            /\ ExitDone(b)
            /\ \A j \in DOMAIN program.next[b] : EdgeDone(b, j)
  <1>1. pending = <<>> /\ at = NoBlock /\ b # at
    BY CodeDomain DEF Done
  <1>2. DOMAIN pending = {}
    BY <1>1
  <1>3. queued = {}
    BY <1>2 DEF CoverInv, QueuedArePending
  <1> QED
    BY <1>1, <1>3 DEF CoverInv, NothingMissed, Untouched, BlockDone, Behind

LEMMA CoveredClosed ==
  ASSUME TypeOK, CoverInv, Done
  PROVE  Closed(program, Covered)
  <1>1. program \in Programs /\ WellFormed(program)
    BY ProgramsAssumption DEF TypeOK
  <1>2. InitialState(program) \in Covered
    <2>1. InitialState(program) \in States(program)
      BY <1>1 DEF InitialState, States, WellFormed
    <2>2. ASSUME NEW o \in program.outputs
          PROVE  ValueOf(o, InitialState(program)) \in rows[Entry(program.entry)][o]
      <3>1. ValueOf(o, InitialState(program)) \in EntryRow(program)[o]
        BY DEF ValueOf, InitialState, EntryRow
      <3> QED
        BY <3>1 DEF CoverInv, StartKept
    <2> QED
      BY <2>1, <2>2 DEF Covered, InitialState, Arrived
  <1>3. ASSUME NEW s \in Covered PROVE Steps(program, s) \subseteq Covered
    <2> DEFINE b == s.block
               k == s.done + 1
    <2>1. /\ b \in program.blocks /\ s.done \in 0 .. Length(b) /\ s.assigned \subseteq program.outputs
          /\ Length(b) \in Nat /\ DOMAIN program.code[b] = 1 .. Length(b)
          /\ Len(program.next[b]) \in Nat /\ DOMAIN program.next[b] = 1 .. Len(program.next[b])
          /\ s \in States(program)
      <3>1. b \in program.blocks /\ s.assigned \subseteq program.outputs /\ s.done \in Nat
            /\ s.done <= Length(b) /\ s \in States(program)
        BY DEF Covered, States, Length
      <3> QED
        BY <3>1, CodeDomain
    <2>2. ASSUME NEW o \in program.outputs
          PROVE  /\ ValueOf(o, s) \in rows[Arrived(b, s.done)][o]
                 /\ \A i \in DOMAIN program.code[b] : InstructionDone(b, i)
                 /\ ExitDone(b)
                 /\ \A j \in DOMAIN program.next[b] : EdgeDone(b, j)
      <3>1. ValueOf(o, s) \in rows[Arrived(b, s.done)][o]
        BY DEF Covered
      <3> HIDE DEF b
      <3> QED
        BY <2>1, <3>1, AllDone
    <2>3. ASSUME s.done < Length(b) PROVE Committed(program, s) \in Covered
      <3> DEFINE t == Committed(program, s)
      <3>1. k \in DOMAIN program.code[b]
        BY <2>1, <2>3
      <3>2. program.code[b][k].writes \subseteq program.outputs
        <4>1. program.code[b] \in Seq(Instructions(program.outputs))
          BY <1>1, <2>1 DEF WellFormed
        <4>2. program.code[b][k] \in Instructions(program.outputs)
          BY <2>1, <3>1, <4>1
        <4> QED
          BY <4>2 DEF Instructions
      <3>3. /\ t.block = b /\ t.done = k /\ t.assigned = s.assigned \cup program.code[b][k].writes
            /\ t = [block |-> b, done |-> k, assigned |-> s.assigned \cup program.code[b][k].writes]
        BY DEF Committed
      <3>4. t \in States(program)
        BY SMTT(30), <2>1, <2>3, <3>2, <3>3 DEF States, Length
      <3> HIDE DEF t
      <3>5. ASSUME NEW o \in program.outputs PROVE ValueOf(o, t) \in rows[Arrived(b, k)][o]
        <4>1. InstructionDone(b, k) /\ ValueOf(o, s) \in rows[Arrived(b, k - 1)][o]
          BY <2>1, <2>2, <3>1
        <4>2. ValueOf(o, t) \in WrittenBy(b, k, o)
          <5>1. ValueOf(o, s) \in rows[Before(b, k)][o]
            BY <4>1 DEF InstructionDone
          <5> QED
            BY <3>3, <5>1 DEF WrittenBy, ValueOf
        <4>3. Arrived(b, k) = After(b, k)
          BY <2>1 DEF Arrived
        <4> QED
          BY <4>1, <4>2, <4>3 DEF InstructionDone
      <3> QED
        BY <3>3, <3>4, <3>5 DEF Covered, t
    <2>4. ASSUME NEW c \in program.blocks,
                 \A o \in program.outputs : ValueOf(o, s) \in rows[Entry(c)][o]
          PROVE  Entered(c, s) \in Covered
      <3>1. Len(program.code[c]) \in Nat
        BY <2>4, CodeDomain DEF Length
      <3>2. Entered(c, s) \in States(program)
        BY <2>1, <3>1 DEF Entered, States
      <3>3. \A o : ValueOf(o, Entered(c, s)) = ValueOf(o, s)
        BY DEF Entered, ValueOf
      <3> QED
        BY <2>4, <3>2, <3>3 DEF Covered, Entered, Arrived
    <2>5. ASSUME CanFail(program, b, k) PROVE Entered(program.handler[b], s) \in Covered
      <3>1. k \in DOMAIN program.code[b] /\ program.handler[b] \in program.blocks
        BY <1>1, <2>1, <2>5 DEF CanFail, WellFormed
      <3>2. ASSUME NEW o \in program.outputs
            PROVE  ValueOf(o, s) \in rows[Entry(program.handler[b])][o]
        <4>1. InstructionDone(b, k) /\ ValueOf(o, s) \in rows[Arrived(b, k - 1)][o]
          BY <2>1, <2>2, <3>1
        <4> QED
          BY <2>5, <4>1 DEF InstructionDone
      <3> QED
        BY <2>4, <3>1, <3>2
    <2>6. ASSUME s.done = Length(b), NEW j \in DOMAIN program.next[b]
          PROVE  Entered(program.next[b][j], s) \in Covered
      <3>1. program.next[b][j] \in program.blocks
        BY SMTT(30), <1>1, <2>1 DEF WellFormed
      <3>2. ASSUME NEW o \in program.outputs
            PROVE  ValueOf(o, s) \in rows[Entry(program.next[b][j])][o]
        <4>1. ExitDone(b) /\ EdgeDone(b, j) /\ ValueOf(o, s) \in rows[Arrived(b, Length(b))][o]
          BY <2>2, <2>6
        <4> QED
          BY <4>1 DEF ExitDone, EdgeDone
      <3> QED
        BY <2>4, <3>1, <3>2
    <2> QED
      BY <2>3, <2>5, <2>6 DEF Steps, Length
  <1> QED
    BY <1>2, <1>3 DEF Closed, Covered

(* A state of Covered that stands at a point has its values in the row.    *)
LEMMA CoveredAtPoint ==
  ASSUME TypeOK, CoverInv, Done, NEW s \in Covered, NEW pt \in Points(program),
         StandsAt(program, s, pt), NEW o \in program.outputs
  PROVE  ValueOf(o, s) \in rows[pt][o]
  <1> DEFINE b == s.block
  <1>1. /\ b \in program.blocks /\ s.done \in Nat
        /\ ValueOf(o, s) \in rows[Arrived(b, s.done)][o] /\ s.done \in 0 .. Length(b)
        /\ Length(b) \in Nat /\ DOMAIN program.code[b] = 1 .. Length(b)
    <2>1. b \in program.blocks /\ s.done \in Nat /\ s.done <= Length(b)
          /\ ValueOf(o, s) \in rows[Arrived(b, s.done)][o]
      BY DEF Covered, States, Length
    <2> QED
      BY <2>1, CodeDomain
  <1>2. /\ \A k \in DOMAIN program.code[b] : InstructionDone(b, k)
        /\ ExitDone(b)
    <2> HIDE DEF b
    <2> QED
      BY <1>1, AllDone
  <1>3. PICK c \in program.blocks :
           \/ pt = Entry(c) \/ pt = Exit(c) \/ pt = Exception(c)
           \/ \E k \in DOMAIN program.code[c] : pt = Before(c, k) \/ pt = After(c, k)
    BY PointCases
  <1>4. CASE pt = Entry(c)
    BY <1>1, <1>4 DEF StandsAt, Entry, Arrived
  <1>5. CASE pt = Exit(c)
    <2>1. s.done = Length(b) /\ c = b
      BY <1>5 DEF StandsAt, Exit, Length
    <2> QED
      BY <1>1, <1>2, <1>5, <2>1 DEF ExitDone
  <1>6. CASE pt = Exception(c)
    <2>1. CanFail(program, b, s.done + 1) /\ c = b
      BY <1>6 DEF StandsAt, Exception
    <2>2. InstructionDone(b, s.done + 1) /\ s.done + 1 - 1 = s.done
      BY <1>1, <1>2, <2>1 DEF CanFail
    <2> QED
      BY <1>1, <1>6, <2>1, <2>2 DEF InstructionDone
  <1>7. ASSUME NEW k \in DOMAIN program.code[c], pt = Before(c, k)
        PROVE  ValueOf(o, s) \in rows[pt][o]
    <2>1. s.done + 1 = k /\ c = b
      BY <1>7 DEF StandsAt, Before
    <2>2. InstructionDone(b, k) /\ k - 1 = s.done
      BY <1>1, <1>2, <1>7, <2>1
    <2> QED
      BY <1>1, <1>7, <2>1, <2>2 DEF InstructionDone
  <1>8. ASSUME NEW k \in DOMAIN program.code[c], pt = After(c, k)
        PROVE  ValueOf(o, s) \in rows[pt][o]
    <2>1. s.done = k /\ c = b
      BY <1>8 DEF StandsAt, After
    <2>2. Arrived(b, s.done) = pt
      BY <1>1, <1>8, <2>1 DEF Arrived
    <2> QED
      BY <1>1, <2>2
  <1> QED
    BY <1>3, <1>4, <1>5, <1>6, <1>7, <1>8

LEMMA LeastBelow ==
  ASSUME LeastReach, NEW p \in Programs, NEW R, Closed(p, R)
  PROVE  Reach[p] \subseteq R
  <1> DEFINE S == R \cap Reach[p]
  <1>1. Closed(p, Reach[p])
    BY ReachAssumption
  <1>2. S \subseteq States(p) /\ InitialState(p) \in S
    BY <1>1 DEF Closed
  <1>3. ASSUME NEW s \in S PROVE Steps(p, s) \subseteq S
    BY <1>1, <1>3 DEF Closed
  <1>4. Closed(p, S)
    BY <1>2, <1>3 DEF Closed
  <1>5. S = Reach[p]
    BY <1>4 DEF LeastReach, IsLeast
  <1> QED BY <1>5

(* When the queue is empty the table holds exactly the values that the     *)
(* executions give the outputs, at every point: of loops, joins, and       *)
(* handlers that are themselves re-entered.                                *)
THEOREM TableExact == LeastReach => (Spec => []Exact)
  <1>1. ASSUME LeastReach, TypeOK, Precise, CoverInv PROVE Exact
    <2> SUFFICES ASSUME Done, NEW pt \in Points(program), NEW o \in program.outputs
                 PROVE  rows[pt][o] = Collected(program, Reach[program], pt, o)
      BY DEF Exact
    <2>1. rows[pt][o] \subseteq Collected(program, Reach[program], pt, o)
      BY <1>1 DEF Precise
    <2>2. Reach[program] \subseteq Covered
      BY <1>1, CoveredClosed, LeastBelow DEF TypeOK
    <2>3. ASSUME NEW s \in Reach[program], StandsAt(program, s, pt)
          PROVE  ValueOf(o, s) \in rows[pt][o]
      BY <1>1, <2>2, <2>3, CoveredAtPoint
    <2>4. Collected(program, Reach[program], pt, o) \subseteq rows[pt][o]
      BY <2>3 DEF Collected
    <2> QED
      BY <2>1, <2>4
  <1>2. Spec => []ChainInv
    BY TypeCorrect, ChainInit, ChainNext, PTL DEF Spec
  <1>3. Spec => []CoverInv
    BY <1>2, TypeCorrect, CoverInit, CoverNext, PTL DEF Spec
  <1> SUFFICES ASSUME LeastReach PROVE Spec => []Exact
    OBVIOUS
  <1>4. TypeOK /\ Precise /\ CoverInv => Exact
    BY <1>1
  <1> QED
    BY <1>3, <1>4, TypeCorrect, PreciseTable, PTL
=============================================================================
