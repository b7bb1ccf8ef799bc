---------------------- MODULE VerifiedAssignmentProofs ----------------------
(***************************************************************************)
(* Proofs about the verifier of the output-assignment table, for every set *)
(* of programs, every order of their outputs and every damaged table.      *)
(*                                                                         *)
(* One output is explored at a time.  The invariant follows its values     *)
(* through the verifier's table: every value recorded at a point is that   *)
(* of some execution, and has been recorded at the next point too, or is   *)
(* the one the walk carries there now, or belongs to a path in the queue.  *)
(***************************************************************************)
EXTENDS VerifiedAssignment, OutputAssignmentProofs

Slots == OutputOrder(program)

(* The verifier's variables have their types, and nothing is left to       *)
(* explore when a verdict is given.                                        *)
JudgeTypeOK ==
  /\ expected \in [Points(program) -> Row(program)]
  /\ slot \in 0 .. Len(Slots)
  /\ visited \subseteq program.blocks \X Value
  /\ paths \in Seq(program.blocks \X Value)
  /\ block \in program.blocks \cup {NoBlock}
  /\ step \in Nat \ {0}
  /\ value \in Value
  /\ block # NoBlock => step <= Length(block) + 1 + Len(program.next[block])
  /\ block # NoBlock \/ paths # <<>> => slot # 0
  /\ delivered # {} => Table \in [Points(program) -> Row(program)]
  /\ verdict \in {"none", "accepted", "rejected"}

Slot == Slots[slot]

Cells(pt) == expected[pt][Slot]

(* Every path seen is realised: some execution enters its block with its   *)
(* value; and every value recorded is that of some execution there.        *)
PathsRealised ==
  slot # 0 => \A path \in visited :
    \E s \in Reach[program] :
      s.block = path[1] /\ s.done = 0 /\ path[2] = ValueOf(Slot, s)

PendingVisited == \A i \in DOMAIN paths : paths[i] \in visited

RecordedRealised ==
  \A pt \in Points(program) : \A o \in program.outputs :
    expected[pt][o] \subseteq Collected(program, Reach[program], pt, o)

ValueIsRecorded ==
  block # NoBlock =>
    value \in Cells(IF step <= Length(block) + 1 THEN Arrived(block, step - 1) ELSE Exit(block))

(* The walk stands before step k of block b with value v.                  *)
Walking(b, k, v) == b = block /\ k = step /\ v = value

WrittenValue(b, k, v) == IF Slot \in program.code[b][k].writes THEN "assigned" ELSE v

(* What has arrived is recorded before the next instruction; what is there *)
(* is recorded after it, and where its failure leads; what has arrived at  *)
(* the end is recorded at the exit, and what is there has gone on.         *)
ArrivedSeen(b, k) == \A v \in Cells(Arrived(b, k - 1)) : v \in Cells(Before(b, k)) \/ Walking(b, k, v)

BeforeSeen(b, k) ==
  \A v \in Cells(Before(b, k)) :
    /\ WrittenValue(b, k, v) \in Cells(After(b, k))
    /\ CanFail(program, b, k) =>
         v \in Cells(Exception(b)) /\ <<program.handler[b], v>> \in visited

LastSeen(b) ==
  \A v \in Cells(Arrived(b, Length(b))) : v \in Cells(Exit(b)) \/ Walking(b, Length(b) + 1, v)

ExitSeen(b, j) ==
  \A v \in Cells(Exit(b)) :
    \/ <<program.next[b][j], v>> \in visited
    \/ b = block /\ v = value /\ step \in Length(b) + 2 .. Length(b) + 1 + j

ValuesWalked ==
  slot # 0 => \A b \in program.blocks :
    /\ \A k \in DOMAIN program.code[b] : ArrivedSeen(b, k) /\ BeforeSeen(b, k)
    /\ LastSeen(b)
    /\ \A j \in DOMAIN program.next[b] : ExitSeen(b, j)

PathsKept ==
  slot # 0 =>
    /\ Judge!Start(program, Slot) \in visited
    /\ \A path \in visited :
         path[2] \in Cells(Entry(path[1])) \/ \E i \in DOMAIN paths : paths[i] = path

(* An output is complete when every value of every execution is recorded.  *)
Complete(o) ==
  \A pt \in Points(program) : Collected(program, Reach[program], pt, o) \subseteq expected[pt][o]

EarlierComplete == \A i \in DOMAIN Slots : i < slot => Complete(Slots[i])

LaterEmpty == \A i \in DOMAIN Slots : i > slot => \A pt \in Points(program) : expected[pt][Slots[i]] = {}

VerdictGiven ==
  verdict # "none" =>
    /\ block = NoBlock /\ paths = <<>> /\ slot = Len(Slots) /\ delivered # {}
    /\ verdict = "accepted" <=> Table = expected

JudgeInv ==
  /\ TypeOK /\ JudgeTypeOK
  /\ PathsRealised /\ PendingVisited /\ RecordedRealised /\ ValueIsRecorded
  /\ ValuesWalked /\ PathsKept /\ EarlierComplete /\ LaterEmpty /\ VerdictGiven

-----------------------------------------------------------------------------
(* What the verifier's steps do to its variables.                          *)

(* The verifier means the same points and failures.                        *)
LEMMA JudgeMeans ==
  /\ \A p : Judge!Points(p) = Points(p)
  /\ \A p, b, k : Judge!CanFail(p, b, k) = CanFail(p, b, k)
  /\ \A b, k : /\ Judge!Entry(b) = Entry(b) /\ Judge!Exit(b) = Exit(b)
               /\ Judge!Exception(b) = Exception(b)
               /\ Judge!Before(b, k) = Before(b, k) /\ Judge!After(b, k) = After(b, k)
  /\ Judge!Output = Slot
  BY DEF Judge!Points, Points, Judge!BlockPoints, BlockPoints, Judge!InstructionPoints,
         InstructionPoints, Judge!CanFail, CanFail, Judge!Entry, Entry, Judge!Exit, Exit,
         Judge!Exception, Exception, Judge!Before, Before, Judge!After, After,
         Judge!Output, Slot, Slots

LEMMA SlotFacts ==
  ASSUME TypeOK, JudgeTypeOK
  PROVE  /\ Slots \in Seq(program.outputs) /\ Len(Slots) \in Nat
         /\ DOMAIN Slots = 1 .. Len(Slots)
         /\ \A o \in program.outputs : \E i \in DOMAIN Slots : Slots[i] = o
         /\ \A i, j \in DOMAIN Slots : Slots[i] = Slots[j] => i = j
         /\ slot \in Nat
         /\ slot # 0 => slot \in DOMAIN Slots /\ Slot \in program.outputs
  BY OutputOrderAssumption DEF TypeOK, JudgeTypeOK, Slots, Slot

(* Recording a value adds it to one cell: u is t with v added at pt.       *)
Recorded(t, pt, v, u) ==
  /\ u \in [Points(program) -> Row(program)]
  /\ \A q \in Points(program) : \A o \in program.outputs :
       u[q][o] = IF q = pt /\ o = Slot THEN t[q][o] \cup {v} ELSE t[q][o]

LEMMA RecordCells ==
  ASSUME NEW t, t \in [Points(program) -> Row(program)], NEW pt \in Points(program),
         NEW v \in Value, Slot \in program.outputs
  PROVE  Recorded(t, pt, v, Judge!Record(t, pt, v))
  <1>1. Judge!Record(t, pt, v) = [t EXCEPT ![pt] = [t[pt] EXCEPT ![Slot] = t[pt][Slot] \cup {v}]]
    BY JudgeMeans DEF Judge!Record
  <1>2. t[pt] \in [program.outputs -> SUBSET Value]
    BY DEF Row, Cell
  <1>3. [t[pt] EXCEPT ![Slot] = t[pt][Slot] \cup {v}] \in [program.outputs -> SUBSET Value]
    BY <1>2
  <1>4. Judge!Record(t, pt, v) \in [Points(program) -> Row(program)]
    BY <1>1, <1>3 DEF Row, Cell
  <1>5. ASSUME NEW q \in Points(program), NEW o \in program.outputs
        PROVE  Judge!Record(t, pt, v)[q][o] =
                 IF q = pt /\ o = Slot THEN t[q][o] \cup {v} ELSE t[q][o]
    <2> DEFINE w == [t[pt] EXCEPT ![Slot] = t[pt][Slot] \cup {v}]
    <2>1. Judge!Record(t, pt, v) = [t EXCEPT ![pt] = w]
      BY <1>1
    <2>2. w[o] = IF o = Slot THEN t[pt][o] \cup {v} ELSE t[pt][o]
      BY <1>2
    <2> HIDE DEF w
    <2>3. Judge!Record(t, pt, v)[q] = IF q = pt THEN w ELSE t[q]
      BY <2>1
    <2> QED BY <2>2, <2>3
  <1> QED
    BY <1>4, <1>5 DEF Recorded

(* Enqueuing a path makes it seen, and queues it unless it was seen.       *)
PathQueued(b, v) ==
  /\ visited' = visited \cup {<<b, v>>}
  /\ paths' \in Seq(program.blocks \X Value)
  /\ \A i \in DOMAIN paths : i \in DOMAIN paths' /\ paths'[i] = paths[i]
  /\ \A i \in DOMAIN paths' : paths'[i] = <<b, v>> \/ \E j \in DOMAIN paths : paths'[i] = paths[j]
  /\ <<b, v>> \in visited \/ \E i \in DOMAIN paths' : paths'[i] = <<b, v>>

LEMMA EnqueueQueues ==
  ASSUME JudgeTypeOK, NEW b \in program.blocks, NEW v \in Value, Judge!Enqueue(b, v)
  PROVE  PathQueued(b, v)
  <1>1. paths \in Seq(program.blocks \X Value) /\ <<b, v>> \in program.blocks \X Value
    BY DEF JudgeTypeOK
  <1>2. CASE <<b, v>> \in visited
    BY <1>1, <1>2 DEF Judge!Enqueue, Judge!EnqueueAfter, PathQueued
  <1>3. CASE <<b, v>> \notin visited
    <2>1. visited' = visited \cup {<<b, v>>} /\ paths' = Append(paths, <<b, v>>)
      BY <1>3 DEF Judge!Enqueue, Judge!EnqueueAfter
    <2> DEFINE path == <<b, v>>
    <2> HIDE DEF path
    <2>2. /\ Append(paths, path) \in Seq(program.blocks \X Value)
          /\ Len(paths) + 1 \in DOMAIN Append(paths, path)
          /\ Append(paths, path)[Len(paths) + 1] = path
          /\ \A i \in DOMAIN paths :
               i \in DOMAIN Append(paths, path) /\ Append(paths, path)[i] = paths[i]
          /\ \A i \in DOMAIN Append(paths, path) : i \in DOMAIN paths \/ i = Len(paths) + 1
      BY <1>1 DEF path
    <2> QED
      BY <2>1, <2>2 DEF PathQueued, path
  <1> QED
    BY <1>2, <1>3

(* No flag is left behind: every block with a flag is listed, with the     *)
(* second flag because of the first.                                       *)
FlagsListed == \A path \in visited : path[1] \in touched

LEMMA EnqueueLists ==
  ASSUME FlagsListed, NEW b, NEW v \in Value, Judge!Enqueue(b, v)
  PROVE  FlagsListed'
  <1>1. CASE <<b, v>> \in visited
    BY <1>1 DEF Judge!Enqueue, Judge!EnqueueAfter, FlagsListed
  <1>2. CASE <<b, v>> \notin visited
    <2>1. visited' = visited \cup {<<b, v>>} /\ touched' = Judge!Touched(visited, touched, b, v)
      BY <1>2 DEF Judge!Enqueue, Judge!EnqueueAfter
    <2>2. touched \subseteq touched' /\ b \in touched'
      BY <2>1 DEF Judge!Touched, FlagsListed
    <2> QED
      BY <2>1, <2>2 DEF FlagsListed
  <1> QED
    BY <1>1, <1>2

(* So the next output starts with its first path only.                     *)
LEMMA FlagsCleared ==
  ASSUME FlagsListed, Judge!NextOutput
  PROVE  LET first == Judge!Start(program, OutputOrder(program)[slot + 1])
         IN  paths' = <<first>> /\ visited' = {first} /\ touched' = {program.entry}
  <1> DEFINE first == Judge!Start(program, OutputOrder(program)[slot + 1])
  <1>1. first = <<first[1], first[2]>> /\ first[1] = program.entry
    BY DEF Judge!Start
  <1>2. Judge!Left = {}
    BY DEF Judge!Left, FlagsListed
  <1>3. Judge!EnqueueAfter(Judge!Left, {}, first[1], first[2]) /\ paths = <<>>
    BY DEF Judge!NextOutput
  <1> HIDE DEF first
  <1>4. visited' = {first} /\ touched' = {program.entry} /\ paths' = Append(paths, first)
    BY <1>1, <1>2, <1>3 DEF Judge!EnqueueAfter, Judge!Touched
  <1> QED
    BY <1>3, <1>4 DEF first

(* The block being walked.                                                 *)
InWalk == Judge!WalkInstruction \/ Judge!WalkExit \/ Judge!WalkEdge

Quiet == UNCHANGED <<vars, delivered>>

LEMMA WalkFacts ==
  ASSUME TypeOK, JudgeTypeOK, InWalk, Quiet
  PROVE  /\ program' = program /\ program \in Programs /\ delivered' = delivered
         /\ slot' = slot /\ verdict' = verdict
         /\ slot # 0 /\ Slot \in program.outputs /\ Slot' = Slot /\ Slots' = Slots
         /\ block \in program.blocks /\ block # NoBlock
         /\ step \in Nat \ {0} /\ step' = step + 1 /\ value \in Value
         /\ Judge!Code = program.code[block] /\ Len(Judge!Code) = Length(block)
         /\ DOMAIN program.code[block] = 1 .. Length(block) /\ Length(block) \in Nat
         /\ Judge!Successors = program.next[block]
         /\ DOMAIN program.next[block] = 1 .. Len(program.next[block])
         /\ Len(program.next[block]) \in Nat
         /\ step <= Length(block) + 1 + Len(program.next[block])
         /\ block' = IF step > Length(block) + Len(program.next[block]) THEN NoBlock ELSE block
  <1>1. /\ program' = program /\ delivered' = delivered
        /\ slot' = slot /\ verdict' = verdict /\ block # NoBlock /\ Judge!Advance
    BY DEF InWalk, Quiet, vars, Judge!WalkInstruction, Judge!WalkExit, Judge!WalkEdge
  <1>2. block \in program.blocks /\ slot # 0 /\ step \in Nat \ {0} /\ value \in Value
        /\ step <= Length(block) + 1 + Len(program.next[block])
    BY <1>1 DEF JudgeTypeOK
  <1>3. Slot \in program.outputs /\ Slot' = Slot /\ Slots' = Slots
    BY <1>1, <1>2, SlotFacts DEF Slot, Slots
  <1>4. Judge!Code = program.code[block] /\ Judge!Successors = program.next[block]
        /\ Len(Judge!Code) = Length(block)
    BY DEF Judge!Code, Judge!Successors, Length
  <1>5. step' = step + 1
        /\ block' = IF step > Length(block) + Len(program.next[block]) THEN NoBlock ELSE block
    BY <1>1, <1>4 DEF Judge!Advance
  <1> QED
    BY <1>1, <1>2, <1>3, <1>4, <1>5, CodeDomain DEF TypeOK

LEMMA WalkInstructionEffect ==
  ASSUME TypeOK, JudgeTypeOK, Judge!WalkInstruction, Quiet
  PROVE  /\ step \in 1 .. Length(block)
         /\ expected' \in [Points(program) -> Row(program)]
         /\ value' = WrittenValue(block, step, value) /\ value' \in Value
         /\ \A q \in Points(program) : \A o \in program.outputs :
              expected'[q][o] = expected[q][o] \cup
                IF o # Slot THEN {}
                ELSE IF q = Before(block, step) THEN {value}
                ELSE IF q = After(block, step) THEN {value'}
                ELSE IF q = Exception(block) /\ CanFail(program, block, step) THEN {value}
                ELSE {}
         /\ IF CanFail(program, block, step)
            THEN program.handler[block] \in program.blocks
                 /\ PathQueued(program.handler[block], value)
            ELSE UNCHANGED <<visited, paths>>
  <1> DEFINE fails == CanFail(program, block, step)
             before == Judge!Record(expected, Before(block, step), value)
             thrown == IF fails THEN Judge!Record(before, Exception(block), value) ELSE before
             after == Judge!Record(thrown, After(block, step), value')
  <1>0. InWalk
    BY DEF InWalk
  <1>1. /\ program \in Programs /\ block \in program.blocks /\ Slot \in program.outputs
        /\ value \in Value /\ DOMAIN program.code[block] = 1 .. Length(block)
        /\ Judge!Code = program.code[block]
    BY <1>0, WalkFacts
  <1>2. step \in DOMAIN program.code[block] /\ step \in 1 .. Length(block)
    BY <1>1 DEF Judge!WalkInstruction
  <1>3. value' = WrittenValue(block, step, value) /\ value' \in Value
    BY <1>1, JudgeMeans DEF Judge!WalkInstruction, Judge!ValueCommitted, WrittenValue, Value
  <1>4. expected' = after
    BY <1>1, JudgeMeans DEF Judge!WalkInstruction, Judge!ValueAtFailure
  <1>5. /\ Before(block, step) \in Points(program) /\ After(block, step) \in Points(program)
        /\ Exception(block) \in Points(program)
    BY <1>1, <1>2, PointKinds
  <1>6. expected \in [Points(program) -> Row(program)]
    BY DEF JudgeTypeOK
  <1>7. Recorded(expected, Before(block, step), value, before)
    BY <1>1, <1>5, <1>6, RecordCells
  <1>a. before \in [Points(program) -> Row(program)]
    BY <1>7 DEF Recorded
  <1> HIDE DEF before
  <1>8. /\ thrown \in [Points(program) -> Row(program)]
        /\ IF fails THEN Recorded(before, Exception(block), value, thrown) ELSE thrown = before
    <2>1. CASE fails
      <3>1. Recorded(before, Exception(block), value, Judge!Record(before, Exception(block), value))
        BY <1>1, <1>5, <1>a, RecordCells
      <3> QED
        BY <2>1, <3>1 DEF Recorded
    <2>2. CASE ~ fails
      BY <1>a, <2>2
    <2> QED
      BY <2>1, <2>2
  <1> HIDE DEF thrown
  <1>b. thrown \in [Points(program) -> Row(program)]
    BY <1>8
  <1>9. Recorded(thrown, After(block, step), value', after)
    BY <1>1, <1>3, <1>5, <1>b, RecordCells
  <1>c. after \in [Points(program) -> Row(program)]
    BY <1>9 DEF Recorded
  <1> HIDE DEF after
  <1>10. /\ Before(block, step) # After(block, step) /\ Before(block, step) # Exception(block)
         /\ After(block, step) # Exception(block)
    BY PointsDiffer
  <1>11. ASSUME NEW q \in Points(program), NEW o \in program.outputs
         PROVE  expected'[q][o] = expected[q][o] \cup
                  IF o # Slot THEN {}
                  ELSE IF q = Before(block, step) THEN {value}
                  ELSE IF q = After(block, step) THEN {value'}
                  ELSE IF q = Exception(block) /\ fails THEN {value}
                  ELSE {}
    <2>1. after[q][o] = IF q = After(block, step) /\ o = Slot
                        THEN thrown[q][o] \cup {value'} ELSE thrown[q][o]
      BY <1>9 DEF Recorded
    <2>2. thrown[q][o] = IF fails /\ q = Exception(block) /\ o = Slot
                         THEN before[q][o] \cup {value} ELSE before[q][o]
      BY <1>8 DEF Recorded
    <2>3. before[q][o] = IF q = Before(block, step) /\ o = Slot
                         THEN expected[q][o] \cup {value} ELSE expected[q][o]
      BY <1>7 DEF Recorded
    <2> QED
      BY <1>4, <1>10, <2>1, <2>2, <2>3
  <1>12. CASE fails
    <2>1. program.handler[block] \in program.blocks
      BY <1>1, <1>12, ProgramsAssumption DEF CanFail, WellFormed
    <2>2. Judge!Enqueue(program.handler[block], value)
      BY <1>12, JudgeMeans DEF Judge!WalkInstruction, Judge!ValueAtFailure
    <2>3. PathQueued(program.handler[block], value)
      BY <1>1, <2>1, <2>2, EnqueueQueues
    <2> QED
      BY <1>2, <1>3, <1>4, <1>c, <1>11, <1>12, <2>1, <2>3
  <1>13. CASE ~ fails
    <2>1. UNCHANGED <<visited, paths>>
      BY <1>13, JudgeMeans DEF Judge!WalkInstruction
    <2> QED
      BY <1>2, <1>3, <1>4, <1>c, <1>11, <1>13, <2>1
  <1> QED
    BY <1>12, <1>13

LEMMA WalkExitEffect ==
  ASSUME TypeOK, JudgeTypeOK, Judge!WalkExit, Quiet
  PROVE  /\ step = Length(block) + 1 /\ UNCHANGED <<visited, paths, value>>
         /\ expected' \in [Points(program) -> Row(program)]
         /\ \A q \in Points(program) : \A o \in program.outputs :
              expected'[q][o] = IF q = Exit(block) /\ o = Slot
                                THEN expected[q][o] \cup {value} ELSE expected[q][o]
  <1>0. InWalk
    BY DEF InWalk
  <1>1. /\ program \in Programs /\ block \in program.blocks /\ Slot \in program.outputs
        /\ value \in Value /\ Len(Judge!Code) = Length(block)
    BY <1>0, WalkFacts
  <1>2. Exit(block) \in Points(program) /\ expected \in [Points(program) -> Row(program)]
    BY <1>1, PointKinds DEF JudgeTypeOK
  <1>3. /\ expected' = Judge!Record(expected, Exit(block), value)
        /\ step = Length(block) + 1 /\ UNCHANGED <<visited, paths, value>>
    BY <1>1, JudgeMeans DEF Judge!WalkExit
  <1>4. Exit(block) \in Points(program) /\ Slot \in program.outputs /\ value \in Value
    BY <1>1, <1>2
  <1>5. Recorded(expected, Exit(block), value, expected')
    BY <1>2, <1>3, <1>4, RecordCells
  <1> QED
    BY <1>3, <1>5 DEF Recorded

LEMMA WalkEdgeEffect ==
  ASSUME TypeOK, JudgeTypeOK, Judge!WalkEdge, Quiet
  PROVE  /\ step > Length(block) + 1
         /\ step - Length(block) - 1 \in DOMAIN program.next[block]
         /\ program.next[block][step - Length(block) - 1] \in program.blocks
         /\ UNCHANGED <<expected, value>>
         /\ PathQueued(program.next[block][step - Length(block) - 1], value)
  <1>0. InWalk
    BY DEF InWalk
  <1>1. /\ program \in Programs /\ block \in program.blocks /\ value \in Value
        /\ Len(Judge!Code) = Length(block) /\ Judge!Successors = program.next[block]
        /\ Length(block) \in Nat /\ step \in Nat /\ Len(program.next[block]) \in Nat
        /\ DOMAIN program.next[block] = 1 .. Len(program.next[block])
        /\ step <= Length(block) + 1 + Len(program.next[block])
    BY <1>0, WalkFacts
  <1>2. step > Length(block) + 1 /\ UNCHANGED <<expected, value>>
        /\ Judge!Enqueue(program.next[block][step - Length(block) - 1], value)
    BY <1>1 DEF Judge!WalkEdge
  <1>3. step - Length(block) - 1 \in DOMAIN program.next[block]
    BY <1>1, <1>2
  <1>4. program.next[block][step - Length(block) - 1] \in program.blocks
    BY <1>1, <1>3, ProgramsAssumption DEF WellFormed
  <1> QED
    BY <1>1, <1>2, <1>3, <1>4, EnqueueQueues

LEMMA TakePathEffect ==
  ASSUME TypeOK, JudgeTypeOK, Judge!TakePath, Quiet
  PROVE  /\ program' = program /\ program \in Programs /\ delivered' = delivered
         /\ slot # 0 /\ slot' = slot /\ Slot \in program.outputs /\ Slot' = Slot /\ Slots' = Slots
         /\ UNCHANGED <<visited, verdict>> /\ block = NoBlock /\ step' = 1
         /\ paths # <<>> /\ paths[1] = <<block', value'>>
         /\ block' \in program.blocks /\ value' \in Value
         /\ paths' \in Seq(program.blocks \X Value)
         /\ \A i \in DOMAIN paths' : i + 1 \in DOMAIN paths /\ paths'[i] = paths[i + 1]
         /\ \A i \in DOMAIN paths : i = 1 \/ (i - 1 \in DOMAIN paths' /\ paths'[i - 1] = paths[i])
         /\ expected' \in [Points(program) -> Row(program)]
         /\ \A q \in Points(program) : \A o \in program.outputs :
              expected'[q][o] = IF q = Entry(block') /\ o = Slot
                                THEN expected[q][o] \cup {value'} ELSE expected[q][o]
  <1>1. /\ program' = program /\ slot' = slot /\ delivered' = delivered
        /\ UNCHANGED <<visited, verdict>> /\ block = NoBlock /\ step' = 1
        /\ paths # <<>> /\ paths' = Tail(paths)
        /\ block' = Head(paths)[1] /\ value' = Head(paths)[2]
        /\ expected' = Judge!Record(expected, Entry(block'), value')
    BY JudgeMeans DEF Judge!TakePath, Quiet, vars
  <1>2. slot # 0 /\ paths \in Seq(program.blocks \X Value)
        /\ expected \in [Points(program) -> Row(program)] /\ program \in Programs
    BY <1>1 DEF JudgeTypeOK, TypeOK
  <1>3. Slot \in program.outputs /\ Slot' = Slot /\ Slots' = Slots
    BY <1>1, <1>2, SlotFacts DEF Slot, Slots
  <1>4. Head(paths) = paths[1] /\ Head(paths) \in program.blocks \X Value
    BY <1>1, <1>2
  <1>5. block' \in program.blocks /\ value' \in Value /\ paths[1] = <<block', value'>>
    BY <1>1, <1>4
  <1>6. /\ paths' \in Seq(program.blocks \X Value)
        /\ \A i \in DOMAIN paths' : i + 1 \in DOMAIN paths /\ paths'[i] = paths[i + 1]
        /\ \A i \in DOMAIN paths : i = 1 \/ (i - 1 \in DOMAIN paths' /\ paths'[i - 1] = paths[i])
    <2>1. paths' \in Seq(program.blocks \X Value)
      BY <1>1, <1>2
    <2> DEFINE S == program.blocks \X Value
    <2>2. paths \in Seq(S) /\ paths # <<>> /\ paths' = Tail(paths)
      BY <1>1, <1>2
    <2> HIDE DEF S
    <2>3. \A i \in DOMAIN paths' : i + 1 \in DOMAIN paths /\ paths'[i] = paths[i + 1]
      BY <2>2
    <2>4. \A i \in DOMAIN paths : i = 1 \/ (i - 1 \in DOMAIN paths' /\ paths'[i - 1] = paths[i])
      BY <2>2
    <2> QED
      BY <2>1, <2>3, <2>4
  <1>7. Entry(block') \in Points(program)
    BY <1>2, <1>5, PointKinds
  <1>8. /\ expected' \in [Points(program) -> Row(program)]
        /\ \A q \in Points(program) : \A o \in program.outputs :
             expected'[q][o] = IF q = Entry(block') /\ o = Slot
                               THEN expected[q][o] \cup {value'} ELSE expected[q][o]
    <2>1. value' \in Value /\ Slot \in program.outputs
          /\ expected \in [Points(program) -> Row(program)]
      BY <1>2, <1>3, <1>5
    <2>2. expected' = Judge!Record(expected, Entry(block'), value')
      BY <1>1
    <2>3. Recorded(expected, Entry(block'), value', expected')
      BY <1>7, <2>1, <2>2, RecordCells
    <2> QED
      BY <2>3 DEF Recorded
  <1> QED
    BY <1>1, <1>2, <1>3, <1>5, <1>6, <1>8

-----------------------------------------------------------------------------
(* The types.                                                              *)

LEMMA BlockLengths ==
  ASSUME TypeOK, NEW b \in program.blocks
  PROVE  /\ Length(b) \in Nat /\ DOMAIN program.code[b] = 1 .. Length(b)
         /\ Len(program.next[b]) \in Nat /\ DOMAIN program.next[b] = 1 .. Len(program.next[b])
         /\ b # NoBlock
         /\ Entry(b) \in Points(program) /\ Exit(b) \in Points(program)
         /\ Exception(b) \in Points(program)
         /\ \A k \in DOMAIN program.code[b] :
              Before(b, k) \in Points(program) /\ After(b, k) \in Points(program)
         /\ \A k \in 0 .. Length(b) : Arrived(b, k) \in Points(program)
  <1>1. /\ Entry(b) \in Points(program) /\ Exit(b) \in Points(program)
        /\ Exception(b) \in Points(program)
        /\ \A k \in DOMAIN program.code[b] :
             Before(b, k) \in Points(program) /\ After(b, k) \in Points(program)
    BY PointKinds DEF TypeOK
  <1> QED
    BY <1>1, CodeDomain DEF Arrived

LEMMA QuietTypes ==
  ASSUME TypeOK, Quiet
  PROVE  TypeOK' /\ program' = program /\ delivered' = delivered /\ Slots' = Slots
         /\ Reach[program'] = Reach[program]
  <1>1. UNCHANGED vars /\ delivered' = delivered
    BY DEF Quiet
  <1>2. TypeOK'
    BY <1>1, NextType
  <1> QED
    BY <1>1, <1>2 DEF vars, Slots

LEMMA WalkTypes ==
  ASSUME TypeOK, JudgeTypeOK, InWalk, Quiet
  PROVE  JudgeTypeOK'
  <1>1. /\ program' = program /\ delivered' = delivered /\ slot' = slot /\ verdict' = verdict
        /\ Slots' = Slots /\ slot # 0 /\ block \in program.blocks /\ value \in Value
        /\ step \in Nat \ {0} /\ step' = step + 1
        /\ Length(block) \in Nat /\ Len(program.next[block]) \in Nat
        /\ block' = IF step > Length(block) + Len(program.next[block]) THEN NoBlock ELSE block
    BY WalkFacts
  <1>2. /\ expected' \in [Points(program) -> Row(program)]
        /\ value' \in Value
        /\ visited' \subseteq program.blocks \X Value
        /\ paths' \in Seq(program.blocks \X Value)
    <2>0. /\ expected \in [Points(program) -> Row(program)]
          /\ visited \subseteq program.blocks \X Value /\ paths \in Seq(program.blocks \X Value)
      BY DEF JudgeTypeOK
    <2>1. CASE Judge!WalkInstruction
      BY <1>1, <2>0, <2>1, WalkInstructionEffect DEF PathQueued
    <2>2. CASE Judge!WalkExit
      BY <1>1, <2>0, <2>2, WalkExitEffect
    <2>3. CASE Judge!WalkEdge
      BY <1>1, <2>0, <2>3, WalkEdgeEffect DEF PathQueued
    <2> QED
      BY <2>1, <2>2, <2>3 DEF InWalk
  <1>3. block' # NoBlock => step' <= (Length(block) + 1 + Len(program.next[block]))'
    <2> SUFFICES ASSUME block' # NoBlock
                 PROVE  step' <= (Length(block) + 1 + Len(program.next[block]))'
      OBVIOUS
    <2>1. block' = block /\ step <= Length(block) + Len(program.next[block])
      BY <1>1
    <2>2. Length(block)' = Length(block) /\ Len(program.next[block])' = Len(program.next[block])
      BY <1>1, <2>1 DEF Length
    <2> QED
      BY <1>1, <2>1, <2>2
  <1>4. /\ slot' \in 0 .. Len(Slots') /\ verdict' \in {"none", "accepted", "rejected"}
        /\ delivered' # {} => Table' \in [Points(program) -> Row(program)]
    BY <1>1 DEF JudgeTypeOK, Table
  <1>5. block' \in program.blocks \cup {NoBlock} /\ step' \in Nat \ {0}
    BY <1>1
  <1>6. Points(program)' = Points(program) /\ Row(program)' = Row(program)
    BY <1>1
  <1> QED
    BY <1>1, <1>2, <1>3, <1>4, <1>5, <1>6 DEF JudgeTypeOK

-----------------------------------------------------------------------------
(* A walk: it stands where an execution stands, with the execution's value.*)

LEMMA WalkRealised ==
  ASSUME TypeOK, JudgeTypeOK, RecordedRealised, ValueIsRecorded, InWalk, Quiet
  PROVE  \E s \in Reach[program] :
           /\ s.block = block /\ value = ValueOf(Slot, s)
           /\ s.done = IF step <= Length(block) + 1 THEN step - 1 ELSE Length(block)
  <1>1. /\ block \in program.blocks /\ block # NoBlock /\ Slot \in program.outputs
        /\ step \in Nat \ {0} /\ Length(block) \in Nat
        /\ DOMAIN program.code[block] = 1 .. Length(block)
    BY WalkFacts
  <1> DEFINE place == IF step <= Length(block) + 1 THEN Arrived(block, step - 1) ELSE Exit(block)
             count == IF step <= Length(block) + 1 THEN step - 1 ELSE Length(block)
  <1>2. place \in Points(program)
    BY <1>1, BlockLengths
  <1>3. value \in expected[place][Slot]
    BY <1>1 DEF ValueIsRecorded, Cells
  <1>4. Collected(program, Reach[program], place, Slot) = Realised(block, count, Slot)
    <2>1. CASE step = 1
      BY <1>1, <2>1, CollectedAt DEF Arrived
    <2>2. CASE step # 1 /\ step <= Length(block) + 1
      <3>1. step - 1 \in DOMAIN program.code[block] /\ place = After(block, step - 1)
            /\ count = step - 1
        BY <1>1, <2>2 DEF Arrived
      <3> HIDE DEF place, count
      <3> QED
        BY <1>1, <3>1, CollectedAt
    <2>3. CASE step > Length(block) + 1
      <3>1. place = Exit(block) /\ count = Len(program.code[block])
        BY <1>1, <2>3 DEF Length
      <3> HIDE DEF place, count
      <3> QED
        BY <1>1, <3>1, CollectedAt
    <2> QED
      BY <1>1, <2>1, <2>2, <2>3
  <1> HIDE DEF place
  <1>5. value \in Realised(block, count, Slot)
    BY <1>1, <1>2, <1>3, <1>4 DEF RecordedRealised
  <1> QED
    BY <1>5 DEF Realised

(* A path is queued that an execution enters.                              *)
LEMMA QueuedRealised ==
  ASSUME TypeOK, PathsRealised, PendingVisited, slot # 0, slot' = slot, Slot' = Slot,
         program' = program, NEW b, NEW v, PathQueued(b, v),
         NEW s \in Reach[program], s.block = b, s.done = 0, v = ValueOf(Slot, s)
  PROVE  PathsRealised' /\ PendingVisited'
  <1>1. \A path \in visited' : path \in visited \/ path = <<b, v>>
    BY DEF PathQueued
  <1>2. PathsRealised'
    BY <1>1 DEF PathsRealised
  <1>3. PendingVisited'
    BY DEF PendingVisited, PathQueued
  <1> QED
    BY <1>2, <1>3

(* The values of the output of this slot after a step.                     *)
New(pt) == expected'[pt][Slot]

LEMMA QueuedKept ==
  ASSUME PathsKept, slot # 0, slot' = slot, Slot' = Slot, program' = program,
         NEW b, NEW v, PathQueued(b, v),
         \A path \in visited : Cells(Entry(path[1])) \subseteq New(Entry(path[1]))
  PROVE  PathsKept'
  <1>1. Judge!Start(program, Slot) \in visited'
    BY DEF PathsKept, PathQueued
  <1>2. ASSUME NEW path \in visited'
        PROVE  path[2] \in New(Entry(path[1])) \/ \E i \in DOMAIN paths' : paths'[i] = path
    <2>1. CASE path \in visited
      <3>1. CASE path[2] \in Cells(Entry(path[1]))
        BY <2>1, <3>1
      <3>2. CASE \E i \in DOMAIN paths : paths[i] = path
        BY <3>2 DEF PathQueued
      <3> QED
        BY <2>1, <3>1, <3>2 DEF PathsKept
    <2>2. CASE path \notin visited
      BY <1>2, <2>2 DEF PathQueued
    <2> QED
      BY <2>1, <2>2
  <1>3. Judge!Start(program, Slot)' = Judge!Start(program, Slot)
    BY DEF Judge!Start
  <1> QED
    BY <1>1, <1>2, <1>3 DEF PathsKept, Cells, New

-----------------------------------------------------------------------------
(* Each step of the verifier keeps the invariant.                          *)

(* Outputs of other slots are left alone by a step within a slot.          *)
LEMMA OtherSlotsKept ==
  ASSUME TypeOK, JudgeTypeOK, EarlierComplete, LaterEmpty, slot # 0,
         slot' = slot, Slots' = Slots, program' = program, Reach[program'] = Reach[program],
         \A q \in Points(program) : \A o \in program.outputs : o # Slot => expected'[q][o] = expected[q][o]
  PROVE  EarlierComplete' /\ LaterEmpty'
  <1>1. ASSUME NEW i \in DOMAIN Slots, i # slot, NEW q \in Points(program)
        PROVE  expected'[q][Slots[i]] = expected[q][Slots[i]]
    <2>1. Slots[i] # Slot /\ Slots[i] \in program.outputs
      BY <1>1, SlotFacts DEF Slot
    <2> QED
      BY <2>1
  <1>2. slot \in Nat /\ DOMAIN Slots \subseteq Nat
    BY SlotFacts
  <1>3. ASSUME NEW i \in DOMAIN Slots, i < slot PROVE Complete(Slots[i])'
    <2>1. i # slot
      BY <1>2, <1>3
    <2>2. Complete(Slots[i])
      BY <1>3 DEF EarlierComplete
    <2> QED
      BY <1>1, <2>1, <2>2 DEF Complete
  <1>4. ASSUME NEW i \in DOMAIN Slots, i > slot, NEW q \in Points(program)
        PROVE  expected'[q][Slots[i]] = {}
    <2>1. i # slot
      BY <1>2, <1>4
    <2> QED
      BY <1>1, <1>4, <2>1 DEF LaterEmpty
  <1>5. EarlierComplete'
    BY <1>3 DEF EarlierComplete, Complete
  <1> QED
    BY <1>4, <1>5 DEF LaterEmpty

LEMMA WalkNoVerdict ==
  ASSUME TypeOK, JudgeTypeOK, VerdictGiven, verdict' = verdict, block # NoBlock \/ paths # <<>>
  PROVE  VerdictGiven'
  BY DEF VerdictGiven

LEMMA WalkInstructionKeeps ==
  ASSUME JudgeInv, Judge!WalkInstruction, Quiet
  PROVE  JudgeInv'
  <1> USE DEF JudgeInv
  <1>0. InWalk
    BY DEF InWalk
  <1>1. /\ program' = program /\ program \in Programs
        /\ slot' = slot /\ verdict' = verdict
        /\ slot # 0 /\ Slot \in program.outputs /\ Slot' = Slot /\ Slots' = Slots
        /\ block \in program.blocks /\ block # NoBlock
        /\ step \in Nat \ {0} /\ step' = step + 1 /\ value \in Value
        /\ DOMAIN program.code[block] = 1 .. Length(block) /\ Length(block) \in Nat
        /\ Len(program.next[block]) \in Nat
        /\ block' = IF step > Length(block) + Len(program.next[block]) THEN NoBlock ELSE block
        /\ Reach[program'] = Reach[program]
    BY <1>0, WalkFacts
  <1>2. /\ step \in 1 .. Length(block) /\ step \in DOMAIN program.code[block]
        /\ value' = WrittenValue(block, step, value) /\ value' \in Value
    BY <1>1, WalkInstructionEffect
  <1>3. \A q \in Points(program) : \A o \in program.outputs :
          expected'[q][o] = expected[q][o] \cup
            IF o # Slot THEN {}
            ELSE IF q = Before(block, step) THEN {value}
            ELSE IF q = After(block, step) THEN {value'}
            ELSE IF q = Exception(block) /\ CanFail(program, block, step) THEN {value}
            ELSE {}
    BY WalkInstructionEffect
  <1>4. IF CanFail(program, block, step)
        THEN program.handler[block] \in program.blocks
             /\ PathQueued(program.handler[block], value)
        ELSE UNCHANGED <<visited, paths>>
    BY WalkInstructionEffect
  <1>5. TypeOK' /\ JudgeTypeOK'
    BY <1>0, QuietTypes, WalkTypes
  <1>6. PICK s \in Reach[program] : s.block = block /\ value = ValueOf(Slot, s) /\ s.done = step - 1
    BY <1>0, <1>1, <1>2, WalkRealised
  <1>7. \A q \in Points(program) :
          New(q) = Cells(q) \cup
            IF q = Before(block, step) THEN {value}
            ELSE IF q = After(block, step) THEN {value'}
            ELSE IF q = Exception(block) /\ CanFail(program, block, step) THEN {value}
            ELSE {}
    BY <1>1, <1>3 DEF Cells, New
  <1>8. /\ Before(block, step) \in Points(program) /\ After(block, step) \in Points(program)
        /\ Exception(block) \in Points(program)
        /\ Before(block, step) # After(block, step) /\ Before(block, step) # Exception(block)
        /\ After(block, step) # Exception(block)
    BY <1>1, <1>2, BlockLengths, PointsDiffer
  <1>9. PathsRealised' /\ PendingVisited'
    <2>1. CASE CanFail(program, block, step)
      <3>1. Entered(program.handler[block], s) \in Reach[program]
        <4>1. s.done + 1 = step
          BY <1>1, <1>6
        <4> QED
          BY <1>1, <1>6, <2>1, <4>1, ReachSteps
      <3>2. /\ Entered(program.handler[block], s).block = program.handler[block]
            /\ Entered(program.handler[block], s).done = 0
            /\ ValueOf(Slot, Entered(program.handler[block], s)) = value
        BY <1>6, EnteredValue
      <3>3. PathQueued(program.handler[block], value)
        BY <1>4, <2>1
      <3> QED
        BY <1>1, <3>1, <3>2, <3>3, QueuedRealised
    <2>2. CASE ~ CanFail(program, block, step)
      BY <1>1, <1>4, <2>2 DEF PathsRealised, PendingVisited
    <2> QED
      BY <2>1, <2>2
  <1>10. RecordedRealised'
    <2>1. /\ value \in Collected(program, Reach[program], Before(block, step), Slot)
          /\ CanFail(program, block, step) =>
               value \in Collected(program, Reach[program], Exception(block), Slot)
      BY SMTT(30), <1>1, <1>2, <1>6, CollectedAt DEF Realised
    <2>2. value' \in Collected(program, Reach[program], After(block, step), Slot)
      <3>1. Committed(program, s) \in Reach[program]
        <4>1. s.done < Len(program.code[block])
          BY <1>1, <1>2, <1>6 DEF Length
        <4> QED
          BY <1>1, <1>6, <4>1, ReachSteps
      <3>2. /\ Committed(program, s).block = block /\ Committed(program, s).done = step
            /\ ValueOf(Slot, Committed(program, s)) = value'
        BY <1>1, <1>2, <1>6 DEF Committed, ValueOf, WrittenValue
      <3> QED
        <4>1. value' \in Realised(block, step, Slot)
          BY <3>1, <3>2 DEF Realised
        <4> QED
          BY <1>1, <1>2, <4>1, CollectedAt
    <2>3. ASSUME NEW q \in Points(program), NEW o \in program.outputs
          PROVE  expected'[q][o] \subseteq Collected(program, Reach[program], q, o)
      <3>1. expected[q][o] \subseteq Collected(program, Reach[program], q, o)
        BY DEF RecordedRealised
      <3> QED
        BY <1>3, <2>1, <2>2, <3>1
    <2> QED
      BY <1>1, <2>3 DEF RecordedRealised
  <1>11. ValueIsRecorded'
    <2>1. CASE block' = NoBlock
      BY <2>1 DEF ValueIsRecorded
    <2>2. CASE block' # NoBlock
      <3>0. block' = block /\ step' <= Length(block) + 1
        BY <1>1, <1>2, <2>2
      <3>1. block' = block /\ Length(block)' = Length(block) /\ step' <= Length(block) + 1
        BY <1>1, <3>0 DEF Length
      <3>2. Arrived(block, step' - 1) = After(block, step)
        BY <1>1 DEF Arrived
      <3>3. value' \in New(After(block, step))
        BY <1>7, <1>8
      <3>4. Arrived(block, step - 1)' = Arrived(block, step' - 1)
        BY <3>1 DEF Arrived, Entry, After
      <3>5. value' \in expected'[Arrived(block, step - 1)'][Slot']
        BY <1>1, <3>2, <3>3, <3>4 DEF New
      <3> QED
        BY <3>1, <3>5 DEF ValueIsRecorded, Cells
    <2> QED
      BY <2>1, <2>2
  <1>12. ASSUME NEW b \in program.blocks
         PROVE  /\ \A k \in DOMAIN program.code[b] : ArrivedSeen(b, k)' /\ BeforeSeen(b, k)'
                /\ LastSeen(b)'
                /\ \A j \in DOMAIN program.next[b] : ExitSeen(b, j)'
    <2>0. /\ Length(b) \in Nat /\ DOMAIN program.code[b] = 1 .. Length(b)
          /\ Entry(b) \in Points(program) /\ Exit(b) \in Points(program)
          /\ Exception(b) \in Points(program) /\ Length(b)' = Length(b)
          /\ \A k \in DOMAIN program.code[b] :
               Before(b, k) \in Points(program) /\ After(b, k) \in Points(program)
          /\ \A k \in 0 .. Length(b) : Arrived(b, k) \in Points(program)
      BY <1>1, BlockLengths DEF Length
    <2>1. ASSUME NEW k \in 0 .. Length(b), NEW v \in New(Arrived(b, k))
          PROVE  v \in Cells(Arrived(b, k)) \/ (b = block /\ k = step /\ v = value')
      <3>1. Arrived(b, k) # Before(block, step) /\ Arrived(b, k) # Exception(block)
        BY PointsDiffer DEF Arrived
      <3>2. Arrived(b, k) = After(block, step) => b = block /\ k = step
        BY PointsDiffer DEF Arrived
      <3> QED
        BY <1>7, <2>0, <2>1, <3>1, <3>2
    <2>2. ASSUME NEW k \in DOMAIN program.code[b] PROVE ArrivedSeen(b, k)'
      <3>1. k - 1 \in 0 .. Length(b) /\ k \in 1 .. Length(b) /\ k \in Nat
        BY <2>0
      <3>2. ASSUME NEW v \in New(Arrived(b, k - 1))
            PROVE  v \in New(Before(b, k)) \/ Walking(b, k, v)'
        <4>1. CASE v \in Cells(Arrived(b, k - 1))
          <5>1. v \in Cells(Before(b, k)) \/ (b = block /\ k = step /\ v = value)
            BY <1>1, <4>1 DEF ValuesWalked, ArrivedSeen, Walking
          <5>2. v \in Cells(Before(b, k)) => v \in New(Before(b, k))
            BY <1>7, <2>0
          <5>3. value \in New(Before(block, step))
            BY <1>7, <1>8
          <5> QED
            BY <5>1, <5>2, <5>3
        <4>2. CASE b = block /\ k - 1 = step /\ v = value'
          <5>1. block' = block /\ k = step'
            BY <1>1, <3>1, <4>2
          <5> QED
            BY <4>2, <5>1 DEF Walking
        <4> QED
          BY <2>1, <3>1, <3>2, <4>1, <4>2
      <3> QED
        BY <1>1, <3>2 DEF ArrivedSeen, Cells, New
    <2>3. ASSUME NEW k \in DOMAIN program.code[b] PROVE BeforeSeen(b, k)'
      <3>0. WrittenValue(b, k, value) = IF Slot \in program.code[b][k].writes THEN "assigned" ELSE value
        BY DEF WrittenValue
      <3>1. ASSUME NEW v \in New(Before(b, k))
            PROVE  /\ WrittenValue(b, k, v)' \in New(After(b, k))
                   /\ CanFail(program, b, k) =>
                        v \in New(Exception(b)) /\ <<program.handler[b], v>> \in visited'
        <4>0. /\ New(Before(b, k)) = Cells(Before(b, k)) \cup
                   (IF b = block /\ k = step THEN {value} ELSE {})
              /\ Cells(After(b, k)) \subseteq New(After(b, k))
              /\ Cells(Exception(b)) \subseteq New(Exception(b))
              /\ visited \subseteq visited'
          <5>1. /\ Before(b, k) = Before(block, step) <=> (b = block /\ k = step)
                /\ Before(b, k) # After(block, step) /\ Before(b, k) # Exception(block)
            BY PointsDiffer
          <5>3. visited \subseteq visited'
            BY <1>4 DEF PathQueued
          <5> QED
            BY <1>7, <2>0, <5>1, <5>3
        <4>1. WrittenValue(b, k, v)' = WrittenValue(b, k, v)
          BY <1>1 DEF WrittenValue
        <4>2. CASE v \in Cells(Before(b, k))
          <5>1. BeforeSeen(b, k)
            BY <1>1 DEF ValuesWalked
          <5> QED
            BY <4>0, <4>1, <4>2, <5>1 DEF BeforeSeen
        <4>3. CASE b = block /\ k = step /\ v = value
          <5>1. value' \in New(After(b, k)) /\ value' = WrittenValue(b, k, v)
            BY <1>2, <1>7, <1>8, <4>3
          <5>2. CanFail(program, b, k) =>
                  v \in New(Exception(b)) /\ <<program.handler[b], v>> \in visited'
            BY <1>4, <1>7, <1>8, <4>3 DEF PathQueued
          <5> QED
            BY <4>1, <5>1, <5>2
        <4> QED
          BY <3>1, <4>0, <4>2, <4>3
      <3> QED
        BY <1>1, <3>1 DEF BeforeSeen, Cells, New
    <2>4. LastSeen(b)'
      <3>1. ASSUME NEW v \in New(Arrived(b, Length(b)))
            PROVE  v \in New(Exit(b)) \/ Walking(b, Length(b) + 1, v)'
        <4>0. Length(b) \in 0 .. Length(b)
          BY <2>0
        <4>1. CASE v \in Cells(Arrived(b, Length(b)))
          <5>1. v \in Cells(Exit(b)) \/ (b = block /\ Length(b) + 1 = step /\ v = value)
            BY <1>1, <4>1 DEF ValuesWalked, LastSeen, Walking
          <5>2. v \in Cells(Exit(b))
            BY <1>1, <1>2, <5>1
          <5> QED
            BY <1>7, <2>0, <5>2
        <4>2. CASE b = block /\ Length(b) = step /\ v = value'
          <5>1. block' = block /\ Length(b) + 1 = step'
            BY <1>1, <4>2
          <5> QED
            BY <2>0, <4>2, <5>1 DEF Walking
        <4> QED
          BY <2>1, <3>1, <4>0, <4>1, <4>2
      <3> QED
        BY <1>1, <2>0, <3>1 DEF LastSeen, Cells, New, Arrived, Entry, After
    <2>5. ASSUME NEW j \in DOMAIN program.next[b] PROVE ExitSeen(b, j)'
      <3>1. New(Exit(b)) = Cells(Exit(b)) /\ visited \subseteq visited'
        <4>1. Exit(b) # Before(block, step) /\ Exit(b) # After(block, step) /\ Exit(b) # Exception(block)
          BY PointsDiffer
        <4>2. visited \subseteq visited'
          BY <1>4 DEF PathQueued
        <4> QED
          BY <1>7, <2>0, <4>1, <4>2
      <3>2. ~ (b = block /\ step \in Length(b) + 2 .. Length(b) + 1 + j)
        BY <1>1, <1>2
      <3>3. ExitSeen(b, j)
        BY <1>1 DEF ValuesWalked
      <3> QED
        BY <1>1, <3>1, <3>2, <3>3 DEF ExitSeen, Cells, New
    <2> QED
      BY <2>2, <2>3, <2>4, <2>5
  <1>13. ValuesWalked'
    BY <1>1, <1>12 DEF ValuesWalked
  <1>14. PathsKept'
    <2>1. ASSUME NEW path \in visited PROVE Cells(Entry(path[1])) \subseteq New(Entry(path[1]))
      <3>1. path[1] \in program.blocks
        BY DEF JudgeTypeOK
      <3>2. Entry(path[1]) \in Points(program)
        BY <3>1, BlockLengths
      <3> QED
        BY <1>7, <3>2
    <2>2. CASE CanFail(program, block, step)
      BY <1>1, <1>4, <2>1, <2>2, QueuedKept
    <2>3. CASE ~ CanFail(program, block, step)
      <3>1. visited' = visited /\ paths' = paths
        BY <1>4, <2>3
      <3>2. Judge!Start(program, Slot)' = Judge!Start(program, Slot)
        BY <1>1 DEF Judge!Start
      <3>3. \A path \in visited :
              path[2] \in New(Entry(path[1])) \/ \E i \in DOMAIN paths : paths[i] = path
        BY <1>1, <2>1 DEF PathsKept
      <3> QED
        BY <1>1, <3>1, <3>2, <3>3 DEF PathsKept, Cells, New
    <2> QED
      BY <2>2, <2>3
  <1>15. EarlierComplete' /\ LaterEmpty'
    <2>1. \A q \in Points(program) : \A o \in program.outputs :
            o # Slot => expected'[q][o] = expected[q][o]
      <3> SUFFICES ASSUME NEW q \in Points(program), NEW o \in program.outputs, o # Slot
                   PROVE  expected'[q][o] = expected[q][o]
        OBVIOUS
      <3>1. expected'[q][o] = expected[q][o] \cup {}
        BY <1>3
      <3> QED
        BY <3>1
    <2> QED
      BY <1>1, <2>1, OtherSlotsKept
  <1>16. VerdictGiven'
    BY <1>1, WalkNoVerdict
  <1> QED
    BY <1>5, <1>9, <1>10, <1>11, <1>13, <1>14, <1>15, <1>16

LEMMA WalkExitKeeps ==
  ASSUME JudgeInv, Judge!WalkExit, Quiet
  PROVE  JudgeInv'
  <1> USE DEF JudgeInv
  <1>0. InWalk
    BY DEF InWalk
  <1>1. /\ program' = program /\ program \in Programs
        /\ slot' = slot /\ verdict' = verdict
        /\ slot # 0 /\ Slot \in program.outputs /\ Slot' = Slot /\ Slots' = Slots
        /\ block \in program.blocks /\ block # NoBlock
        /\ step \in Nat \ {0} /\ step' = step + 1 /\ value \in Value
        /\ DOMAIN program.code[block] = 1 .. Length(block) /\ Length(block) \in Nat
        /\ Len(program.next[block]) \in Nat
        /\ block' = IF step > Length(block) + Len(program.next[block]) THEN NoBlock ELSE block
        /\ Reach[program'] = Reach[program]
    BY <1>0, WalkFacts
  <1>2. step = Length(block) + 1 /\ visited' = visited /\ paths' = paths /\ value' = value
    BY WalkExitEffect
  <1>3. \A q \in Points(program) : \A o \in program.outputs :
          expected'[q][o] = IF q = Exit(block) /\ o = Slot
                            THEN expected[q][o] \cup {value} ELSE expected[q][o]
    BY WalkExitEffect
  <1>4. \A q \in Points(program) :
          New(q) = IF q = Exit(block) THEN Cells(q) \cup {value} ELSE Cells(q)
    BY <1>1, <1>3 DEF Cells, New
  <1>5. TypeOK' /\ JudgeTypeOK'
    BY <1>0, QuietTypes, WalkTypes
  <1>6. PICK s \in Reach[program] :
          s.block = block /\ value = ValueOf(Slot, s) /\ s.done = Length(block)
    BY <1>0, <1>1, <1>2, WalkRealised
  <1>7. Exit(block) \in Points(program)
    BY <1>1, BlockLengths
  <1>8. Judge!Start(program, Slot)' = Judge!Start(program, Slot)
    BY <1>1 DEF Judge!Start
  <1>9. PathsRealised' /\ PendingVisited'
    BY <1>1, <1>2 DEF PathsRealised, PendingVisited
  <1>10. RecordedRealised'
    <2>1. value \in Collected(program, Reach[program], Exit(block), Slot)
      <3>1. value \in Realised(block, Len(program.code[block]), Slot)
        BY <1>6 DEF Realised, Length
      <3> QED
        BY <1>1, <3>1, CollectedAt
    <2>2. ASSUME NEW q \in Points(program), NEW o \in program.outputs
          PROVE  expected'[q][o] \subseteq Collected(program, Reach[program], q, o)
      <3>1. expected[q][o] \subseteq Collected(program, Reach[program], q, o)
        BY DEF RecordedRealised
      <3> QED
        BY <1>3, <2>1, <3>1
    <2> QED
      BY <1>1, <2>2 DEF RecordedRealised
  <1>11. ValueIsRecorded'
    <2>1. CASE block' = NoBlock
      BY <2>1 DEF ValueIsRecorded
    <2>2. CASE block' # NoBlock
      <3>0. block' = block /\ step' = Length(block) + 2
        BY <1>1, <1>2, <2>2
      <3>1. Length(block)' = Length(block)
        BY <1>1, <3>0 DEF Length
      <3>2. ~ (step' <= Length(block)' + 1)
        BY <1>1, <3>0, <3>1
      <3>3. value' \in New(Exit(block))
        BY <1>2, <1>4, <1>7
      <3>4. Exit(block)' = Exit(block)
        BY <3>0 DEF Exit
      <3>5. value' \in expected'[Exit(block)'][Slot']
        BY <1>1, <3>3, <3>4 DEF New
      <3> QED
        BY <3>2, <3>5 DEF ValueIsRecorded, Cells
    <2> QED
      BY <2>1, <2>2
  <1>12. ASSUME NEW b \in program.blocks
         PROVE  /\ \A k \in DOMAIN program.code[b] : ArrivedSeen(b, k)' /\ BeforeSeen(b, k)'
                /\ LastSeen(b)'
                /\ \A j \in DOMAIN program.next[b] : ExitSeen(b, j)'
    <2>0. /\ Length(b) \in Nat /\ DOMAIN program.code[b] = 1 .. Length(b)
          /\ Entry(b) \in Points(program) /\ Exit(b) \in Points(program)
          /\ Exception(b) \in Points(program) /\ Length(b)' = Length(b)
          /\ \A k \in DOMAIN program.code[b] :
               Before(b, k) \in Points(program) /\ After(b, k) \in Points(program)
          /\ \A k \in 0 .. Length(b) : Arrived(b, k) \in Points(program)
      BY <1>1, BlockLengths DEF Length
    <2>1. /\ \A k \in 0 .. Length(b) : New(Arrived(b, k)) = Cells(Arrived(b, k))
          /\ \A k \in DOMAIN program.code[b] :
               New(Before(b, k)) = Cells(Before(b, k)) /\ New(After(b, k)) = Cells(After(b, k))
          /\ New(Exception(b)) = Cells(Exception(b))
          /\ New(Exit(b)) = Cells(Exit(b)) \cup (IF b = block THEN {value} ELSE {})
      <3>1. ASSUME NEW k PROVE Arrived(b, k) # Exit(block)
        BY PointsDiffer DEF Arrived
      <3>2. ASSUME NEW k PROVE Before(b, k) # Exit(block) /\ After(b, k) # Exit(block)
        BY PointsDiffer
      <3>3. Exception(b) # Exit(block) /\ (Exit(b) = Exit(block) <=> b = block)
        BY PointsDiffer
      <3> QED
        BY <1>4, <2>0, <3>1, <3>2, <3>3
    <2>2. ASSUME NEW k \in DOMAIN program.code[b] PROVE ArrivedSeen(b, k)'
      <3>1. k - 1 \in 0 .. Length(b) /\ k \in 1 .. Length(b) /\ k \in Nat
        BY <2>0
      <3>2. ASSUME NEW v \in New(Arrived(b, k - 1)) PROVE v \in New(Before(b, k))
        <4>1. v \in Cells(Arrived(b, k - 1))
          BY <2>1, <3>1
        <4>2. v \in Cells(Before(b, k)) \/ (b = block /\ k = step)
          BY <1>1, <4>1 DEF ValuesWalked, ArrivedSeen, Walking
        <4>3. ~ (b = block /\ k = step)
          BY <1>1, <1>2, <3>1
        <4> QED
          BY <2>1, <4>2, <4>3
      <3> QED
        BY <1>1, <3>2 DEF ArrivedSeen, Cells, New
    <2>3. ASSUME NEW k \in DOMAIN program.code[b] PROVE BeforeSeen(b, k)'
      <3>1. BeforeSeen(b, k)
        BY <1>1 DEF ValuesWalked
      <3>2. \A v : WrittenValue(b, k, v)' = WrittenValue(b, k, v)
        BY <1>1 DEF WrittenValue
      <3>3. ASSUME NEW v \in New(Before(b, k))
            PROVE  /\ WrittenValue(b, k, v)' \in New(After(b, k))
                   /\ CanFail(program, b, k) =>
                        v \in New(Exception(b)) /\ <<program.handler[b], v>> \in visited'
        <4>1. /\ WrittenValue(b, k, v) \in Cells(After(b, k))
              /\ CanFail(program, b, k) =>
                   v \in Cells(Exception(b)) /\ <<program.handler[b], v>> \in visited
          BY <2>1, <3>1 DEF BeforeSeen
        <4> QED
          BY <1>2, <2>1, <3>2, <4>1
      <3> QED
        BY <1>1, <3>3 DEF BeforeSeen, Cells, New
    <2>4. LastSeen(b)'
      <3>1. ASSUME NEW v \in New(Arrived(b, Length(b))) PROVE v \in New(Exit(b))
        <4>0. Length(b) \in 0 .. Length(b)
          BY <2>0
        <4>1. v \in Cells(Arrived(b, Length(b)))
          BY <2>1, <4>0
        <4>2. v \in Cells(Exit(b)) \/ (b = block /\ v = value)
          BY <1>1, <4>1 DEF ValuesWalked, LastSeen, Walking
        <4> QED
          BY <2>1, <4>2
      <3> QED
        BY <1>1, <2>0, <3>1 DEF LastSeen, Cells, New, Arrived, Entry, After
    <2>5. ASSUME NEW j \in DOMAIN program.next[b] PROVE ExitSeen(b, j)'
      <3>1. ASSUME NEW v \in New(Exit(b))
            PROVE  \/ <<program.next[b][j], v>> \in visited
                   \/ b = block' /\ v = value /\ step' \in Length(b) + 2 .. Length(b) + 1 + j
        <4>1. CASE v \in Cells(Exit(b))
          <5>1. ~ (b = block /\ step \in Length(b) + 2 .. Length(b) + 1 + j)
            BY <1>1, <1>2
          <5>2. ExitSeen(b, j)
            BY <1>1 DEF ValuesWalked
          <5> QED
            BY <4>1, <5>1, <5>2 DEF ExitSeen
        <4>2. CASE b = block /\ v = value
          <5>1. DOMAIN program.next[b] = 1 .. Len(program.next[b])
            BY BlockLengths
          <5>2. block' = block /\ step' = Length(b) + 2 /\ j \in Nat /\ 1 <= j
            BY SMTT(30), <1>1, <1>2, <4>2, <5>1
          <5>3. step' \in Length(b) + 2 .. Length(b) + 1 + j
            BY <2>0, <5>2
          <5> QED
            BY <4>2, <5>2, <5>3
        <4> QED
          BY <2>1, <3>1, <4>1, <4>2
      <3> QED
        BY <1>1, <1>2, <2>0, <3>1 DEF ExitSeen, Cells, New
    <2> QED
      BY <2>2, <2>3, <2>4, <2>5
  <1>13. ValuesWalked'
    BY <1>1, <1>12 DEF ValuesWalked
  <1>14. PathsKept'
    <2>1. ASSUME NEW path \in visited PROVE Cells(Entry(path[1])) \subseteq New(Entry(path[1]))
      <3>1. path[1] \in program.blocks
        BY DEF JudgeTypeOK
      <3>2. Entry(path[1]) \in Points(program)
        BY <3>1, BlockLengths
      <3> QED
        BY <1>4, <3>2
    <2>2. \A path \in visited :
            path[2] \in New(Entry(path[1])) \/ \E i \in DOMAIN paths : paths[i] = path
      BY <1>1, <2>1 DEF PathsKept
    <2> QED
      BY <1>1, <1>2, <1>8, <2>2 DEF PathsKept, Cells, New
  <1>15. EarlierComplete' /\ LaterEmpty'
    <2>1. \A q \in Points(program) : \A o \in program.outputs :
            o # Slot => expected'[q][o] = expected[q][o]
      BY <1>3
    <2> QED
      BY <1>1, <2>1, OtherSlotsKept
  <1>16. VerdictGiven'
    BY <1>1, WalkNoVerdict
  <1> QED
    BY <1>5, <1>9, <1>10, <1>11, <1>13, <1>14, <1>15, <1>16

LEMMA WalkEdgeKeeps ==
  ASSUME JudgeInv, Judge!WalkEdge, Quiet
  PROVE  JudgeInv'
  <1> USE DEF JudgeInv
  <1> DEFINE edge == step - Length(block) - 1
             target == program.next[block][edge]
  <1>0. InWalk
    BY DEF InWalk
  <1>1. /\ program' = program /\ program \in Programs
        /\ slot' = slot /\ verdict' = verdict
        /\ slot # 0 /\ Slot \in program.outputs /\ Slot' = Slot /\ Slots' = Slots
        /\ block \in program.blocks /\ block # NoBlock
        /\ step \in Nat \ {0} /\ step' = step + 1 /\ value \in Value
        /\ Length(block) \in Nat /\ Len(program.next[block]) \in Nat
        /\ block' = IF step > Length(block) + Len(program.next[block]) THEN NoBlock ELSE block
        /\ Reach[program'] = Reach[program]
    BY <1>0, WalkFacts
  <1>2. /\ step > Length(block) + 1 /\ expected' = expected /\ value' = value
        /\ edge \in DOMAIN program.next[block]
        /\ PathQueued(target, value)
    BY WalkEdgeEffect
  <1>3. visited' = visited \cup {<<target, value>>}
    BY <1>2 DEF PathQueued
  <1>4. \A q \in Points(program) : New(q) = Cells(q)
    BY <1>2 DEF Cells, New
  <1>5. TypeOK' /\ JudgeTypeOK'
    BY <1>0, QuietTypes, WalkTypes
  <1>6. PICK s \in Reach[program] :
          s.block = block /\ value = ValueOf(Slot, s) /\ s.done = Length(block)
    <2>1. ~ (step <= Length(block) + 1)
      BY <1>1, <1>2
    <2> QED
      BY <1>0, <2>1, WalkRealised
  <1>7. PathsRealised' /\ PendingVisited'
    <2>1. Entered(target, s) \in Reach[program]
      <3>1. s.done = Len(program.code[block])
        BY <1>6 DEF Length
      <3> QED
        BY <1>1, <1>2, <1>6, <3>1, ReachSteps
    <2>2. /\ Entered(target, s).block = target /\ Entered(target, s).done = 0
          /\ value = ValueOf(Slot, Entered(target, s))
      BY <1>6, EnteredValue
    <2> HIDE DEF target
    <2> QED
      BY <1>1, <1>2, <2>1, <2>2, QueuedRealised
  <1>8. RecordedRealised'
    BY <1>1, <1>2 DEF RecordedRealised
  <1>9. ValueIsRecorded'
    <2>1. CASE block' = NoBlock
      BY <2>1 DEF ValueIsRecorded
    <2>2. CASE block' # NoBlock
      <3>0. block' = block
        BY <1>1, <2>2
      <3>1. Length(block)' = Length(block) /\ Exit(block)' = Exit(block)
        BY <1>1, <3>0 DEF Length, Exit
      <3>2. ~ (step' <= Length(block)' + 1) /\ ~ (step <= Length(block) + 1)
        BY <1>1, <1>2, <3>0, <3>1
      <3>3. value \in Cells(Exit(block))
        BY <1>1, <3>2 DEF ValueIsRecorded
      <3>4. value' \in expected'[Exit(block)'][Slot']
        BY <1>1, <1>2, <3>1, <3>3 DEF Cells
      <3> QED
        BY <3>2, <3>4 DEF ValueIsRecorded, Cells
    <2> QED
      BY <2>1, <2>2
  <1>10. ASSUME NEW b \in program.blocks
         PROVE  /\ \A k \in DOMAIN program.code[b] : ArrivedSeen(b, k)' /\ BeforeSeen(b, k)'
                /\ LastSeen(b)'
                /\ \A j \in DOMAIN program.next[b] : ExitSeen(b, j)'
    <2>0. /\ Length(b) \in Nat /\ DOMAIN program.code[b] = 1 .. Length(b)
          /\ DOMAIN program.next[b] = 1 .. Len(program.next[b]) /\ Len(program.next[b]) \in Nat
          /\ Length(b)' = Length(b)
      BY <1>1, BlockLengths DEF Length
    <2>1. ASSUME NEW k \in DOMAIN program.code[b] PROVE ArrivedSeen(b, k)'
      <3>1. ~ (b = block /\ k = step)
        BY <1>1, <1>2, <2>0
      <3>2. ArrivedSeen(b, k)
        BY <1>1 DEF ValuesWalked
      <3>3. \A v \in Cells(Arrived(b, k - 1)) : v \in Cells(Before(b, k))
        BY <3>1, <3>2 DEF ArrivedSeen, Walking
      <3> QED
        BY <1>1, <1>2, <3>3 DEF ArrivedSeen, Cells
    <2>2. ASSUME NEW k \in DOMAIN program.code[b] PROVE BeforeSeen(b, k)'
      <3>1. BeforeSeen(b, k)
        BY <1>1 DEF ValuesWalked
      <3>2. \A v : WrittenValue(b, k, v)' = WrittenValue(b, k, v)
        BY <1>1 DEF WrittenValue
      <3> QED
        BY <1>1, <1>2, <1>3, <3>1, <3>2 DEF BeforeSeen, Cells
    <2>3. LastSeen(b)'
      <3>1. ~ (b = block /\ Length(b) + 1 = step)
        BY <1>1, <1>2, <2>0
      <3>2. LastSeen(b)
        BY <1>1 DEF ValuesWalked
      <3>3. \A v \in Cells(Arrived(b, Length(b))) : v \in Cells(Exit(b))
        BY <3>1, <3>2 DEF LastSeen, Walking
      <3> QED
        BY <1>1, <1>2, <2>0, <3>3 DEF LastSeen, Cells
    <2>4. ASSUME NEW j \in DOMAIN program.next[b] PROVE ExitSeen(b, j)'
      <3>1. ASSUME NEW v \in Cells(Exit(b))
            PROVE  \/ <<program.next[b][j], v>> \in visited'
                   \/ b = block' /\ v = value /\ step' \in Length(b) + 2 .. Length(b) + 1 + j
        <4>1. ExitSeen(b, j)
          BY <1>1 DEF ValuesWalked
        <4>2. CASE <<program.next[b][j], v>> \in visited
          BY <1>3, <4>2
        <4>3. CASE b = block /\ v = value /\ step \in Length(b) + 2 .. Length(b) + 1 + j
          <5>1. CASE edge = j
            BY <1>3, <4>3, <5>1
          <5>2. CASE edge # j
            <6>1. j \in 1 .. Len(program.next[b]) /\ step # Length(b) + 1 + j
              BY <2>0, <4>3, <5>2, <1>1
            <6>2. step < Length(b) + 1 + j /\ step <= Length(b) + Len(program.next[b])
              BY SMTT(30), <1>1, <2>0, <4>3, <6>1
            <6>3. block' = block /\ step' \in Length(b) + 2 .. Length(b) + 1 + j
              BY <1>1, <2>0, <4>3, <6>1, <6>2
            <6> QED
              BY <4>3, <6>3
          <5> QED
            BY <5>1, <5>2
        <4> QED
          BY <4>1, <4>2, <4>3, <3>1 DEF ExitSeen
      <3> QED
        BY <1>1, <1>2, <2>0, <3>1 DEF ExitSeen, Cells
    <2> QED
      BY <2>1, <2>2, <2>3, <2>4
  <1>11. ValuesWalked'
    BY <1>1, <1>10 DEF ValuesWalked
  <1>12. PathsKept'
    <2>1. ASSUME NEW path \in visited PROVE Cells(Entry(path[1])) \subseteq New(Entry(path[1]))
      BY <1>2 DEF Cells, New
    <2>2. PathsKept /\ PathQueued(target, value)
      BY <1>2
    <2> HIDE DEF JudgeInv, target
    <2> QED
      BY <1>1, <2>1, <2>2, QueuedKept
  <1>13. EarlierComplete' /\ LaterEmpty'
    BY <1>1, <1>2, OtherSlotsKept
  <1>14. VerdictGiven'
    BY <1>1, WalkNoVerdict
  <1> QED
    BY <1>5, <1>7, <1>8, <1>9, <1>11, <1>12, <1>13, <1>14

LEMMA TakePathTypes ==
  ASSUME TypeOK, JudgeTypeOK, Judge!TakePath, Quiet
  PROVE  JudgeTypeOK'
  <1>1. /\ program' = program /\ slot # 0 /\ slot' = slot /\ Slots' = Slots
        /\ UNCHANGED <<visited, verdict>> /\ step' = 1 /\ delivered' = delivered
        /\ block' \in program.blocks /\ value' \in Value
        /\ paths' \in Seq(program.blocks \X Value)
        /\ expected' \in [Points(program) -> Row(program)]
    BY TakePathEffect
  <1>2. /\ slot' \in 0 .. Len(Slots') /\ verdict' \in {"none", "accepted", "rejected"}
        /\ delivered' # {} => Table' \in [Points(program) -> Row(program)]
        /\ visited' \subseteq program.blocks \X Value
    BY <1>1 DEF JudgeTypeOK, Table
  <1>3. step' <= (Length(block) + 1 + Len(program.next[block]))'
    <2>1. Len(program.code[block']) \in Nat /\ Len(program.next[block']) \in Nat
      BY <1>1, BlockLengths DEF Length
    <2>2. Length(block)' \in Nat /\ Len(program.next[block])' \in Nat
      BY <1>1, <2>1 DEF Length
    <2> QED
      BY <1>1, <2>2
  <1>4. Points(program)' = Points(program) /\ Row(program)' = Row(program)
    BY <1>1
  <1> QED
    BY <1>1, <1>2, <1>3, <1>4 DEF JudgeTypeOK

LEMMA TakePathKeeps ==
  ASSUME JudgeInv, Judge!TakePath, Quiet
  PROVE  JudgeInv'
  <1> USE DEF JudgeInv
  <1>1. /\ program' = program /\ program \in Programs /\ delivered' = delivered
        /\ slot # 0 /\ slot' = slot /\ Slot \in program.outputs /\ Slot' = Slot /\ Slots' = Slots
        /\ visited' = visited /\ verdict' = verdict /\ block = NoBlock /\ step' = 1
        /\ paths # <<>> /\ paths[1] = <<block', value'>>
        /\ block' \in program.blocks /\ value' \in Value
        /\ \A i \in DOMAIN paths' : i + 1 \in DOMAIN paths /\ paths'[i] = paths[i + 1]
        /\ \A i \in DOMAIN paths : i = 1 \/ (i - 1 \in DOMAIN paths' /\ paths'[i - 1] = paths[i])
    BY TakePathEffect
  <1>2. \A q \in Points(program) : \A o \in program.outputs :
          expected'[q][o] = IF q = Entry(block') /\ o = Slot
                            THEN expected[q][o] \cup {value'} ELSE expected[q][o]
    BY TakePathEffect
  <1>3. \A q \in Points(program) :
          New(q) = IF q = Entry(block') THEN Cells(q) \cup {value'} ELSE Cells(q)
    BY <1>1, <1>2 DEF Cells, New
  <1>4. 1 \in DOMAIN paths /\ <<block', value'>> \in visited
    <2>1. 1 \in DOMAIN paths
      BY <1>1 DEF JudgeTypeOK
    <2> QED
      BY <1>1, <2>1 DEF PendingVisited
  <1>5. TypeOK' /\ JudgeTypeOK' /\ Reach[program'] = Reach[program]
    BY QuietTypes, TakePathTypes
  <1>6. PICK s \in Reach[program] : s.block = block' /\ s.done = 0 /\ value' = ValueOf(Slot, s)
    BY <1>1, <1>4 DEF PathsRealised
  <1>7. PathsRealised' /\ PendingVisited'
    BY <1>1, <1>5 DEF PathsRealised, PendingVisited
  <1>8. RecordedRealised'
    <2>1. value' \in Collected(program, Reach[program], Entry(block'), Slot)
      <3>1. value' \in Realised(block', 0, Slot)
        BY <1>6 DEF Realised
      <3> QED
        BY <1>1, <3>1, CollectedAt
    <2>2. ASSUME NEW q \in Points(program), NEW o \in program.outputs
          PROVE  expected'[q][o] \subseteq Collected(program, Reach[program], q, o)
      <3>1. expected[q][o] \subseteq Collected(program, Reach[program], q, o)
        BY DEF RecordedRealised
      <3> QED
        BY <1>2, <2>1, <3>1
    <2> QED
      BY <1>1, <1>5, <2>2 DEF RecordedRealised
  <1>9. ValueIsRecorded'
    <2>1. (IF step <= Length(block) + 1 THEN Arrived(block, step - 1) ELSE Exit(block))' = Entry(block')
      <3>1. Len(program.code[block']) \in Nat
        BY <1>1, BlockLengths DEF Length
      <3> QED
        BY <1>1, <3>1 DEF Arrived, Length, Entry
    <2>2. value' \in New(Entry(block'))
      <3>1. Entry(block') \in Points(program)
        BY <1>1, BlockLengths
      <3> QED
        BY <1>3, <3>1
    <2> QED
      BY <1>1, <2>1, <2>2 DEF ValueIsRecorded, Cells, New
  <1>10. ASSUME NEW b \in program.blocks
         PROVE  /\ \A k \in DOMAIN program.code[b] : ArrivedSeen(b, k)' /\ BeforeSeen(b, k)'
                /\ LastSeen(b)'
                /\ \A j \in DOMAIN program.next[b] : ExitSeen(b, j)'
    <2>0. /\ Length(b) \in Nat /\ DOMAIN program.code[b] = 1 .. Length(b)
          /\ b # NoBlock /\ Length(b)' = Length(b)
          /\ Exit(b) \in Points(program) /\ Exception(b) \in Points(program)
          /\ \A k \in DOMAIN program.code[b] :
               Before(b, k) \in Points(program) /\ After(b, k) \in Points(program)
          /\ \A k \in 0 .. Length(b) : Arrived(b, k) \in Points(program)
      BY <1>1, BlockLengths DEF Length
    <2>1. /\ New(Exit(b)) = Cells(Exit(b)) /\ New(Exception(b)) = Cells(Exception(b))
          /\ \A k \in DOMAIN program.code[b] :
               New(Before(b, k)) = Cells(Before(b, k)) /\ New(After(b, k)) = Cells(After(b, k))
      <3>1. ASSUME NEW k
            PROVE  Before(b, k) # Entry(block') /\ After(b, k) # Entry(block')
        BY PointsDiffer
      <3>2. Exit(b) # Entry(block') /\ Exception(b) # Entry(block')
        BY PointsDiffer
      <3> QED
        BY <1>3, <2>0, <3>1, <3>2
    <2>2. ASSUME NEW k \in 0 .. Length(b), NEW v \in New(Arrived(b, k))
          PROVE  v \in Cells(Arrived(b, k)) \/ (b = block' /\ k = 0 /\ v = value')
      <3>1. Arrived(b, k) = Entry(block') => b = block' /\ k = 0
        BY PointsDiffer DEF Arrived
      <3> QED
        BY <1>3, <2>0, <2>2, <3>1
    <2>3. ASSUME NEW k \in DOMAIN program.code[b] PROVE ArrivedSeen(b, k)'
      <3>1. k - 1 \in 0 .. Length(b) /\ k \in Nat
        BY <2>0
      <3>2. ASSUME NEW v \in New(Arrived(b, k - 1))
            PROVE  v \in New(Before(b, k)) \/ Walking(b, k, v)'
        <4>1. CASE v \in Cells(Arrived(b, k - 1))
          <5>1. v \in Cells(Before(b, k))
            BY <1>1, <2>0, <4>1 DEF ValuesWalked, ArrivedSeen, Walking
          <5> QED
            BY <2>1, <5>1
        <4>2. CASE b = block' /\ k - 1 = 0 /\ v = value'
          BY <1>1, <3>1, <4>2 DEF Walking
        <4> QED
          BY <2>2, <3>1, <3>2, <4>1, <4>2
      <3> QED
        BY <1>1, <3>2 DEF ArrivedSeen, Cells, New
    <2>4. ASSUME NEW k \in DOMAIN program.code[b] PROVE BeforeSeen(b, k)'
      <3>1. BeforeSeen(b, k)
        BY <1>1 DEF ValuesWalked
      <3>2. \A v : WrittenValue(b, k, v)' = WrittenValue(b, k, v)
        BY <1>1 DEF WrittenValue
      <3>3. ASSUME NEW v \in New(Before(b, k))
            PROVE  /\ WrittenValue(b, k, v)' \in New(After(b, k))
                   /\ CanFail(program, b, k) =>
                        v \in New(Exception(b)) /\ <<program.handler[b], v>> \in visited'
        <4>1. /\ WrittenValue(b, k, v) \in Cells(After(b, k))
              /\ CanFail(program, b, k) =>
                   v \in Cells(Exception(b)) /\ <<program.handler[b], v>> \in visited
          BY <2>1, <3>1 DEF BeforeSeen
        <4> QED
          BY <1>1, <2>1, <3>2, <4>1
      <3> QED
        BY <1>1, <3>3 DEF BeforeSeen, Cells, New
    <2>5. LastSeen(b)'
      <3>1. ASSUME NEW v \in New(Arrived(b, Length(b)))
            PROVE  v \in New(Exit(b)) \/ Walking(b, Length(b) + 1, v)'
        <4>0. Length(b) \in 0 .. Length(b)
          BY <2>0
        <4>1. CASE v \in Cells(Arrived(b, Length(b)))
          <5>1. v \in Cells(Exit(b))
            BY <1>1, <2>0, <4>1 DEF ValuesWalked, LastSeen, Walking
          <5> QED
            BY <2>1, <5>1
        <4>2. CASE b = block' /\ Length(b) = 0 /\ v = value'
          BY <1>1, <2>0, <4>2 DEF Walking
        <4> QED
          BY <2>2, <3>1, <4>0, <4>1, <4>2
      <3> QED
        BY <1>1, <2>0, <3>1 DEF LastSeen, Cells, New, Arrived, Entry, After
    <2>6. ASSUME NEW j \in DOMAIN program.next[b] PROVE ExitSeen(b, j)'
      <3>1. ExitSeen(b, j)
        BY <1>1 DEF ValuesWalked
      <3>2. \A v \in Cells(Exit(b)) : <<program.next[b][j], v>> \in visited
        BY <1>1, <2>0, <3>1 DEF ExitSeen
      <3> QED
        BY <1>1, <2>1, <3>2 DEF ExitSeen, Cells, New
    <2> QED
      BY <2>3, <2>4, <2>5, <2>6
  <1>11. ValuesWalked'
    BY <1>1, <1>10 DEF ValuesWalked
  <1>12. PathsKept'
    <2>1. ASSUME NEW path \in visited
          PROVE  path[2] \in New(Entry(path[1])) \/ \E i \in DOMAIN paths' : paths'[i] = path
      <3>1. path[1] \in program.blocks /\ path = <<path[1], path[2]>>
        BY DEF JudgeTypeOK
      <3>2. Entry(path[1]) \in Points(program)
        BY <3>1, BlockLengths
      <3>3. CASE path[2] \in Cells(Entry(path[1]))
        BY <1>3, <3>2, <3>3
      <3>4. CASE \E i \in DOMAIN paths : paths[i] = path
        <4>1. PICK i \in DOMAIN paths : paths[i] = path
          BY <3>4
        <4>2. CASE i = 1
          <5>1. path[1] = block' /\ path[2] = value'
            BY <1>1, <4>1, <4>2
          <5> QED
            BY <1>3, <3>2, <5>1
        <4>3. CASE i # 1
          BY <1>1, <4>1, <4>3
        <4> QED
          BY <4>2, <4>3
      <3> QED
        BY <1>1, <3>3, <3>4 DEF PathsKept
    <2>2. Judge!Start(program, Slot)' = Judge!Start(program, Slot)
      BY <1>1 DEF Judge!Start
    <2> QED
      BY <1>1, <2>1, <2>2 DEF PathsKept, Cells, New
  <1>13. EarlierComplete' /\ LaterEmpty'
    <2>1. \A q \in Points(program) : \A o \in program.outputs :
            o # Slot => expected'[q][o] = expected[q][o]
      BY <1>2
    <2> QED
      BY <1>1, <1>5, <2>1, OtherSlotsKept
  <1>14. VerdictGiven'
    BY <1>1, WalkNoVerdict
  <1> QED
    BY <1>5, <1>7, <1>8, <1>9, <1>11, <1>12, <1>13, <1>14

-----------------------------------------------------------------------------
(* When the queue of an output is empty, what it recorded is closed under  *)
(* the steps of executions.                                                *)

OutputDone == slot # 0 /\ block = NoBlock /\ paths = <<>>

WalkedOut(b) ==
  /\ \A k \in DOMAIN program.code[b] :
       /\ \A v \in Cells(Arrived(b, k - 1)) : v \in Cells(Before(b, k))
       /\ \A v \in Cells(Before(b, k)) :
            /\ WrittenValue(b, k, v) \in Cells(After(b, k))
            /\ CanFail(program, b, k) =>
                 v \in Cells(Exception(b)) /\ v \in Cells(Entry(program.handler[b]))
  /\ \A v \in Cells(Arrived(b, Length(b))) : v \in Cells(Exit(b))
  /\ \A j \in DOMAIN program.next[b] : \A v \in Cells(Exit(b)) : v \in Cells(Entry(program.next[b][j]))

LEMMA AllWalkedOut ==
  ASSUME JudgeInv, OutputDone, NEW b \in program.blocks
  PROVE  WalkedOut(b)
  <1>1. TypeOK /\ slot # 0 /\ block # b
    BY BlockLengths DEF JudgeInv, OutputDone
  <1>2. ASSUME NEW path \in visited PROVE path[2] \in Cells(Entry(path[1]))
    BY DEF JudgeInv, PathsKept, OutputDone
  <1>3. ASSUME NEW k \in DOMAIN program.code[b]
        PROVE  /\ \A v \in Cells(Arrived(b, k - 1)) : v \in Cells(Before(b, k))
               /\ \A v \in Cells(Before(b, k)) :
                    /\ WrittenValue(b, k, v) \in Cells(After(b, k))
                    /\ CanFail(program, b, k) =>
                         v \in Cells(Exception(b)) /\ v \in Cells(Entry(program.handler[b]))
    <2>1. ArrivedSeen(b, k) /\ BeforeSeen(b, k)
      BY <1>1 DEF JudgeInv, ValuesWalked
    <2> QED
      BY <1>1, <1>2, <2>1 DEF ArrivedSeen, BeforeSeen, Walking
  <1>4. \A v \in Cells(Arrived(b, Length(b))) : v \in Cells(Exit(b))
    <2>1. LastSeen(b)
      BY <1>1 DEF JudgeInv, ValuesWalked
    <2> QED
      BY <1>1, <2>1 DEF LastSeen, Walking
  <1>5. ASSUME NEW j \in DOMAIN program.next[b], NEW v \in Cells(Exit(b))
        PROVE  v \in Cells(Entry(program.next[b][j]))
    <2>1. ExitSeen(b, j)
      BY <1>1 DEF JudgeInv, ValuesWalked
    <2>2. <<program.next[b][j], v>> \in visited
      BY <1>1, <2>1 DEF ExitSeen
    <2> QED
      BY <1>2, <2>2
  <1> QED
    BY <1>3, <1>4, <1>5 DEF WalkedOut

(* The states whose value of the output has been recorded.                 *)
Walked == {s \in States(program) : ValueOf(Slot, s) \in Cells(Arrived(s.block, s.done))}

LEMMA WalkedClosed ==
  ASSUME JudgeInv, OutputDone
  PROVE  Closed(program, Walked)
  <1>1. /\ program \in Programs /\ WellFormed(program) /\ TypeOK /\ slot # 0
        /\ Slot \in program.outputs
    BY ProgramsAssumption, SlotFacts DEF TypeOK, JudgeInv, OutputDone
  <1>2. InitialState(program) \in Walked
    <2>1. InitialState(program) \in States(program)
      BY <1>1 DEF InitialState, States, WellFormed
    <2>2. Judge!Start(program, Slot)[2] \in Cells(Entry(Judge!Start(program, Slot)[1]))
      BY <1>1 DEF JudgeInv, PathsKept, OutputDone
    <2>3. /\ Judge!Start(program, Slot)[1] = program.entry
          /\ Judge!Start(program, Slot)[2] = ValueOf(Slot, InitialState(program))
      BY DEF Judge!Start, ValueOf, InitialState
    <2> QED
      BY <2>1, <2>2, <2>3 DEF Walked, InitialState, Arrived
  <1>3. ASSUME NEW s \in Walked PROVE Steps(program, s) \subseteq Walked
    <2> DEFINE b == s.block
               k == s.done + 1
    <2>1. /\ b \in program.blocks /\ s.done \in 0 .. Length(b) /\ s.assigned \subseteq program.outputs
          /\ Length(b) \in Nat /\ DOMAIN program.code[b] = 1 .. Length(b)
          /\ Len(program.next[b]) \in Nat /\ DOMAIN program.next[b] = 1 .. Len(program.next[b])
          /\ s \in States(program)
      <3>1. b \in program.blocks /\ s.assigned \subseteq program.outputs /\ s.done \in Nat
            /\ s.done <= Length(b) /\ s \in States(program)
        BY DEF Walked, States, Length
      <3> QED
        BY <1>1, <3>1, CodeDomain
    <2>2. ValueOf(Slot, s) \in Cells(Arrived(b, s.done)) /\ WalkedOut(b)
      <3>1. ValueOf(Slot, s) \in Cells(Arrived(b, s.done))
        BY DEF Walked
      <3> HIDE DEF b
      <3> QED
        BY <2>1, <3>1, AllWalkedOut
    <2>3. ASSUME s.done < Length(b) PROVE Committed(program, s) \in Walked
      <3> DEFINE t == Committed(program, s)
      <3>1. k \in DOMAIN program.code[b] /\ k - 1 = s.done
        BY <2>1, <2>3
      <3>2. program.code[b][k].writes \subseteq program.outputs
        <4>1. program.code[b] \in Seq(Instructions(program.outputs))
          BY <1>1, <2>1 DEF WellFormed
        <4>2. program.code[b][k] \in Instructions(program.outputs)
          BY <2>1, <3>1, <4>1
        <4> QED
          BY <4>2 DEF Instructions
      <3>3. /\ t.block = b /\ t.done = k /\ t.assigned = s.assigned \cup program.code[b][k].writes
            /\ t = [block |-> b, done |-> k, assigned |-> s.assigned \cup program.code[b][k].writes]
        BY DEF Committed
      <3>4. t \in States(program)
        BY SMTT(30), <2>1, <2>3, <3>2, <3>3 DEF States, Length
      <3> HIDE DEF t
      <3>5. ValueOf(Slot, t) \in Cells(Arrived(b, k))
        <4>1. ValueOf(Slot, s) \in Cells(Before(b, k))
          BY <2>2, <3>1 DEF WalkedOut
        <4>2. WrittenValue(b, k, ValueOf(Slot, s)) \in Cells(After(b, k))
          BY <2>2, <3>1, <4>1 DEF WalkedOut
        <4>3. WrittenValue(b, k, ValueOf(Slot, s)) = ValueOf(Slot, t)
          BY <3>3 DEF WrittenValue, ValueOf
        <4>4. Arrived(b, k) = After(b, k)
          BY <2>1 DEF Arrived
        <4> QED
          BY <4>2, <4>3, <4>4
      <3> QED
        BY <3>3, <3>4, <3>5 DEF Walked, t
    <2>4. ASSUME NEW c \in program.blocks, ValueOf(Slot, s) \in Cells(Entry(c))
          PROVE  Entered(c, s) \in Walked
      <3>1. Len(program.code[c]) \in Nat
        BY <1>1, <2>4, CodeDomain DEF Length
      <3>2. Entered(c, s) \in States(program)
        BY <2>1, <3>1 DEF Entered, States
      <3>3. ValueOf(Slot, Entered(c, s)) = ValueOf(Slot, s)
        BY DEF Entered, ValueOf
      <3> QED
        BY <2>4, <3>2, <3>3 DEF Walked, Entered, Arrived
    <2>5. ASSUME CanFail(program, b, k) PROVE Entered(program.handler[b], s) \in Walked
      <3>0. k \in DOMAIN program.code[b] /\ program.handler[b] \in program.blocks
        BY <1>1, <2>1, <2>5 DEF CanFail, WellFormed
      <3>1. k \in DOMAIN program.code[b] /\ program.handler[b] \in program.blocks /\ k - 1 = s.done
        BY <2>1, <3>0
      <3>2. ValueOf(Slot, s) \in Cells(Before(b, k))
        BY <2>2, <3>1 DEF WalkedOut
      <3>3. ValueOf(Slot, s) \in Cells(Entry(program.handler[b]))
        BY <2>2, <2>5, <3>1, <3>2 DEF WalkedOut
      <3> QED
        BY <2>4, <3>1, <3>3
    <2>6. ASSUME s.done = Length(b), NEW j \in DOMAIN program.next[b]
          PROVE  Entered(program.next[b][j], s) \in Walked
      <3>1. program.next[b][j] \in program.blocks
        BY SMTT(30), <1>1, <2>1 DEF WellFormed
      <3>2. ValueOf(Slot, s) \in Cells(Exit(b))
        BY <2>2, <2>6 DEF WalkedOut
      <3>3. ValueOf(Slot, s) \in Cells(Entry(program.next[b][j]))
        BY <2>2, <3>2 DEF WalkedOut
      <3> QED
        BY <2>4, <3>1, <3>3
    <2> QED
      BY <2>3, <2>5, <2>6 DEF Steps, Length
  <1> QED
    BY <1>2, <1>3 DEF Closed, Walked

LEMMA WalkedAtPoint ==
  ASSUME JudgeInv, OutputDone, NEW s \in Walked, NEW pt \in Points(program),
         StandsAt(program, s, pt)
  PROVE  ValueOf(Slot, s) \in Cells(pt)
  <1> DEFINE b == s.block
             v == ValueOf(Slot, s)
  <1>1. /\ b \in program.blocks /\ s.done \in Nat
        /\ v \in Cells(Arrived(b, s.done)) /\ s.done \in 0 .. Length(b)
        /\ Length(b) \in Nat /\ DOMAIN program.code[b] = 1 .. Length(b)
    <2>1. b \in program.blocks /\ s.done \in Nat /\ s.done <= Length(b)
          /\ v \in Cells(Arrived(b, s.done))
      BY DEF Walked, States, Length
    <2> QED
      BY <2>1, CodeDomain DEF JudgeInv
  <1>2. WalkedOut(b)
    <2> HIDE DEF b
    <2> QED
      BY <1>1, AllWalkedOut
  <1> HIDE DEF v
  <1>3. PICK c \in program.blocks :
           \/ pt = Entry(c) \/ pt = Exit(c) \/ pt = Exception(c)
           \/ \E k \in DOMAIN program.code[c] : pt = Before(c, k) \/ pt = After(c, k)
    BY PointCases
  <1>4. CASE pt = Entry(c)
    BY <1>1, <1>4 DEF StandsAt, Entry, Arrived, v
  <1>5. CASE pt = Exit(c)
    <2>1. s.done = Length(b) /\ c = b
      BY <1>5 DEF StandsAt, Exit, Length
    <2> QED
      BY <1>1, <1>2, <1>5, <2>1 DEF WalkedOut, v
  <1>6. CASE pt = Exception(c)
    <2>1. CanFail(program, b, s.done + 1) /\ c = b
      BY <1>6 DEF StandsAt, Exception
    <2>2. s.done + 1 - 1 = s.done /\ s.done + 1 \in DOMAIN program.code[b]
      BY <1>1, <2>1 DEF CanFail
    <2>3. v \in Cells(Before(b, s.done + 1))
      BY <1>1, <1>2, <2>2 DEF WalkedOut
    <2> QED
      BY <1>2, <1>6, <2>1, <2>2, <2>3 DEF WalkedOut, v
  <1>7. ASSUME NEW k \in DOMAIN program.code[c], pt = Before(c, k)
        PROVE  v \in Cells(pt)
    <2>1. s.done + 1 = k /\ c = b
      BY <1>7 DEF StandsAt, Before
    <2>2. k - 1 = s.done
      BY <1>1, <1>7, <2>1
    <2> QED
      BY <1>1, <1>2, <1>7, <2>1, <2>2 DEF WalkedOut
  <1>8. ASSUME NEW k \in DOMAIN program.code[c], pt = After(c, k)
        PROVE  v \in Cells(pt)
    <2>1. s.done = k /\ c = b
      BY <1>8 DEF StandsAt, After
    <2>2. Arrived(b, s.done) = pt
      BY <1>1, <1>8, <2>1 DEF Arrived
    <2> QED
      BY <1>1, <2>2
  <1> QED
    BY <1>3, <1>4, <1>5, <1>6, <1>7, <1>8 DEF v

LEMMA SlotComplete ==
  ASSUME LeastReach, JudgeInv, OutputDone
  PROVE  Complete(Slot)
  <1>1. Reach[program] \subseteq Walked
    BY WalkedClosed, LeastBelow DEF JudgeInv, TypeOK
  <1>2. ASSUME NEW pt \in Points(program), NEW s \in Reach[program], StandsAt(program, s, pt)
        PROVE  ValueOf(Slot, s) \in expected[pt][Slot]
    BY <1>1, <1>2, WalkedAtPoint DEF Cells
  <1> QED
    BY <1>2 DEF Complete, Collected

LEMMA NextOutputKeeps ==
  ASSUME LeastReach, JudgeInv, FlagsListed, Judge!NextOutput, Quiet
  PROVE  JudgeInv'
  <1> DEFINE first == Judge!Start(program, Slots[slot + 1])
  <1>1. /\ block = NoBlock /\ paths = <<>> /\ slot < Len(Slots) /\ slot' = slot + 1
        /\ paths' = <<first>> /\ visited' = {first}
        /\ UNCHANGED <<expected, block, step, value, verdict, delivered>>
    BY FlagsCleared DEF Judge!NextOutput, Quiet, Slots
  <1>2. /\ TypeOK' /\ program' = program /\ Slots' = Slots /\ Reach[program'] = Reach[program]
        /\ TypeOK /\ JudgeTypeOK /\ program \in Programs
    BY QuietTypes DEF JudgeInv, TypeOK
  <1>3. /\ slot \in Nat /\ slot + 1 \in DOMAIN Slots /\ slot + 1 > slot
        /\ Len(Slots) \in Nat /\ Slots[slot + 1] \in program.outputs
        /\ DOMAIN Slots = 1 .. Len(Slots)
    BY <1>1, <1>2, SlotFacts
  <1>4. Slot' = Slots[slot + 1]
    BY <1>1, <1>2 DEF Slot
  <1>5. first = <<program.entry, ValueOf(Slots[slot + 1], InitialState(program))>>
    BY DEF Judge!Start, ValueOf, InitialState
  <1>6. InitialState(program) \in Reach[program] /\ program.entry \in program.blocks
    BY <1>2, ReachAssumption, ProgramsAssumption DEF Closed, WellFormed
  <1>7. JudgeTypeOK'
    <2>1. first \in program.blocks \X Value
      BY <1>5, <1>6 DEF ValueOf, Value
    <2> HIDE DEF first
    <2>2. <<first>> \in Seq(program.blocks \X Value)
      BY <2>1, SingleSeq
    <2>3. slot' \in 0 .. Len(Slots') /\ slot' # 0
      BY <1>1, <1>2, <1>3
    <2>4. delivered' # {} => Table' \in [Points(program) -> Row(program)]
      BY <1>1, <1>2 DEF JudgeTypeOK, Table
    <2> QED
      BY <1>1, <1>2, <2>1, <2>2, <2>3, <2>4 DEF JudgeTypeOK
  <1>8. PathsRealised' /\ PendingVisited'
    <2>1. /\ InitialState(program).block = first[1] /\ InitialState(program).done = 0
          /\ first[2] = ValueOf(Slots[slot + 1], InitialState(program))
      BY <1>5 DEF InitialState
    <2> HIDE DEF first
    <2>2. PathsRealised'
      BY <1>1, <1>2, <1>4, <1>6, <2>1 DEF PathsRealised
    <2>3. \A i \in DOMAIN <<first>> : <<first>>[i] = first
      OBVIOUS
    <2> QED
      BY <1>1, <2>2, <2>3 DEF PendingVisited
  <1>9. RecordedRealised' /\ ValueIsRecorded'
    BY <1>1, <1>2 DEF JudgeInv, RecordedRealised, ValueIsRecorded
  <1>10. \A q \in Points(program) : expected[q][Slots[slot + 1]] = {}
    BY <1>3 DEF JudgeInv, LaterEmpty
  <1>11. ValuesWalked'
    <2>1. ASSUME NEW b \in program.blocks
          PROVE  /\ \A k \in DOMAIN program.code[b] : ArrivedSeen(b, k)' /\ BeforeSeen(b, k)'
                 /\ LastSeen(b)'
                 /\ \A j \in DOMAIN program.next[b] : ExitSeen(b, j)'
      <3>1. /\ Length(b) \in Nat /\ DOMAIN program.code[b] = 1 .. Length(b)
            /\ Length(b)' = Length(b) /\ Exit(b) \in Points(program)
            /\ \A k \in DOMAIN program.code[b] : Before(b, k) \in Points(program)
            /\ \A k \in 0 .. Length(b) : Arrived(b, k) \in Points(program)
        BY <1>2, BlockLengths DEF Length
      <3>2. ASSUME NEW q \in Points(program) PROVE Cells(q)' = {}
        BY <1>1, <1>4, <1>10 DEF Cells
      <3>3. ASSUME NEW k \in DOMAIN program.code[b] PROVE ArrivedSeen(b, k)' /\ BeforeSeen(b, k)'
        <4>1. k - 1 \in 0 .. Length(b)
          BY <3>1
        <4>2. Cells(Arrived(b, k - 1))' = {} /\ Cells(Before(b, k))' = {}
          BY <1>1, <1>4, <1>10, <3>1, <4>1 DEF Cells
        <4> QED
          BY <4>2 DEF ArrivedSeen, BeforeSeen
      <3>4. Cells(Arrived(b, Length(b)))' = {} /\ Cells(Exit(b))' = {}
        <4>1. Length(b) \in 0 .. Length(b)
          BY <3>1
        <4>2. expected[Arrived(b, Length(b))][Slots[slot + 1]] = {}
              /\ expected[Exit(b)][Slots[slot + 1]] = {}
          BY <1>10, <3>1, <4>1
        <4> QED
          BY <1>1, <1>4, <3>1, <4>2 DEF Cells, Arrived, Entry, After
      <3> QED
        BY <3>3, <3>4 DEF LastSeen, ExitSeen
    <2> QED
      BY <1>2, <2>1 DEF ValuesWalked
  <1>12. PathsKept'
    <2>1. Judge!Start(program, Slot)' = first
      BY <1>2, <1>4 DEF Judge!Start
    <2> HIDE DEF first
    <2>2. 1 \in DOMAIN <<first>> /\ <<first>>[1] = first
      OBVIOUS
    <2> QED
      BY <1>1, <2>1, <2>2 DEF PathsKept
  <1>13. EarlierComplete'
    <2>1. ASSUME NEW i \in DOMAIN Slots, i < slot + 1 PROVE Complete(Slots[i])
      <3>1. CASE i < slot
        BY <3>1 DEF JudgeInv, EarlierComplete
      <3>2. CASE i = slot
        <4>1. OutputDone
          BY <1>1, <1>3, <3>2 DEF OutputDone
        <4>2. Complete(Slot)
          BY <4>1, SlotComplete
        <4> QED
          BY <3>2, <4>2 DEF Slot
      <3> QED
        BY <1>3, <2>1, <3>1, <3>2
    <2> QED
      BY <1>1, <1>2, <2>1 DEF EarlierComplete, Complete
  <1>14. LaterEmpty'
    BY <1>1, <1>2, <1>3 DEF JudgeInv, LaterEmpty
  <1>15. VerdictGiven'
    <2>1. verdict = "none"
      BY <1>1, <1>3 DEF JudgeInv, VerdictGiven
    <2> QED
      BY <1>1, <2>1 DEF VerdictGiven
  <1> QED
    BY <1>2, <1>7, <1>8, <1>9, <1>11, <1>12, <1>13, <1>14, <1>15 DEF JudgeInv

LEMMA CompareKeeps ==
  ASSUME JudgeInv, Judge!Compare, Quiet, delivered # {}
  PROVE  JudgeInv'
  <1>1. /\ block = NoBlock /\ paths = <<>> /\ slot = Len(Slots)
        /\ verdict' = IF Table = expected THEN "accepted" ELSE "rejected"
        /\ UNCHANGED <<expected, slot, visited, paths, block, step, value, delivered>>
    BY DEF Judge!Compare, Judge!explorer, Quiet, Slots
  <1>2. TypeOK' /\ program' = program /\ Slots' = Slots /\ Reach[program'] = Reach[program]
    BY QuietTypes DEF JudgeInv
  <1>3. Table' = Table /\ Slot' = Slot
    BY <1>1, <1>2 DEF Table, Slot
  <1>4. VerdictGiven'
    BY <1>1, <1>2, <1>3 DEF VerdictGiven
  <1>5. JudgeTypeOK'
    <2>1. Length(block)' = Length(block)
      BY <1>1, <1>2 DEF Length
    <2> QED
      BY <1>1, <1>2, <1>3, <2>1 DEF JudgeInv, JudgeTypeOK
  <1>6. PathsRealised' /\ PendingVisited' /\ RecordedRealised' /\ ValueIsRecorded'
    BY <1>1, <1>2, <1>3 DEF JudgeInv, PathsRealised, PendingVisited, RecordedRealised,
                            ValueIsRecorded
  <1>7. ValuesWalked'
    <2>1. \A b : Length(b)' = Length(b)
      BY <1>2 DEF Length
    <2>2. \A b, k : Arrived(b, k)' = Arrived(b, k)
      BY DEF Arrived, Entry, After
    <2>3. \A pt : Cells(pt)' = Cells(pt)
      BY <1>1, <1>3 DEF Cells
    <2> QED
      BY <1>1, <1>2, <1>3, <2>1, <2>2, <2>3
         DEF JudgeInv, ValuesWalked, ArrivedSeen, BeforeSeen, LastSeen, ExitSeen, Walking,
             WrittenValue, Cells
  <1>8. PathsKept' /\ EarlierComplete' /\ LaterEmpty'
    BY <1>1, <1>2, <1>3 DEF JudgeInv, PathsKept, EarlierComplete, LaterEmpty, Complete, Cells,
                            Judge!Start
  <1> QED
    BY <1>2, <1>4, <1>5, <1>6, <1>7, <1>8 DEF JudgeInv

(* While the verifier stands still, its invariant depends on the program   *)
(* and on the table in its hands only.                                     *)
LEMMA StillKeeps ==
  ASSUME JudgeInv, TypeOK', program' = program, UNCHANGED judge,
         delivered' = delivered \/ (delivered = {} /\ \E t \in [Points(program) -> Row(program)] : delivered' = {t})
  PROVE  JudgeInv'
  <1>1. Slots' = Slots /\ Slot' = Slot /\ Reach[program'] = Reach[program]
        /\ UNCHANGED <<expected, slot, visited, paths, block, step, value, verdict>>
    BY DEF Slots, Slot, judge
  <1>2. delivered' # {} => Table' \in [Points(program) -> Row(program)]
    <2>1. CASE delivered' = delivered
      BY <2>1 DEF JudgeInv, JudgeTypeOK, Table
    <2>2. ASSUME NEW t \in [Points(program) -> Row(program)], delivered' = {t}
          PROVE  Table' = t
      BY <2>2 DEF Table
    <2> QED
      BY <2>1, <2>2
  <1>3. VerdictGiven'
    <2>1. CASE delivered' = delivered
      BY <1>1, <2>1 DEF JudgeInv, VerdictGiven, Table
    <2>2. CASE delivered = {}
      BY <1>1, <2>2 DEF JudgeInv, VerdictGiven
    <2> QED
      BY <2>1, <2>2
  <1>5. JudgeTypeOK'
    <2>1. Length(block)' = Length(block)
      BY <1>1 DEF Length
    <2> QED
      BY <1>1, <1>2, <2>1 DEF JudgeInv, JudgeTypeOK
  <1>6. PathsRealised' /\ PendingVisited' /\ RecordedRealised' /\ ValueIsRecorded'
    <2>1. Length(block)' = Length(block)
      BY <1>1 DEF Length
    <2>2. Arrived(block, step - 1)' = Arrived(block, step - 1) /\ Exit(block)' = Exit(block)
      BY <1>1 DEF Arrived, Entry, After, Exit
    <2>3. PathsRealised' /\ PendingVisited' /\ RecordedRealised'
      BY <1>1 DEF JudgeInv, PathsRealised, PendingVisited, RecordedRealised
    <2>4. ValueIsRecorded'
      BY <1>1, <2>1, <2>2 DEF JudgeInv, ValueIsRecorded, Cells
    <2> QED
      BY <2>3, <2>4
  <1>7. ValuesWalked'
    <2>1. \A b : Length(b)' = Length(b)
      BY DEF Length
    <2>2. \A b, k : Arrived(b, k)' = Arrived(b, k)
      BY DEF Arrived, Entry, After
    <2>3. \A pt : Cells(pt)' = Cells(pt)
      BY <1>1 DEF Cells
    <2> QED
      BY <1>1, <2>1, <2>2, <2>3
         DEF JudgeInv, ValuesWalked, ArrivedSeen, BeforeSeen, LastSeen, ExitSeen, Walking,
             WrittenValue, Cells
  <1>8. PathsKept' /\ EarlierComplete' /\ LaterEmpty'
    BY <1>1 DEF JudgeInv, PathsKept, EarlierComplete, LaterEmpty, Complete, Cells, Judge!Start
  <1> QED
    BY <1>3, <1>5, <1>6, <1>7, <1>8 DEF JudgeInv

-----------------------------------------------------------------------------

LEMMA JudgeInit == VerifiedInit => JudgeInv
  <1> SUFFICES ASSUME VerifiedInit PROVE JudgeInv
    OBVIOUS
  <1>1. /\ TypeOK /\ delivered = {} /\ slot = 0 /\ visited = {} /\ paths = <<>>
        /\ block = NoBlock /\ step = 1 /\ value = "unassigned" /\ verdict = "none"
        /\ expected = [pt \in Points(program) |-> [o \in program.outputs |-> {}]]
    BY InitType, JudgeMeans DEF VerifiedInit, Judge!Init, Judge!NothingRecorded
  <1>2. Slots \in Seq(program.outputs) /\ program \in Programs
    BY <1>1, OutputOrderAssumption DEF TypeOK, Slots
  <1>3. /\ expected \in [Points(program) -> Row(program)]
        /\ \A pt \in Points(program) : \A o \in program.outputs : expected[pt][o] = {}
    BY <1>1 DEF Row, Cell
  <1>4. JudgeTypeOK
    <2>1. paths \in Seq(program.blocks \X Value) /\ slot \in 0 .. Len(Slots)
      BY <1>1, <1>2
    <2>2. /\ delivered = {} /\ visited = {} /\ block = NoBlock /\ step = 1
          /\ value \in Value /\ verdict = "none" /\ paths = <<>>
      BY <1>1 DEF Value
    <2> QED
      BY <1>3, <2>1, <2>2 DEF JudgeTypeOK
  <1>5. LaterEmpty
    <2>1. \A i \in DOMAIN Slots : Slots[i] \in program.outputs
      BY <1>2
    <2> QED
      BY <1>3, <2>1 DEF LaterEmpty
  <1>6. EarlierComplete
    <2>1. \A i \in DOMAIN Slots : ~ (i < 0)
      BY <1>2
    <2> QED
      BY <1>1, <2>1 DEF EarlierComplete
  <1>7. PathsRealised /\ PendingVisited /\ ValuesWalked /\ PathsKept
    BY <1>1 DEF PathsRealised, PendingVisited, ValuesWalked, PathsKept
  <1>8. RecordedRealised
    BY <1>3 DEF RecordedRealised
  <1>9. ValueIsRecorded /\ VerdictGiven
    BY <1>1 DEF ValueIsRecorded, VerdictGiven
  <1> QED
    BY <1>1, <1>4, <1>5, <1>6, <1>7, <1>8, <1>9 DEF JudgeInv

LEMMA JudgeNext ==
  ASSUME LeastReach, JudgeInv, FlagsListed, [VerifiedNext]_allVars
  PROVE  JudgeInv'
  <1>0. TypeOK
    BY DEF JudgeInv
  <1>1. CASE Analyse
    <2>1. TypeOK' /\ program' = program
      BY <1>0, <1>1, NextType DEF Analyse, Next, Pop, Instruction, BlockExit, SuccessorEdge
    <2> QED
      BY <1>1, <2>1, StillKeeps DEF Analyse
  <1>2. CASE Deliver
    <2>1. UNCHANGED vars /\ UNCHANGED judge
      BY <1>2 DEF Deliver
    <2>2. TypeOK' /\ program' = program
      BY <1>0, <2>1, NextType DEF vars
    <2>3. delivered = {} /\ \E t \in [Points(program) -> Row(program)] : delivered' = {t}
      BY <1>2 DEF Deliver
    <2> QED
      BY <2>1, <2>2, <2>3, StillKeeps
  <1>3. CASE Verify
    <2>1. Quiet /\ delivered # {}
      BY <1>3 DEF Verify, Quiet
    <2>2. \/ Judge!NextOutput \/ Judge!TakePath \/ Judge!WalkInstruction
          \/ Judge!WalkExit \/ Judge!WalkEdge \/ Judge!Compare
      BY <1>3 DEF Verify, Judge!Next
    <2> QED
      BY <2>1, <2>2, NextOutputKeeps, TakePathKeeps, WalkInstructionKeeps, WalkExitKeeps,
         WalkEdgeKeeps, CompareKeeps
  <1>4. CASE UNCHANGED allVars
    <2>1. UNCHANGED vars /\ UNCHANGED judge /\ delivered' = delivered
      BY <1>4 DEF allVars
    <2>2. TypeOK' /\ program' = program
      BY <1>0, <2>1, NextType DEF vars
    <2> QED
      BY <2>1, <2>2, StillKeeps
  <1> QED
    BY <1>1, <1>2, <1>3, <1>4 DEF VerifiedNext

LEMMA ListedNext ==
  ASSUME JudgeInv, FlagsListed, [VerifiedNext]_allVars
  PROVE  FlagsListed'
  <1>1. CASE UNCHANGED judge
    BY <1>1 DEF judge, FlagsListed
  <1>2. CASE Verify
    <2>1. /\ TypeOK /\ JudgeTypeOK /\ Quiet /\ delivered # {} /\ value \in Value
      BY <1>2 DEF JudgeInv, JudgeTypeOK, Verify, Quiet
    <2>2. CASE Judge!NextOutput
      <3>1. LET first == Judge!Start(program, Slots[slot + 1])
            IN  visited' = {first} /\ touched' = {program.entry}
        BY <2>2, FlagsCleared DEF Slots
      <3> QED
        BY <3>1 DEF Judge!Start, FlagsListed
    <2>3. CASE Judge!TakePath
      BY <2>3 DEF Judge!TakePath, FlagsListed
    <2>4. CASE Judge!WalkInstruction
      <3>1. \/ Judge!Enqueue(program.handler[block], value)
            \/ UNCHANGED <<visited, touched, paths>>
        BY <2>4 DEF Judge!WalkInstruction, Judge!ValueAtFailure
      <3> QED
        BY <2>1, <3>1, EnqueueLists DEF FlagsListed
    <2>5. CASE Judge!WalkExit
      BY <2>5 DEF Judge!WalkExit, FlagsListed
    <2>6. CASE Judge!WalkEdge
      BY <2>1, <2>6, EnqueueLists DEF Judge!WalkEdge
    <2>7. CASE Judge!Compare
      BY <2>7 DEF Judge!Compare, Judge!explorer, FlagsListed
    <2> QED
      BY <1>2, <2>2, <2>3, <2>4, <2>5, <2>6, <2>7 DEF Verify, Judge!Next
  <1> QED
    BY <1>1, <1>2 DEF VerifiedNext, Analyse, Deliver, allVars

(* The verifier rejects exactly the tables that are not what executions    *)
(* realise, whatever table it is handed over.                              *)
THEOREM VerdictOfTable == LeastReach => (VerifiedSpec => []VerdictIsExact)
  <1> SUFFICES ASSUME LeastReach PROVE VerifiedSpec => []VerdictIsExact
    OBVIOUS
  <1>1. JudgeInv /\ FlagsListed /\ [VerifiedNext]_allVars => JudgeInv' /\ FlagsListed'
    BY JudgeNext, ListedNext
  <1>2. JudgeInv => VerdictIsExact
    <2> SUFFICES ASSUME JudgeInv, verdict # "none"
                 PROVE  verdict = "accepted" <=>
                          \A pt \in Points(program) : \A o \in program.outputs :
                            Table[pt][o] = Collected(program, Reach[program], pt, o)
      BY DEF VerdictIsExact
    <2>1. /\ block = NoBlock /\ paths = <<>> /\ slot = Len(Slots) /\ delivered # {}
          /\ verdict = "accepted" <=> Table = expected
      BY DEF JudgeInv, VerdictGiven
    <2>2. /\ Table \in [Points(program) -> Row(program)]
          /\ expected \in [Points(program) -> Row(program)]
      BY <2>1 DEF JudgeInv, JudgeTypeOK
    <2>3. /\ Slots \in Seq(program.outputs) /\ Len(Slots) \in Nat
          /\ DOMAIN Slots = 1 .. Len(Slots)
          /\ \A o \in program.outputs : \E i \in DOMAIN Slots : Slots[i] = o
      BY SlotFacts DEF JudgeInv
    <2>4. ASSUME NEW o \in program.outputs PROVE Complete(o)
      <3>1. PICK i \in DOMAIN Slots : Slots[i] = o
        BY <2>3
      <3>2. CASE i < slot
        BY <3>1, <3>2 DEF JudgeInv, EarlierComplete
      <3>3. CASE ~ (i < slot)
        <4>1. i = slot /\ slot # 0
          BY <2>1, <2>3, <3>3
        <4>2. OutputDone
          BY <2>1, <4>1 DEF OutputDone
        <4>3. Complete(Slot)
          BY <4>2, SlotComplete
        <4> QED
          BY <3>1, <4>1, <4>3 DEF Slot
      <3> QED
        BY <3>2, <3>3
    <2>5. ASSUME NEW pt \in Points(program), NEW o \in program.outputs
          PROVE  expected[pt][o] = Collected(program, Reach[program], pt, o)
      <3>1. expected[pt][o] \subseteq Collected(program, Reach[program], pt, o)
        BY DEF JudgeInv, RecordedRealised
      <3>2. Collected(program, Reach[program], pt, o) \subseteq expected[pt][o]
        BY <2>4 DEF Complete
      <3> QED
        BY <3>1, <3>2
    <2>6. Table = expected <=>
            \A pt \in Points(program) : \A o \in program.outputs : Table[pt][o] = expected[pt][o]
      <3>1. ASSUME \A pt \in Points(program) : \A o \in program.outputs :
                     Table[pt][o] = expected[pt][o]
            PROVE  Table = expected
        <4>1. ASSUME NEW pt \in Points(program) PROVE Table[pt] = expected[pt]
          <5>1. Table[pt] \in [program.outputs -> Cell] /\ expected[pt] \in [program.outputs -> Cell]
            BY <2>2 DEF Row
          <5> QED
            BY <3>1, <5>1
        <4> QED
          BY <2>2, <4>1
      <3> QED
        BY <3>1
    <2> QED
      BY <2>1, <2>5, <2>6
  <1>3. VerifiedInit => JudgeInv /\ FlagsListed
    BY JudgeInit DEF FlagsListed, VerifiedInit, Judge!Init
  <1> QED
    BY <1>1, <1>2, <1>3, PTL DEF VerifiedSpec
=============================================================================
