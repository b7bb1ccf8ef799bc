-------------------------- MODULE LoweredExecution --------------------------
(***************************************************************************)
(* A lowered function runs: block by block, with an answer wherever a      *)
(* statement decides, and with failures where a block has a handler.  The  *)
(* stores go to the variables, which is what reads see.  Two variables     *)
(* only record the past: which store the values passed to block arguments  *)
(* come from, and for which variables the builder went on from a value     *)
(* that is not the last one.                                               *)
(***************************************************************************)
EXTENDS LoweringVerifier

VARIABLES
  block,
  index,      \* of the next instruction; past the last one, at the terminator
  answer,
  memory,
  begun,
  values,     \* by value, the statement that stored it: 0 if it has none yet,
              \* Old if the statement has been executed again since
  outdated    \* the variables the builder knew an earlier value of only

runVars == <<block, index, answer, memory, begun, values, outdated>>

Old == -2

Here == builder.blocks[block]

AtInstruction == phase = "run" /\ index <= Len(Here.code)

Instruction == Here.code[index]

(* Where the execution is in the source, internal steps left out: the      *)
(* point of the next instruction of a statement.                           *)
Point ==
  LET answered(n) == answer = n
      point[b \in DOMAIN builder.blocks, i \in 1 .. Cardinality(DOMAIN program.node) + 2] ==
        LET code == builder.blocks[b].code
            kind == builder.blocks[b].kind
            next == builder.blocks[b].successors
        IN  CASE i <= Len(code) /\ code[i].op = "test" -> point[b, i + 1]
              [] i <= Len(code)            -> <<code[i].origin, code[i].part>>
              [] kind \in {"branch", "lazy"} -> point[next[1], 1]
              [] kind = "conditional"      ->
                   point[next[IF answered(builder.blocks[b].origin) THEN 1 ELSE 2], 1]
              [] kind = "return"           ->
                   <<0, IF builder.blocks[b].origin = 0 THEN "end" ELSE "returned">>
              [] OTHER                     -> <<0, "stuck">>
  IN  point[block, index]

Source == INSTANCE StructuredSemantics WITH
            at <- IF phase = "run" THEN Point
                  ELSE IF program.body = <<>> THEN <<0, "end">> ELSE <<program.body[1], "start">>

RunInit ==
  /\ LoweringInit
  /\ block = 1
  /\ index = 1
  /\ answer = 0
  /\ memory = [v \in Variables |-> IF v \in program.inputs THEN Source!Input ELSE 0]
  /\ begun = {}
  /\ values = <<>>
  /\ outdated = {}

Lower == VerifiedLoweringNext /\ UNCHANGED <<block, index, answer, memory, begun, outdated>>
         /\ values' = IF phase' = "run"
                      THEN [k \in 1 .. builder'.next - 1 |->
                              IF k <= Cardinality(program.inputs) THEN Source!Input ELSE 0]
                      ELSE values

Writes(i) ==
  \/ i.op = "store"
  \/ i.op = "loop" /\ Source!Advances(program, i.origin, answer')

Decides(i) ==
  /\ i.op \in {"mark", "loop"}
  /\ Kind(program, i.origin) \in Decisions \cup {"for"}

(* The variables last stored in the body of a statement around.            *)
StoredWithin(n) ==
  {v \in Variables : /\ memory[v] \in DOMAIN program.node
                     /\ n \in Around(program, memory[v], Loops \cup {"try"})}

(* A loop that has been through an iteration.  The versions of its body    *)
(* are those of before the loop, so that what an earlier iteration stored  *)
(* is not known there; behind a for loop it is not known either.           *)
GoesRound(i) ==
  /\ Decides(i)
  /\ Kind(program, i.origin) \in Loops
  /\ i.origin \in begun
  /\ answer' = i.origin \/ Kind(program, i.origin) = "for"

(* What is outdated when the instruction i has been executed.  A range     *)
(* loop writes its variable without a value.                               *)
Outdated(i) ==
  (IF i.value = 0 THEN outdated ELSE outdated \ {i.var})
    \cup (IF Writes(i) /\ i.value = 0 THEN {i.var} ELSE {})
    \cup (IF ~ GoesRound(i) THEN {}
          ELSE StoredWithin(i.origin)
               \cup (IF Kind(program, i.origin) # "for" THEN {} ELSE {program.node[i.origin].var}))

Execute ==
  /\ AtInstruction
  /\ index' = index + 1
  /\ LET i == Instruction
     IN  /\ IF Decides(i) THEN answer' \in Source!Answers(program, i.origin, begun)
            ELSE answer' = answer
         /\ memory' = IF Writes(i) THEN Source!Written(i.var, i.origin) ELSE memory
         /\ values' = IF i.value = 0 THEN values
                      ELSE [k \in DOMAIN values |->
                              CASE k = i.value          -> i.origin
                                [] values[k] = i.origin -> Old
                                [] OTHER                -> values[k]]
         /\ outdated' = Outdated(i)
         /\ begun' = IF i.op \in {"mark", "loop"} THEN
                       Source!Begun(program, i.origin, IF Decides(i) THEN answer' ELSE 0)
                     ELSE IF i.part = "start" /\ i.op = "store" /\ Kind(program, i.origin) = "store"
                     THEN Source!Begun(program, i.origin, 0) ELSE begun
  /\ UNCHANGED <<loweringVars, block>>

(* Along a successor; its arguments are passed at once.                    *)
Go(s) ==
  /\ block' = Here.successors[s]
  /\ index' = 1
  /\ values' = [k \in DOMAIN values |->
                  LET into == {a \in DOMAIN builder.blocks[block'].arguments :
                                 builder.blocks[block'].arguments[a].value = k}
                  IN  IF into = {} THEN values[k]
                      ELSE values[Here.actuals[s][CHOOSE a \in into : TRUE]]]
  /\ UNCHANGED <<loweringVars, answer, memory, begun, outdated>>

AtTerminator(kind) == phase = "run" /\ index = Len(Here.code) + 1 /\ Here.kind = kind

Follow == AtTerminator("branch") /\ Go(1)

Choose == AtTerminator("conditional") /\ Go(IF answer = Here.origin THEN 1 ELSE 2)

Evaluate == AtTerminator("lazy") /\ \E s \in 1..2 : Go(s)

(* The try of a handler.                                                   *)
HandledBy(handler) == (CHOOSE r \in Range(regions) : r.handler = handler).owner

(* A select fails as a whole: the clauses are compared without failing.    *)
(* The handler starts with the versions of before the try.                 *)
Fail ==
  /\ AtInstruction
  /\ Instruction.op # "test"
  /\ Here.handler # 0
  /\ block' = Here.handler
  /\ index' = 1
  /\ outdated' = outdated \cup StoredWithin(HandledBy(Here.handler))
  /\ UNCHANGED <<loweringVars, answer, memory, begun, values>>

Stop ==
  /\ AtTerminator("return") \/ phase \in {"rejected", "invalid"}
  /\ UNCHANGED <<loweringVars, runVars>>

RunNext == Lower \/ Execute \/ Follow \/ Choose \/ Evaluate \/ Fail \/ Stop

RunSpec == RunInit /\ [][RunNext]_<<loweringVars, runVars>> /\ WF_loweringVars(Lower)

-----------------------------------------------------------------------------

(* The lowered function does what the source says, statement by statement: *)
(* every decision leads where it should, whatever order the clauses are    *)
(* in, breaks and continues find their loop, failures their handler, and   *)
(* no execution ends in a block without an end.                            *)
ImplementsSource == Source!SemanticsSpec

(* A statement that is executed is not one MPF2101 calls unreachable, and  *)
(* a body that terminates is not left at its end.                          *)
FlowFactsTrue ==
  phase = "run" =>
    /\ Point[1] # 0 => Reachable(program)[Point[1]]
    /\ Point = <<0, "end">> => ~ ListTerminates(program, program.body)

(* Every read of an accepted program finds a value, and so does whoever    *)
(* takes the results of a call.                                            *)
UsesFindValues ==
  phase = "run" =>
    /\ \A v \in program.results : Point[1] = 0 => memory[v] # 0
    /\ AtInstruction /\ Instruction.op = "mark" /\ Uses(program, Instruction.origin)
       => memory[program.node[Instruction.origin].var] # 0

(* The two cases the analyzer does not see: a break or continue in a range *)
(* loop over constants, and a return that leaves before the results are    *)
(* assigned.                                                               *)
SkipsAssignments(p) ==
  \E n \in DOMAIN p.node :
    \/ /\ p.node[n].kind \in {"break", "continue"}
       /\ Innermost(p, n, Loops) # 0
       /\ Kind(p, Innermost(p, n, Loops)) = "range"
       /\ p.node[Innermost(p, n, Loops)].flag
    \/ p.node[n].kind = "return" /\ p.results # {}

UsesFindValuesUnlessSkipped == SkipsAssignments(program) \/ UsesFindValues

(* Whatever statement is executed, the handler of its block is that of the *)
(* innermost try with it in its protected statements.                      *)
InnermostHandler ==
  AtInstruction =>
    LET t == Innermost(program, Instruction.origin, {"try"})
    IN  IF t = 0 THEN Here.handler = 0
        ELSE \E r \in Range(regions) : r.owner = t /\ r.handler = Here.handler

(* What is lowered of an accepted program passes the verifier.             *)
LoweringVerifies == phase # "invalid"

(* What acceptance promises: the program is lowered to a function that can *)
(* be run, and the run reads no variable without a value and does what the *)
(* source says.                                                            *)
AcceptedProgramsRun == [](LoweringVerifies /\ UsesFindValues) /\ ImplementsSource

(* Somewhere nothing goes on in the source: behind a jump, or where the    *)
(* branches of a statement, or a loop that is only left by its else, would *)
(* go on but never do.                                                     *)
HasDeadEnd(p) ==
  \E n \in DOMAIN p.node :
    \/ ~ Reachable(p)[n]
    \/ Kind(p, n) \in {"if", "try", "select"} /\ Terminates(p)[n]
    \/ /\ Kind(p, n) \in Loops
       /\ ListTerminates(p, p.node[n].other)
       /\ \A m \in DOMAIN p.node : Kind(p, m) = "break" => Innermost(p, m, Loops) # n

(* So it does, if every statement goes on somewhere.                       *)
LoweringVerifiesUnlessDead == phase = "invalid" => HasDeadEnd(program)

(* Wherever blocks meet, each argument holds the value its variable has,   *)
(* whatever branches, jumps, handlers and iterations lead there, unless    *)
(* the builder went on from an earlier version of the variable: one that a *)
(* loop or a try that stores it started with, or that a range loop has     *)
(* replaced without a new one.                                             *)
ArgumentsCurrent ==
  phase = "run" /\ index = 1 =>
    \A a \in Range(Here.arguments) :
      a.var \notin outdated => values[a.value] = memory[a.var]

(* What joins are said to take: the actual values.                         *)
ArgumentsActual ==
  phase = "run" /\ index = 1 =>
    \A a \in Range(Here.arguments) : values[a.value] = memory[a.var]
=============================================================================
