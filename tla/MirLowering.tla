----------------------------- MODULE MirLowering -----------------------------
(***************************************************************************)
(* Builder (src/ir/mir.cpp): the statements of an accepted function become *)
(* basic blocks.  lower_statement is recursive: frames is its call stack,  *)
(* and an action is what it does between two statements.                   *)
(*                                                                         *)
(* The builder keeps                                                       *)
(*   blocks     [code, kind, origin, successors, actuals, arguments,       *)
(*              handler]: kind is that of the terminator, actuals what is  *)
(*              passed along each successor, handler 0 or the block of the *)
(*              innermost try                                              *)
(*   current    the block being filled                                     *)
(*   versions   by variable, the value it holds here, 0 if none is known   *)
(*   next       the next value                                             *)
(* An instruction is [origin, part, op, var, value].  Every statement has  *)
(* one; op is "store", "loop" (of a range loop, which writes its variable  *)
(* without a value), "test" (of a clause), "lazy" (the first operand of a  *)
(* lazy operator) or "mark".                                               *)
(***************************************************************************)
EXTENDS DefiniteAssignment

VARIABLES
  program,
  phase,      \* "analyze", then "rejected", or "lower", "verify", and "run" or "invalid"
  builder,
  frames,     \* innermost last: [node, part, left, base, entry, ahead, incoming];
              \* left are the statements of part still to be lowered, base the
              \* first block made for node, entry the versions it starts with,
              \* ahead the edges known before its body, incoming those to its end
  contexts,   \* of the loops, innermost last: [leave, again, breaks, continues]
  regions     \* exception regions: [owner, handler, blocks]

loweringVars == <<program, phase, builder, frames, contexts, regions>>

-----------------------------------------------------------------------------
(* Blocks.                                                                 *)

NewBlock ==
  [code |-> <<>>, kind |-> "none", origin |-> 0, successors |-> <<>>, actuals |-> <<>>,
   arguments |-> <<>>, handler |-> 0]

WithBlocks(b, count) == [b EXCEPT !.blocks = @ \o [i \in 1..count |-> NewBlock]]

Made(b) == Len(b.blocks)

At(b, block) == [b EXCEPT !.current = block]

Open(b) == b.blocks[b.current].kind = "none"

(* What follows a terminator gets a block nothing leads to.                *)
Opened(b) == IF Open(b) THEN b ELSE At(WithBlocks(b, 1), Made(b) + 1)

Ended(b, kind, successors, n) ==
  [b EXCEPT !.blocks[b.current] =
     [@ EXCEPT !.kind = kind, !.origin = n, !.successors = successors,
               !.actuals = [i \in DOMAIN successors |-> <<>>]]]

Branched(b, target, n) == Ended(b, "branch", <<target>>, n)

Split(b, true_block, false_block, n) == Ended(b, "conditional", <<true_block, false_block>>, n)

(* mutant: an end that is there already is replaced.                       *)
LeavingAnyway(b, target, n) == Branched(b, target, n)

(* Falls through to target, unless the block has already ended.            *)
Leaving(b, target, n) == IF Open(b) THEN Branched(b, target, n) ELSE b

Edge(b) == [block |-> b.current, versions |-> b.versions]

-----------------------------------------------------------------------------
(* Instructions.                                                           *)

Emit(b, n, part, op, var, value) ==
  LET o == Opened(b)
  IN  [o EXCEPT !.blocks[o.current].code =
         Append(@, [origin |-> n, part |-> part, op |-> op, var |-> var, value |-> value])]

Mark(b, n) == Emit(b, n, "start", "mark", NoVar, 0)

Stored(b, n, part, var) ==
  LET e == Emit(b, n, part, "store", var, b.next)
  IN  [e EXCEPT !.versions[var] = b.next, !.next = @ + 1]

(* The condition of n; its second operand has a block of its own.  No      *)
(* operand stores to a variable of the program, so that the edges of the   *)
(* merge have the same versions and pass nothing.                          *)
Condition(b, n, part) ==
  IF ~ program.node[n].flag \/ Kind(program, n) = "range" THEN b
  ELSE LET e == Emit(b, n, part, "lazy", NoVar, 0)
           right == Made(e) + 1
           bypass == Made(e) + 2
           merge == Made(e) + 3
           c == Ended(WithBlocks(e, 3), "lazy", <<right, bypass>>, n)
       IN  At(Branched(At(Branched(At(c, bypass), merge, n), right), merge, n), merge)

-----------------------------------------------------------------------------
(* merge_storage_versions: where edges meet that hold different values of  *)
(* a variable, and where there is one edge only, the block gets an         *)
(* argument for it.                                                        *)

Differ(held, edges) == Len(edges) = 1 \/ \E e \in DOMAIN edges : held[e] # held[1]

Merged(b, target, edges, fallback) ==
  LET held == [v \in Variables |-> [e \in DOMAIN edges |->
                 IF edges[e].versions[v] # 0 THEN edges[e].versions[v] ELSE fallback[v]]]
      complete == {v \in Variables : \A e \in DOMAIN edges : held[v][e] # 0}
      order == SetToSortSeq({v \in complete : Differ(held[v], edges)}, <)
      Ordinal(v) == CHOOSE k \in DOMAIN order : order[k] = v
      Passed(e) == [k \in DOMAIN order |-> held[order[k]][e]]
      From(c) == {e \in DOMAIN edges : edges[e].block = c}
      Passing(block, e) ==
        [block EXCEPT !.actuals[CHOOSE i \in DOMAIN block.successors :
           /\ block.successors[i] = target
           /\ \A j \in 1 .. i - 1 : block.successors[j] # target] = Passed(e)]
      wired == [c \in DOMAIN b.blocks |->
                  IF From(c) = {} \/ target \notin Range(b.blocks[c].successors) THEN b.blocks[c]
                  ELSE Passing(b.blocks[c], CHOOSE e \in From(c) : \A f \in From(c) : f <= e)]
  IN  [b EXCEPT
         !.blocks = [wired EXCEPT ![target].arguments =
                       @ \o [k \in DOMAIN order |-> [var |-> order[k], value |-> b.next + k - 1]]],
         !.versions = [v \in Variables |->
                         IF v \in Range(order) THEN b.next + Ordinal(v) - 1
                         ELSE IF v \in complete THEN held[v][1] ELSE fallback[v]],
         !.next = @ + Len(order)]

(* The end of a statement: a merge, or a block nothing leads to.           *)
Completed(b, target, edges, fallback, n) ==
  IF edges = <<>>
  THEN [Ended(At(b, target), "unreachable", <<>>, n) EXCEPT !.versions = fallback]
  ELSE Merged(At(b, target), target, edges, fallback)

-----------------------------------------------------------------------------
(* The recursion.                                                          *)

Top == Last(frames)

(* mutant: the edge has the versions the statement started with.           *)
FallingUnchanged(b, target) ==
  IF target \in Range(b.blocks[b.current].successors)
  THEN <<[block |-> b.current, versions |-> Top.entry]>> ELSE <<>>

(* The edge to target, if the current block has one.                       *)
Falling(b, target) ==
  IF target \in Range(b.blocks[b.current].successors) THEN <<Edge(b)>> ELSE <<>>

Frame(n, part, left, base, b, ahead) ==
  [node |-> n, part |-> part, left |-> left, base |-> base, entry |-> b.versions,
   ahead |-> ahead, incoming |-> <<>>]

Rest == [frames EXCEPT ![Len(frames)].left = Tail(@)]

Lowering(kinds) ==
  /\ phase = "lower"
  /\ Top.left # <<>>
  /\ Kind(program, Head(Top.left)) \in kinds

Lowered(kind, part) ==
  /\ phase = "lower"
  /\ Top.left = <<>>
  /\ Kind(program, Top.node) = kind
  /\ Top.part = part

(* The entry block has an argument for every parameter.                    *)
EntryBuilder(p) ==
  LET order == SetToSortSeq(p.inputs, <)
  IN  [blocks |-> <<[NewBlock EXCEPT !.arguments =
                       [k \in DOMAIN order |-> [var |-> order[k], value |-> k]]]>>,
       current |-> 1,
       versions |-> [v \in Variables |->
                       IF v \in p.inputs THEN CHOOSE k \in DOMAIN order : order[k] = v ELSE 0],
       next |-> Len(order) + 1]

LoweringInit ==
  /\ program \in Programs
  /\ phase = "analyze"
  /\ builder = EntryBuilder(program)
  /\ frames = <<Frame(0, "body", program.body, 1, builder, <<>>)>>
  /\ contexts = <<>>
  /\ regions = <<>>

(* A program with errors is not lowered.                                   *)
Analyze ==
  /\ phase = "analyze"
  /\ phase' = IF Accepted(program) THEN "lower" ELSE "rejected"
  /\ UNCHANGED <<program, builder, frames, contexts, regions>>

LowerSimple ==
  /\ Lowering({"store", "read"})
  /\ LET n == Head(Top.left)
     IN  builder' = IF program.node[n].kind = "store"
                    THEN Stored(builder, n, "start", program.node[n].var) ELSE Mark(builder, n)
  /\ frames' = Rest
  /\ UNCHANGED <<program, phase, contexts, regions>>

LowerReturn ==
  /\ Lowering({"return"})
  /\ builder' = Ended(Mark(builder, Head(Top.left)), "return", <<>>, Head(Top.left))
  /\ frames' = Rest
  /\ UNCHANGED <<program, phase, contexts, regions>>

LowerBreak ==
  /\ Lowering({"break"})
  /\ LET b == Mark(builder, Head(Top.left))
     IN  /\ builder' = Branched(b, Last(contexts).leave, Head(Top.left))
         /\ contexts' = [contexts EXCEPT ![Len(contexts)].breaks = Append(@, Edge(b))]
  /\ frames' = Rest
  /\ UNCHANGED <<program, phase, regions>>

LowerContinue ==
  /\ Lowering({"continue"})
  /\ LET b == Mark(builder, Head(Top.left))
     IN  /\ builder' = Branched(b, Last(contexts).again, Head(Top.left))
         /\ contexts' = [contexts EXCEPT ![Len(contexts)].continues = Append(@, Edge(b))]
  /\ frames' = Rest
  /\ UNCHANGED <<program, phase, regions>>

-----------------------------------------------------------------------------
(* If and try: the blocks of the body, of the other list, and of the merge.*)

OpenIf ==
  /\ Lowering({"if"})
  /\ LET n == Head(Top.left)
         b == Mark(Condition(Opened(builder), n, "start"), n)
         base == Made(b) + 1
     IN  /\ builder' = At(Split(WithBlocks(b, 3), base, base + 1, n), base)
         /\ frames' = Append(Rest, Frame(n, "body", program.node[n].body, base, b, <<>>))
  /\ UNCHANGED <<program, phase, contexts, regions>>

OpenTry ==
  /\ Lowering({"try"})
  /\ LET n == Head(Top.left)
         b == Mark(builder, n)
         base == Made(b) + 1
     IN  /\ builder' = At(Branched(WithBlocks(b, 3), base, n), base)
         /\ frames' = Append(Rest, Frame(n, "body", program.node[n].body, base, b, <<>>))
  /\ UNCHANGED <<program, phase, contexts, regions>>

(* What the end of a list hands to the merge of its statement.             *)
ToMerge(b) == [Top EXCEPT !.incoming = @ \o Falling(b, Top.base + 2)]

Turned(b) ==
  [ToMerge(b) EXCEPT !.part = "other", !.left = program.node[Top.node].other]

TurnIf ==
  /\ Lowered("if", "body")
  /\ LET b == Leaving(builder, Top.base + 2, Top.node)
     IN  /\ builder' = [At(b, Top.base + 1) EXCEPT !.versions = Top.entry]
         /\ frames' = Append(Front(frames), Turned(b))
  /\ UNCHANGED <<program, phase, contexts, regions>>

(* mutant: the blocks of an inner handler and merge are left unprotected.  *)
ProtectedOutside(b, handler) ==
  {c \in handler - 1 .. Made(b) : /\ c \notin {handler, handler + 1}
                                  /\ b.blocks[c].handler = 0
                                  /\ \A r \in Range(regions) :
                                       c \notin r.handler .. Made(b)}

(* The blocks made since the try began, but for its own two and those of   *)
(* an inner region.                                                        *)
Protected(b, handler) ==
  {c \in handler - 1 .. Made(b) : /\ c \notin {handler, handler + 1}
                                  /\ b.blocks[c].handler = 0}

TurnTry ==
  /\ Lowered("try", "body")
  /\ LET handler == Top.base + 1
         b == Leaving(builder, Top.base + 2, Top.node)
         covered == Protected(b, handler)
         guarded == [b EXCEPT !.current = handler, !.versions = Top.entry,
                              !.blocks = [c \in DOMAIN @ |-> IF c \in covered
                                            THEN [@[c] EXCEPT !.handler = handler] ELSE @[c]]]
         var == program.node[Top.node].var
     IN  /\ builder' = IF var = NoVar THEN guarded ELSE Stored(guarded, Top.node, "catch", var)
         /\ frames' = Append(Front(frames), Turned(b))
  /\ UNCHANGED <<program, phase, contexts, regions>>

CloseBranches ==
  /\ LET b == Leaving(builder, Top.base + 2, Top.node)
     IN  builder' = Completed(b, Top.base + 2, ToMerge(b).incoming, Top.entry, Top.node)
  /\ frames' = Front(frames)
  /\ UNCHANGED <<program, phase, contexts>>

CloseIf == Lowered("if", "other") /\ CloseBranches /\ UNCHANGED regions

CloseTry ==
  /\ Lowered("try", "other")
  /\ CloseBranches
  /\ LET handler == Top.base + 1
     IN  regions' = Append(regions,
                      [owner |-> Top.node, handler |-> handler,
                       blocks |-> {c \in DOMAIN builder.blocks : builder.blocks[c].handler = handler}])

-----------------------------------------------------------------------------
(* While and range loops: condition, body, else and exit; for loops:       *)
(* condition, body, update and exit.                                       *)

Context(leave, again) == [leave |-> leave, again |-> again, breaks |-> <<>>, continues |-> <<>>]

OpenLoop ==
  /\ Lowering({"while", "range"})
  /\ LET n == Head(Top.left)
         outside == Opened(builder)
         base == Made(outside) + 1
         header == At(Branched(WithBlocks(outside, 4), base, n), base)
         b == IF program.node[n].kind = "range"
              THEN Emit(header, n, "start", "loop", program.node[n].var, 0)
              ELSE Mark(Condition(header, n, "start"), n)
     IN  /\ builder' = At(Split(b, base + 1, base + 2, n), base + 1)
         /\ frames' = Append(Rest, Frame(n, "body", program.node[n].body, base, outside,
                                         <<Edge(outside)>>))
         /\ contexts' = Append(contexts, Context(base + 3, base))
  /\ UNCHANGED <<program, phase, regions>>

(* mutant: the end of the body is left out when there are continues.       *)
ContinuesInstead(b, again) ==
  LET continues == Last(contexts).continues
  IN  IF continues = <<>> THEN Falling(b, again) ELSE continues

(* The continues, and the end of the body if it is not one of them.        *)
Continues(b, again) ==
  LET continues == Last(contexts).continues
  IN  continues \o (IF \E e \in Range(continues) : e.block = b.current THEN <<>>
                    ELSE Falling(b, again))

(* The else of a loop is no part of it: its breaks are those of the loop   *)
(* around.                                                                 *)
TurnLoop ==
  /\ Lowered("while", "body") \/ Lowered("range", "body")
  /\ LET b == Leaving(builder, Top.base, Top.node)
     IN  builder' = At(Merged(b, Top.base, Top.ahead \o Continues(b, Top.base), Top.entry),
                       Top.base + 2)
  /\ frames' = Append(Front(frames),
                      [Top EXCEPT !.part = "other", !.left = program.node[Top.node].other,
                                  !.incoming = Last(contexts).breaks])
  /\ contexts' = Front(contexts)
  /\ UNCHANGED <<program, phase, regions>>

CloseLoop ==
  /\ Lowered("while", "other") \/ Lowered("range", "other")
  /\ LET b == Leaving(builder, Top.base + 3, Top.node)
     IN  builder' = Completed(b, Top.base + 3, Top.incoming \o Falling(b, Top.base + 3),
                              Top.entry, Top.node)
  /\ frames' = Front(frames)
  /\ UNCHANGED <<program, phase, contexts, regions>>

OpenFor ==
  /\ Lowering({"for"})
  /\ LET n == Head(Top.left)
         outside == Stored(builder, n, "start", program.node[n].var)
         base == Made(outside) + 1
         header == At(Branched(WithBlocks(outside, 4), base, n), base)
         b == Emit(Condition(header, n, "test"), n, "test", "mark", NoVar, 0)
     IN  /\ builder' = At(Split(b, base + 1, base + 3, n), base + 1)
         /\ frames' = Append(Rest, Frame(n, "body", program.node[n].body, base, outside,
                                         <<Edge(outside), Edge(b)>>))
         /\ contexts' = Append(contexts, Context(base + 3, base + 2))
  /\ UNCHANGED <<program, phase, regions>>

(* Without a way to go on the update is not reached.                       *)
CloseFor ==
  /\ Lowered("for", "body")
  /\ LET condition == Top.base
         update == Top.base + 2
         exit == Top.base + 3
         b == Leaving(builder, update, Top.node)
         again == Continues(b, update)
         u == Stored(IF again = <<>> THEN [At(b, update) EXCEPT !.versions = Top.entry]
                     ELSE Merged(At(b, update), update, again, Top.entry),
                     Top.node, "update", program.node[Top.node].var)
         w == IF again = <<>> THEN Ended(u, "unreachable", <<>>, Top.node)
              ELSE Branched(u, condition, Top.node)
         back == IF again = <<>> THEN <<>> ELSE <<Edge(u)>>
         c == Merged(w, condition, <<Top.ahead[1]>> \o back, Top.entry)
     IN  builder' = Merged(At(c, exit), exit, Last(contexts).breaks \o <<Top.ahead[2]>>, Top.entry)
  /\ frames' = Front(frames)
  /\ contexts' = Front(contexts)
  /\ UNCHANGED <<program, phase, regions>>

-----------------------------------------------------------------------------
(* Select: a merge, and for every clause a test, a block for its body and  *)
(* one for the next test.  Nothing is lowered after the default.           *)

OpenSelect ==
  /\ Lowering({"select"})
  /\ LET n == Head(Top.left)
         b == Mark(builder, n)
     IN  /\ builder' = WithBlocks(b, 1)
         /\ frames' = Append(Rest, Frame(n, "body", program.node[n].body, Made(b) + 1, b, <<>>))
  /\ UNCHANGED <<program, phase, contexts, regions>>

OpenClause ==
  /\ Lowering({"case"})
  /\ LET c == Head(Top.left)
         default == IsDefault(program, c)
         more == ~ default /\ Len(Top.left) > 1
         clause == Made(builder) + 1
         decision == IF more THEN clause + 1 ELSE Top.base
         b == WithBlocks(builder, IF more THEN 2 ELSE 1)
         tested == Emit(b, c, "start", "test", NoVar, 0)
         decided == IF default THEN Branched(b, clause, c) ELSE Split(tested, clause, decision, c)
         past == IF default \/ more THEN <<>>
                 ELSE <<[block |-> b.current, versions |-> Top.entry]>>
         select == [Top EXCEPT !.left = IF default THEN <<>> ELSE Tail(@),
                               !.incoming = @ \o past]
     IN  /\ builder' = Mark([At(decided, clause) EXCEPT !.versions = Top.entry], c)
         /\ frames' = Front(frames) \o
                      <<select, Frame(c, "body", program.node[c].body, decision, builder, <<>>)>>
  /\ UNCHANGED <<program, phase, contexts, regions>>

CloseClause ==
  /\ Lowered("case", "body")
  /\ LET select == frames[Len(frames) - 1]
         b == Leaving(builder, select.base, select.node)
     IN  /\ builder' = At(b, Top.base)
         /\ frames' = Append(Front(Front(frames)),
                             [select EXCEPT !.incoming = @ \o Falling(b, select.base)])
  /\ UNCHANGED <<program, phase, contexts, regions>>

CloseSelect ==
  /\ Lowered("select", "body")
  /\ builder' = Completed(builder, Top.base, Top.incoming, Top.entry, Top.node)
  /\ frames' = Front(frames)
  /\ UNCHANGED <<program, phase, contexts, regions>>

-----------------------------------------------------------------------------

(* finish_function.                                                        *)
Finish ==
  /\ Lowered("function", "body")
  /\ builder' = IF Open(builder) THEN Ended(builder, "return", <<>>, 0) ELSE builder
  /\ frames' = <<>>
  /\ phase' = "verify"
  /\ UNCHANGED <<program, contexts, regions>>

LowerStatement ==
  \/ LowerSimple \/ LowerReturn \/ LowerBreak \/ LowerContinue
  \/ OpenIf \/ OpenTry \/ OpenLoop \/ OpenFor \/ OpenSelect \/ OpenClause
  \/ TurnIf \/ TurnTry \/ TurnLoop
  \/ CloseIf \/ CloseTry \/ CloseLoop \/ CloseFor \/ CloseClause \/ CloseSelect

LoweringNext == Analyze \/ LowerStatement \/ Finish
=============================================================================
