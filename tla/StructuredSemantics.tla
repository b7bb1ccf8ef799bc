------------------------- MODULE StructuredSemantics -------------------------
(***************************************************************************)
(* What a structured program means, in all four source languages: the      *)
(* specification its lowering has to implement.  A statement that decides  *)
(* asks for an answer: itself if its condition holds or its loop goes on,  *)
(* the clause that matches, or 0.  Inside the protected body of a try any  *)
(* statement may fail.                                                     *)
(***************************************************************************)
EXTENDS StructuredProgram

VARIABLES
  program,
  at,          \* the point reached
  answer,      \* the last answer
  memory,      \* by variable, the statement that gave it its value, Input
               \* for the value it had at the entry, 0 for none
  begun        \* the loops around the point that have been through an iteration

semanticsVars == <<program, at, answer, memory, begun>>

Input == -1

Start(list, otherwise) == IF list = <<>> THEN otherwise ELSE <<list[1], "start">>

(* Where a loop goes on after its body, or at a continue.                  *)
Again(p, n) == IF Kind(p, n) = "for" THEN <<n, "update">> ELSE <<n, "start">>

(* Where control goes when n completes.                                    *)
Next(p, n) ==
  LET next[m \in DOMAIN p.node] ==
        LET h == Holder(p, m)
            list == ListAt(p, h)
            i == CHOOSE i \in DOMAIN list : list[i] = m
        IN  CASE i < Len(list) /\ Kind(p, m) # "case"         -> <<list[i + 1], "start">>
              [] h[1] = 0                                     -> <<0, "end">>
              [] Kind(p, h[1]) \in Loops /\ h[2] = "body"     -> Again(p, h[1])
              [] OTHER                                        -> next[h[1]]
  IN  next[n]

(* The clause a select goes to: the one that matches, else the default.    *)
Selected(p, s, clause) ==
  IF clause # 0 THEN <<clause, "start">>
  ELSE IF Default(p, s) # {} THEN <<CHOOSE c \in Default(p, s) : TRUE, "start">>
  ELSE Next(p, s)

(* A range loop over constants has a first iteration.                      *)
Answers(p, n, entered) ==
  CASE p.node[n].kind = "select" ->
         {0} \cup {c \in Range(p.node[n].body) : ~ IsDefault(p, c)}
    [] p.node[n].kind = "range" /\ p.node[n].flag /\ n \notin entered -> {n}
    [] OTHER -> {0, n}

Decided(p, n, a) ==
  LET s == p.node[n]
  IN  CASE s.kind = "select" -> Selected(p, n, a)
        [] a = n /\ s.kind = "if" -> Start(s.body, Next(p, n))
        [] a = n                  -> Start(s.body, Again(p, n))
        [] OTHER                  -> Start(s.other, Next(p, n))

(* The loops begun once n has answered a, or has been executed.            *)
Begun(p, n, a) ==
  (begun \cap Around(p, n, Loops)) \cup (IF a = n /\ Kind(p, n) \in Loops THEN {n} ELSE {})

Written(var, n) == [memory EXCEPT ![var] = n]

(* Whether a range loop writes its variable as it answers a.               *)
Advances(p, n, a) == a = n \/ (~ p.retains /\ n \notin begun)

-----------------------------------------------------------------------------
(* Of any program.                                                         *)
SemanticsInit ==
  /\ at = Start(program.body, <<0, "end">>)
  /\ answer = 0
  /\ memory = [v \in Variables |-> IF v \in program.inputs THEN Input ELSE 0]
  /\ begun = {}

Statement == program.node[at[1]]

Running(kinds, part) ==
  /\ at[1] # 0
  /\ Statement.kind \in kinds
  /\ at[2] = part

Simple ==
  /\ Running({"store", "read", "try", "case"}, "start")
  /\ at' = CASE Statement.kind \in {"try", "case"} -> Start(Statement.body, Next(program, at[1]))
             [] OTHER -> Next(program, at[1])
  /\ memory' = IF Statement.kind = "store" THEN Written(Statement.var, at[1]) ELSE memory
  /\ begun' = Begun(program, at[1], 0)
  /\ UNCHANGED <<program, answer>>

Jump ==
  /\ Running({"return", "break", "continue"}, "start")
  /\ LET loop == Innermost(program, at[1], Loops)
     IN  at' = CASE Statement.kind = "return" -> <<0, "returned">>
                 [] Statement.kind = "break"  -> Next(program, loop)
                 [] OTHER                     -> Again(program, loop)
  /\ begun' = Begun(program, at[1], 0)
  /\ UNCHANGED <<program, answer, memory>>

Decide ==
  /\ Running(Decisions, "start") \/ Running({"for"}, "test")
  /\ answer' \in Answers(program, at[1], begun)
  /\ at' = Decided(program, at[1], answer')
  /\ memory' = IF Statement.kind = "range" /\ Advances(program, at[1], answer')
               THEN Written(Statement.var, at[1]) ELSE memory
  /\ begun' = Begun(program, at[1], answer')
  /\ UNCHANGED program

(* The initializer and the update of a for loop.                           *)
Advance ==
  /\ Running({"for"}, "start") \/ Running({"for"}, "update")
  /\ at' = <<at[1], "test">>
  /\ memory' = Written(Statement.var, at[1])
  /\ UNCHANGED <<program, answer, begun>>

Catcher(p, n) == IF n = 0 THEN 0 ELSE Innermost(p, n, {"try"})

(* Where a failure under the try t goes on.                                *)
Caught(p, t) ==
  IF p.node[t].var = NoVar THEN Start(p.node[t].other, Next(p, t)) ELSE <<t, "catch">>

Fail ==
  /\ Catcher(program, at[1]) # 0
  /\ at' = Caught(program, Catcher(program, at[1]))
  /\ UNCHANGED <<program, answer, memory, begun>>

Bind ==
  /\ Running({"try"}, "catch")
  /\ at' = Start(Statement.other, Next(program, at[1]))
  /\ memory' = Written(Statement.var, at[1])
  /\ UNCHANGED <<program, answer, begun>>

SemanticsNext == Simple \/ Jump \/ Decide \/ Advance \/ Fail \/ Bind

SemanticsSpec == SemanticsInit /\ [][SemanticsNext]_semanticsVars
=============================================================================
