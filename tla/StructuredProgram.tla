-------------------------- MODULE StructuredProgram --------------------------
(***************************************************************************)
(* The body of one function as the HIR has it (src/ir/hir.hpp): a tree of  *)
(* statements.  A program p has                                            *)
(*   p.node[n]   statement n: [kind, body, other, var, flag], n not 0      *)
(*   p.body      the statements of the body                                *)
(*   p.inputs    the variables with a value at the entry                   *)
(*   p.results   the named results                                         *)
(*   p.retains   whether a range loop without an iteration leaves its      *)
(*               variable alone                                            *)
(* kind is the StatementKind: "store" (an assignment to var), "read" (a    *)
(* print or an expression that reads var), "return" (that reads var, if    *)
(* any), "break", "continue", "if", "while", "range", "for", "try" (that   *)
(* binds var, if any), "select" (whose body are its clauses) and "case".   *)
(* flag says of a range loop that its bounds are constants with at least   *)
(* one value between them, of a clause that it is the default, and of an   *)
(* if, a while or a for that its condition is a lazy operator.             *)
(*                                                                         *)
(* A point is <<n, part>>: the execution is about to start n, or to test   *)
(* or update the for loop n, or to bind the exception n caught.            *)
(***************************************************************************)
EXTENDS Integers, Sequences, SequencesExt

CONSTANTS
  Variables,   \* numbers, in the order of their storages
  Programs

NoVar == 0

Loops == {"while", "range", "for"}

Decisions == {"if", "while", "range", "select"}

ListAt(p, h) ==
  IF h[1] = 0 THEN p.body
  ELSE IF h[2] = "body" THEN p.node[h[1]].body ELSE p.node[h[1]].other

(* The list n stands in: <<owner, "body">> or <<owner, "other">>.          *)
Holder(p, n) ==
  CHOOSE h \in {<<0, "body">>} \cup ((DOMAIN p.node) \X {"body", "other"}) :
    n \in Range(ListAt(p, h))

Kind(p, n) == IF n = 0 THEN "function" ELSE p.node[n].kind

(* The statements of the given kinds that have n in their body.            *)
Around(p, n, kinds) ==
  LET around[m \in DOMAIN p.node] ==
        LET h == Holder(p, m)
        IN  (IF h[2] = "body" /\ Kind(p, h[1]) \in kinds THEN {h[1]} ELSE {})
            \cup (IF h[1] = 0 THEN {} ELSE around[h[1]])
  IN  around[n]

(* The innermost of them, 0 if there is none.                              *)
Innermost(p, n, kinds) ==
  LET inner[m \in DOMAIN p.node] ==
        LET h == Holder(p, m)
        IN  IF h[1] = 0 \/ (h[2] = "body" /\ Kind(p, h[1]) \in kinds) THEN h[1] ELSE inner[h[1]]
  IN  inner[n]

IsDefault(p, c) == p.node[c].flag

Default(p, s) == {c \in Range(p.node[s].body) : IsDefault(p, c)}
=============================================================================
