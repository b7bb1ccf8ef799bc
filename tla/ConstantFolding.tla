--------------------------- MODULE ConstantFolding ---------------------------
(***************************************************************************)
(* fold_constants_and_eliminate_dead_pure (src/ir/mir_optimization.cpp):   *)
(* operators over literals become literals, operands first; then the       *)
(* expressions nothing refers to any more are retired with their           *)
(* instructions.                                                           *)
(*                                                                         *)
(* expressions is the arena: [kind, op, children, type, value, lazy], kind *)
(* being "number", "boolean" (literals, of value), "unary", "binary",      *)
(* "other" or "retired".  Every expression has one instruction, of the     *)
(* same name; operands says whose values it takes, while it exists.  The   *)
(* operands of a lazy operator are taken by branches and edges instead.    *)
(* The lowering numbers an expression before its operands.                 *)
(***************************************************************************)
EXTENDS Integers, Sequences, FiniteSets, SequencesExt

CONSTANTS
  Programs,    \* [expressions, roots]: the arena, and what statements refer to
  IntMax,      \* the largest std::int64_t
  ExactMax,    \* maximum_exact_common_integer
  SignedZero   \* whether the numbers of the source have a negative zero

ASSUME BoundsAssumption ==
  IntMax \in Nat /\ ExactMax \in Nat /\ ExactMax <= IntMax /\ SignedZero \in BOOLEAN

Literals == {"number", "boolean"}

(* An expression whose operands are numbered in later.  Operators have the *)
(* operands the fold asks for.                                             *)
IsNode(e, later) ==
  /\ e.kind \in Literals \cup {"unary", "binary", "other"}
  /\ e.children \in Seq(later)
  /\ e.lazy \in BOOLEAN
  /\ e.kind \in Literals => e.children = <<>> /\ ~ e.lazy
  /\ e.kind = "unary" => Len(e.children) = 1
  /\ e.kind = "binary" => Len(e.children) = 2
  /\ e.kind = "number" /\ e.type = "integer" => e.value \in Int

(* What the lowering builds: an expression is numbered before its operands *)
(* are lowered, and none is made that no statement and no expression takes.*)
ASSUME ProgramsAssumption ==
  \A p \in Programs : LET n == Len(p.expressions) IN
    /\ n \in Nat /\ DOMAIN p.expressions = 1 .. n /\ p.roots \subseteq 1 .. n
    /\ \A i \in 1 .. n : IsNode(p.expressions[i], i + 1 .. n)
    /\ \A i \in 1 .. n :
         i \in p.roots \/ \E j \in 1 .. n : i \in Range(p.expressions[j].children)

VARIABLES
  program,
  phase,        \* "fold", then "done" or "failed"
  expressions,
  operands,
  folded,       \* those visited
  path,         \* the expressions being visited, outermost first
  next          \* the next expression to start from

vars == <<program, phase, expressions, operands, folded, path, next>>

-----------------------------------------------------------------------------
(* The arithmetic of std::int64_t.  Results are sets: empty, or of one.    *)

IntMin == - IntMax - 1

Wrapped(x) == ((x - IntMin) % (IntMax - IntMin + 1)) + IntMin

(* Division that truncates.                                                *)
Quotient(a, b) ==
  LET q == (IF a < 0 THEN - a ELSE a) \div (IF b < 0 THEN - b ELSE b)
  IN  IF (a < 0) = (b < 0) THEN q ELSE - q

CheckedAdd(l, r) ==
  IF (r > 0 /\ l > IntMax - r) \/ (r < 0 /\ l < IntMin - r) THEN {} ELSE {Wrapped(l + r)}

CheckedSubtract(l, r) ==
  IF (r < 0 /\ l > IntMax + r) \/ (r > 0 /\ l < IntMin + r) THEN {} ELSE {Wrapped(l - r)}

(* mutant: two negative factors are not tested.                            *)
MultiplyNegatives(l, r) ==
  IF (l > 0 /\ r > 0 /\ l > Quotient(IntMax, r)) \/ (l > 0 /\ r < 0 /\ r < Quotient(IntMin, l))
       \/ (l < 0 /\ r > 0 /\ l < Quotient(IntMin, r))
  THEN {} ELSE {Wrapped(l * r)}

CheckedMultiply(l, r) ==
  IF l = 0 \/ r = 0 THEN {0}
  ELSE IF \/ l = -1 /\ r = IntMin
          \/ r = -1 /\ l = IntMin
          \/ l > 0 /\ r > 0 /\ l > Quotient(IntMax, r)
          \/ l > 0 /\ r < 0 /\ r < Quotient(IntMin, l)
          \/ l < 0 /\ r > 0 /\ l < Quotient(IntMin, r)
          \/ l < 0 /\ r < 0 /\ l < Quotient(IntMax, r)
  THEN {} ELSE {Wrapped(l * r)}

(* What both targets represent.                                            *)
Exact(v) == - ExactMax <= v /\ v <= ExactMax

Comparisons == {"equal", "not equal", "less", "less equal", "greater", "greater equal"}

Compared(op, l, r) ==
  CASE op = "equal" -> l = r [] op = "not equal" -> l # r
    [] op = "less" -> l < r [] op = "less equal" -> l <= r
    [] op = "greater" -> l > r [] op = "greater equal" -> l >= r

-----------------------------------------------------------------------------
(* Folding.                                                                *)

IsInteger(e) == e.kind = "number" /\ e.type = "integer" /\ Exact(e.value)

IsBoolean(e) == e.kind = "boolean"

Literal(kind, value) ==
  [kind |-> kind, op |-> "none", children |-> <<>>,
   type |-> IF kind = "number" THEN "integer" ELSE "boolean", value |-> value, lazy |-> FALSE]

Numbers(values) == {Literal("number", v) : v \in {v \in values : Exact(v)}}

Arithmetic(op, l, r) ==
  CASE op \in Comparisons -> {Literal("boolean", Compared(op, l, r))}
    [] op = "add"         -> Numbers(CheckedAdd(l, r))
    [] op = "subtract"    -> Numbers(CheckedSubtract(l, r))
    [] op = "multiply"    -> Numbers(CheckedMultiply(l, r))
    [] OTHER              -> {}

(* The literal that replaces an expression over the operands v, if any.    *)
Replacement(e, v) ==
  LET integers == \A k \in DOMAIN v : IsInteger(v[k])
      booleans == \A k \in DOMAIN v : IsBoolean(v[k])
  IN  IF e.lazy THEN {}
      ELSE CASE e.kind = "unary" /\ e.op = "plus" /\ integers -> {Literal("number", v[1].value)}
             [] e.kind = "unary" /\ e.op = "minus" /\ integers /\ v[1].value # IntMin ->
                  {Literal("number", - v[1].value)}
             [] e.kind = "unary" /\ e.op = "not" /\ booleans -> {Literal("boolean", ~ v[1].value)}
             [] e.kind = "binary" /\ integers -> Arithmetic(e.op, v[1].value, v[2].value)
             [] e.kind = "binary" /\ e.op \in {"equal", "not equal"} /\ booleans ->
                  {Literal("boolean", Compared(e.op, v[1].value, v[2].value))}
             [] OTHER -> {}

Folded(e) == Replacement(e, [k \in DOMAIN e.children |-> expressions[e.children[k]]])

Init ==
  /\ program \in Programs
  /\ phase = "fold"
  /\ expressions = program.expressions
  /\ operands = [e \in DOMAIN expressions |->
                   IF expressions[e].lazy THEN <<>> ELSE expressions[e].children]
  /\ folded = {}
  /\ path = <<>>
  /\ next = 1

StartNext ==
  /\ phase = "fold" /\ path = <<>> /\ next \in DOMAIN expressions
  /\ path' = IF next \in folded THEN <<>> ELSE <<next>>
  /\ next' = next + 1
  /\ UNCHANGED <<program, phase, expressions, operands, folded>>

(* mutant: an expression is folded before its operands.                    *)
NothingPending(e) == {}

(* The operands that are still to be visited.                              *)
Pending(e) ==
  {k \in DOMAIN expressions[e].children : expressions[e].children[k] \notin folded \cup Range(path)}

Descend ==
  /\ phase = "fold" /\ path # <<>> /\ Pending(Last(path)) # {}
  /\ LET k == CHOOSE k \in Pending(Last(path)) : \A j \in Pending(Last(path)) : k <= j
     IN  path' = Append(path, expressions[Last(path)].children[k])
  /\ UNCHANGED <<program, phase, expressions, operands, folded, next>>

(* mutant: the instruction of a new literal keeps its operands.            *)
StillTaken(e, literal) == operands

(* A literal takes none.                                                   *)
Taken(e, literal) == IF literal = {} THEN operands ELSE [operands EXCEPT ![e] = <<>>]

Leave ==
  /\ phase = "fold" /\ path # <<>> /\ Pending(Last(path)) = {}
  /\ LET e == Last(path)
         literal == Folded(expressions[e])
     IN  /\ expressions' = IF literal = {} THEN expressions
                           ELSE [expressions EXCEPT ![e] = CHOOSE l \in literal : TRUE]
         /\ operands' = Taken(e, literal)
         /\ folded' = folded \cup {e}
  /\ path' = Front(path)
  /\ UNCHANGED <<program, phase, next>>

-----------------------------------------------------------------------------
(* Elimination.                                                            *)

(* What statements, branches and edges take.                               *)
Uses ==
  program.roots \cup
    UNION {Range(program.expressions[e].children) :
             e \in {e \in DOMAIN program.expressions : program.expressions[e].lazy}}

(* What can still be reached from them.                                    *)
Reached ==
  LET grown[S \in SUBSET DOMAIN expressions] ==
        LET more == S \cup UNION {Range(expressions[e].children) : e \in S}
        IN  IF more = S THEN S ELSE grown[more]
  IN  grown[Uses]

Live == {e \in DOMAIN expressions : expressions[e].kind # "retired"}

Dead == Live \ Reached

(* Only literals and operators may go, and nothing may still take them.    *)
Removable ==
  /\ \A e \in Dead : ~ expressions[e].lazy /\ expressions[e].kind # "other"
  /\ \A e \in DOMAIN operands \ Dead : Range(operands[e]) \cap Dead = {}
  /\ Uses \cap Dead = {}

Retired == [Literal("retired", 0) EXCEPT !.type = "none"]

(* The instructions of the retired go with them.                           *)
Compacted == [e \in DOMAIN operands \ Dead |-> operands[e]]

Sweep ==
  /\ phase = "fold" /\ path = <<>> /\ next \notin DOMAIN expressions
  /\ IF Removable
     THEN /\ phase' = "done"
          /\ expressions' = [e \in DOMAIN expressions |->
                               IF e \in Dead THEN Retired ELSE expressions[e]]
          /\ operands' = Compacted
     ELSE /\ phase' = "failed"
          /\ UNCHANGED <<expressions, operands>>
  /\ UNCHANGED <<program, folded, path, next>>

Next == StartNext \/ Descend \/ Leave \/ Sweep

Spec == Init /\ [][Next]_vars /\ WF_vars(Next)

-----------------------------------------------------------------------------
(* What an expression stands for: a number of the source (an integer, with *)
(* the sign of a zero where there is one), a truth value, or a term over   *)
(* what only the run knows.                                                *)

Number(n, minus) == [number |-> n, minus |-> SignedZero /\ n = 0 /\ minus]
Truth(b) == [truth |-> b]
Term(e, arguments) == [kind |-> e.kind, op |-> e.op, arguments |-> arguments]

IsNumber(v) == "number" \in DOMAIN v
IsTruth(v) == "truth" \in DOMAIN v

Minus(v) == Number(- v.number, ~ v.minus)

Negative(v) == v.number < 0 \/ v.minus

Computed(e, l, r) ==
  CASE e.op = "add"      -> Number(l.number + r.number, l.minus /\ r.minus)
    [] e.op = "subtract" -> Number(l.number - r.number, l.minus /\ Minus(r).minus)
    [] e.op = "multiply" -> Number(l.number * r.number, Negative(l) # Negative(r))
    [] e.op \in Comparisons -> Truth(Compared(e.op, l.number, r.number))
    [] OTHER -> Term(e, <<l, r>>)

(* The value of an expression whose operands have the values v.            *)
Applied(e, v) ==
  LET numbers == \A k \in DOMAIN v : IsNumber(v[k])
      truths == \A k \in DOMAIN v : IsTruth(v[k])
  IN  CASE e.kind = "number"  -> Number(e.value, FALSE)
        [] e.kind = "boolean" -> Truth(e.value)
        [] e.kind = "unary" /\ numbers /\ e.op = "plus"  -> v[1]
        [] e.kind = "unary" /\ numbers /\ e.op = "minus" -> Minus(v[1])
        [] e.kind = "unary" /\ truths /\ e.op = "not"    -> Truth(~ v[1].truth)
        [] e.kind = "binary" /\ ~ e.lazy /\ numbers -> Computed(e, v[1], v[2])
        [] e.kind = "binary" /\ truths /\ e.op \in {"equal", "not equal"} ->
             Truth(Compared(e.op, v[1].truth, v[2].truth))
        [] OTHER -> Term(e, v)

Meaning(arena) ==
  LET f[i \in DOMAIN arena] ==
        Applied(arena[i], [k \in DOMAIN arena[i].children |-> f[arena[i].children[k]]])
  IN  f

(* Whatever has been folded so far, every expression that is left stands   *)
(* for the value it had in the source: no sum or product wraps, and none   *)
(* leaves the numbers both targets have.                                   *)
FoldingKeepsValues ==
  LET meaning == Meaning(expressions)
      original == Meaning(program.expressions)
  IN  \A e \in Live : meaning[e] = original[e]

(* One pass is enough: folding again would find nothing more, although an  *)
(* expression comes before its operands in the arena.                      *)
FoldsAll == phase = "done" => \A e \in Live : Folded(expressions[e]) = {}

(* The pass ends, and never meets its own errors: what folding cut off is  *)
(* pure and no live instruction takes it, operands of lazy operators and   *)
(* of calls included.                                                      *)
Completes == <>(phase = "done")
=============================================================================
