----------------------------- MODULE MirProgram -----------------------------
(***************************************************************************)
(* The part of a MIR function that the optimizer rewrites, and what the    *)
(* verifier asks of it between two passes.                                 *)
(*                                                                         *)
(* A program p is a record with                                            *)
(*   p.blocks        the block ids, p.entry the entry block                *)
(*   p.arguments[b]  the block arguments of b, in order                    *)
(*   p.stored        the block arguments that carry a storage identity     *)
(*   p.code[b]       the instructions of b: the values each reads, and the *)
(*                   set (empty or a singleton) of values it defines       *)
(*   p.kind[b], p.tests[b], p.next[b], p.actuals[b]   the terminator: its  *)
(*                   kind, operands, successors and successor arguments    *)
(*   p.handler[b]    the exception handler of b, or NoBlock                *)
(*   p.retained      the blocks that exception regions, argument entries,  *)
(*                   parameter defaults and argument exits name            *)
(*   p.expressionValues  the values recorded in the expression arena       *)
(*   p.provenance    the values recorded in argument flows                 *)
(***************************************************************************)
EXTENDS Integers, Sequences, FiniteSets

CONSTANTS
  Values,      \* value ids
  NoBlock      \* the invalid block id

VARIABLES
  program,     \* the program being optimized
  pass         \* the pass of the pipeline that runs

Instructions == [reads : Seq(Values), defines : SUBSET Values]

Fields ==
  {"blocks", "entry", "arguments", "stored", "code", "kind", "tests", "next", "actuals",
   "handler", "retained", "expressionValues", "provenance"}

(* The shape of the record, before any verification.                       *)
IsProgram(p) ==
  /\ DOMAIN p = Fields
  /\ IsFiniteSet(p.blocks) /\ p.blocks = 1..Cardinality(p.blocks)
  /\ NoBlock \notin p.blocks
  /\ p.arguments \in [p.blocks -> Seq(Values)]
  /\ p.stored \subseteq Values
  /\ p.code \in [p.blocks -> Seq(Instructions)]
  /\ p.kind \in [p.blocks -> {"branch", "conditional", "return", "unreachable"}]
  /\ p.tests \in [p.blocks -> Seq(Values)]
  /\ p.next \in [p.blocks -> Seq(Nat)]
  /\ p.actuals \in [p.blocks -> Seq(Seq(Values))]
  /\ p.handler \in [p.blocks -> Nat \cup {NoBlock}]

-----------------------------------------------------------------------------
(* The graph the verifier walks: terminator and exceptional successors.    *)

Edges(p) == UNION {{<<b, i>> : i \in DOMAIN p.next[b]} : b \in p.blocks}

Flows(p, from, to) ==
  \/ \E i \in DOMAIN p.next[from] : p.next[from][i] = to
  \/ p.handler[from] = to

(* Where the dataflow of the dominators starts: the entry, and the blocks  *)
(* nothing flows into.                                                     *)
Roots(p) ==
  {b \in p.blocks : b = p.entry \/ \A a \in p.blocks : ~ Flows(p, a, b)}

Onwards(p, d, R) == R \cup {b \in p.blocks \ {d} : \E a \in R : Flows(p, a, b)}

ReachedWithout(p, d) ==
  LET reached[n \in 0..Cardinality(p.blocks)] ==
        IF n = 0 THEN Roots(p) \ {d} ELSE Onwards(p, d, reached[n - 1])
  IN  reached[Cardinality(p.blocks)]

Dominates(p, d, b) == b \notin ReachedWithout(p, d)

-----------------------------------------------------------------------------
(* Definitions and uses.  A value is defined by a block argument (position *)
(* 0 of its block) or by an instruction.                                   *)

Definitions(p) ==
  (UNION {{<<p.arguments[b][k], b, 0>> : k \in DOMAIN p.arguments[b]} : b \in p.blocks})
    \cup
  (UNION {UNION {{<<v, b, k>> : v \in p.code[b][k].defines} : k \in DOMAIN p.code[b]} :
            b \in p.blocks})

Defined(p) == {d[1] : d \in Definitions(p)}

Elements(s) == {s[k] : k \in DOMAIN s}

Uses(p) ==
  (UNION {UNION {{<<v, b, k>> : v \in Elements(p.code[b][k].reads)} : k \in DOMAIN p.code[b]} :
            b \in p.blocks})
    \cup
  (UNION {{<<v, b, Len(p.code[b]) + 1>> :
             v \in Elements(p.tests[b]) \cup UNION {Elements(a) : a \in Elements(p.actuals[b])}} :
            b \in p.blocks})

DefinedBeforeUse(p, use) ==
  \E d \in Definitions(p) :
    /\ d[1] = use[1]
    /\ IF d[2] = use[2] THEN d[3] < use[3] ELSE Dominates(p, d[2], use[2])

DefinedOnce(p) ==
  /\ \A d, e \in Definitions(p) : d[1] = e[1] => d = e
  /\ \A b \in p.blocks : \A j, k \in DOMAIN p.arguments[b] :
       p.arguments[b][j] = p.arguments[b][k] => j = k

-----------------------------------------------------------------------------
(* The conditions of the verifier.                                         *)

TerminatorFits(p, b) ==
  CASE p.kind[b] = "branch" -> p.tests[b] = <<>> /\ Len(p.next[b]) = 1
    [] p.kind[b] = "conditional" -> Len(p.tests[b]) = 1 /\ Len(p.next[b]) = 2
    [] p.kind[b] = "return" -> Len(p.tests[b]) <= 1 /\ p.next[b] = <<>>
    [] p.kind[b] = "unreachable" -> p.tests[b] = <<>> /\ p.next[b] = <<>>

EdgesFit(p) ==
  \A b \in p.blocks :
    /\ TerminatorFits(p, b)
    /\ DOMAIN p.actuals[b] = DOMAIN p.next[b]
    /\ \A i \in DOMAIN p.next[b] :
         /\ p.next[b][i] \in p.blocks
         /\ Len(p.actuals[b][i]) = Len(p.arguments[p.next[b][i]])
    /\ p.handler[b] \in p.blocks \cup {NoBlock}

Verified(p) ==
  /\ p.entry \in p.blocks
  /\ p.retained \subseteq p.blocks
  /\ EdgesFit(p)
  /\ DefinedOnce(p)
  /\ \A use \in Uses(p) : DefinedBeforeUse(p, use)
  /\ p.expressionValues \cup Elements(p.provenance) \subseteq Defined(p)

(* What the builder sees to and the verifier takes for granted: the blocks *)
(* that edges lead to are made after the entry; an exception handler is    *)
(* entered only by failing, with no values passed; a block argument that   *)
(* is the value of an expression (of a lazy operator) has no storage; and  *)
(* code after a terminator starts a block of its own, so that no           *)
(* instruction is in a cycle of blocks that no root leads to.              *)
Built(p) ==
  /\ \A b \in p.blocks : ~ Flows(p, b, p.entry)
  /\ \A b \in p.blocks : p.handler[b] # NoBlock => p.arguments[p.handler[b]] = <<>>
  /\ p.expressionValues \cap p.stored = {}
  /\ \A b \in p.blocks \ ReachedWithout(p, NoBlock) :
       \A k \in DOMAIN p.code[b] : p.code[b][k].defines = {}
=============================================================================
