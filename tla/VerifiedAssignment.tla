------------------------- MODULE VerifiedAssignment -------------------------
(***************************************************************************)
(* The output-assignment analysis and its verifier, one after the other.   *)
(* The table the verifier receives is the one the analysis left, or that   *)
(* table with cells changed by a faulty pass.                              *)
(***************************************************************************)
EXTENDS OutputAssignment

CONSTANTS
  OutputOrder(_),  \* OutputOrder(p): the outputs of p, in slot order
  Damaged(_, _)    \* Damaged(p, t): the tables t may be handed over as

(* Every output has one slot.                                              *)
ASSUME OutputOrderAssumption ==
  \A p \in Programs :
    /\ OutputOrder(p) \in Seq(p.outputs)
    /\ \A o \in p.outputs : \E i \in DOMAIN OutputOrder(p) : OutputOrder(p)[i] = o
    /\ \A i, j \in DOMAIN OutputOrder(p) : OutputOrder(p)[i] = OutputOrder(p)[j] => i = j

VARIABLES
  delivered,  \* the tables in the verifier's hands: none, or one
  expected, slot, visited, touched, paths, block, step, value, verdict  \* the verifier

judge == <<expected, slot, visited, touched, paths, block, step, value, verdict>>

allVars == <<vars, delivered, judge>>

Table == CHOOSE t \in delivered : TRUE

Judge == INSTANCE OutputAssignmentVerifier WITH analysis <- Table, pending <- paths

VerifiedInit == Init /\ delivered = {} /\ Judge!Init

Analyse == Next /\ UNCHANGED <<delivered, judge>>

(* A table of another shape is refused before the comparison.              *)
Deliver ==
  /\ Done /\ delivered = {}
  /\ \E t \in Damaged(program, rows) :
       t \in [Points(program) -> Row(program)] /\ delivered' = {t}
  /\ UNCHANGED <<vars, judge>>

Verify == delivered # {} /\ UNCHANGED <<vars, delivered>> /\ Judge!Next

VerifiedNext == Analyse \/ Deliver \/ Verify

VerifiedSpec == VerifiedInit /\ [][VerifiedNext]_allVars /\ WF_allVars(VerifiedNext)

-----------------------------------------------------------------------------

(* The verifier rejects exactly the tables that are not what executions    *)
(* realise: it accepts what the analysis computes and sees any single      *)
(* wrong cell, however many outputs share its flags.                       *)
VerdictIsExact ==
  verdict # "none" =>
    (verdict = "accepted" <=>
       \A pt \in Points(program) : \A o \in program.outputs :
         Table[pt][o] = Collected(program, Reach[program], pt, o))

(* The analysis halts on every program, cyclic and mutually handling       *)
(* blocks included, and its table gets a verdict.                          *)
EveryTableJudged == <>(verdict # "none")
=============================================================================
