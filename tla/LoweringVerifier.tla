-------------------------- MODULE LoweringVerifier --------------------------
(***************************************************************************)
(* verify (src/ir/mir_verifier.cpp) of what the lowering has built, before *)
(* anything else sees it: how blocks end, what edges pass, the exception   *)
(* regions, and that no value is used where its definition may not have    *)
(* been executed.  An error of it is the end of the compilation.           *)
(***************************************************************************)
EXTENDS MirLowering, FiniteSets

Blocks == DOMAIN builder.blocks

Code(b) == builder.blocks[b].code

(* How many successors a terminator has.                                   *)
Arity == [branch |-> 1, lazy |-> 2, conditional |-> 2, return |-> 0, unreachable |-> 0]

TerminatorsFit ==
  \A b \in Blocks :
    LET end == builder.blocks[b]
    IN  /\ end.kind \in DOMAIN Arity
        /\ Len(end.successors) = Arity[end.kind]
        /\ Len(end.actuals) = Len(end.successors)

EdgesFit ==
  \A b \in Blocks : \A s \in DOMAIN builder.blocks[b].successors :
    LET successor == builder.blocks[b].successors[s]
    IN  /\ successor \in Blocks
        /\ Len(builder.blocks[b].actuals[s]) = Len(builder.blocks[successor].arguments)

-----------------------------------------------------------------------------
(* Exception regions.  The entry of a try is the block before its handler, *)
(* its continuation the one behind.                                        *)

StatementsLowered == UNION {{i.origin : i \in Range(Code(b))} : b \in Blocks}

Catches(b) == Code(b) # <<>> /\ Head(Code(b)).part = "catch"

RegionFits(r) ==
  /\ Kind(program, r.owner) = "try"
  /\ r.handler - 1 \in r.blocks
  /\ r.blocks \cap {r.handler, r.handler + 1} = {}
  /\ \A b \in r.blocks : builder.blocks[b].handler = r.handler
  /\ Catches(r.handler) <=> program.node[r.owner].var # NoVar

ExactlyOne(S) == Cardinality(S) = 1

RegionsFit ==
  /\ \A r \in Range(regions) : RegionFits(r)
  /\ \A n \in StatementsLowered :
       Kind(program, n) = "try" => ExactlyOne({r \in DOMAIN regions : regions[r].owner = n})
  /\ \A b \in Blocks :
       LET covering == {r \in DOMAIN regions : b \in regions[r].blocks}
       IN  IF builder.blocks[b].handler = 0 THEN covering = {} ELSE ExactlyOne(covering)

-----------------------------------------------------------------------------
(* Values.                                                                 *)

ValuesOf(b) ==
  SelectSeq([a \in DOMAIN builder.blocks[b].arguments |-> builder.blocks[b].arguments[a].value]
              \o [i \in DOMAIN Code(b) |-> Code(b)[i].value],
            LAMBDA value : value # 0)

DefinedOnce ==
  /\ \A b \in Blocks : IsInjective(ValuesOf(b))
  /\ \A b, c \in Blocks : b # c => Range(ValuesOf(b)) \cap Range(ValuesOf(c)) = {}

LeadsTo(b) == Range(builder.blocks[b].successors) \cup ({builder.blocks[b].handler} \ {0})

(* The entry, and what nothing leads to.                                   *)
Roots == {1} \cup (Blocks \ UNION {LeadsTo(b) : b \in Blocks})

(* The blocks that can be reached from a root without d.                   *)
ReachedWithout(d) ==
  LET grown[S \in SUBSET Blocks] ==
        LET more == (S \cup UNION {LeadsTo(b) : b \in S}) \ {d}
        IN  IF more = S THEN S ELSE grown[more]
  IN  grown[Roots \ {d}]

(* What a block passes on is its own, or of a block that dominates it,     *)
(* without which, that is, it is not reached.                              *)
UsesDominated ==
  LET defined == [b \in Blocks |-> Range(ValuesOf(b))]
      passed  == [b \in Blocks |-> UNION {Range(a) : a \in Range(builder.blocks[b].actuals)}]
      known   == UNION Range(defined)
  IN  /\ \A b \in Blocks : passed[b] \subseteq known
      /\ \A d \in Blocks :
           LET missed == ReachedWithout(d) \ {d}
           IN  \A b \in missed : passed[b] \cap defined[d] = {}

LoweringValid == TerminatorsFit /\ EdgesFit /\ RegionsFit /\ DefinedOnce /\ UsesDominated

Verify ==
  /\ phase = "verify"
  /\ phase' = IF LoweringValid THEN "run" ELSE "invalid"
  /\ UNCHANGED <<program, builder, frames, contexts, regions>>

VerifiedLoweringNext == LoweringNext \/ Verify
=============================================================================
