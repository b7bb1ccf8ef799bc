------------------------- MODULE DefiniteAssignment -------------------------
(***************************************************************************)
(* The definite assignment of the analyzer (src/semantic/analyzer.cpp):    *)
(* which variables are assigned before and after every statement.  A       *)
(* program that reads a variable anywhere else, or whose results are not   *)
(* assigned at the end of the body, is refused; so is a break or continue  *)
(* outside a loop.                                                         *)
(***************************************************************************)
EXTENDS FlowAnalysis

Bound(var) == IF var = NoVar THEN {} ELSE {var}

(* mutant: what one continuation assigns is assigned.                      *)
CommonToSome(states, before) == IF states = {} THEN before ELSE UNION states

(* What all continuations assign; what was assigned before, without one.   *)
Common(states, before) ==
  IF states = {} THEN before ELSE {v \in Variables : \A s \in states : v \in s}

(* What a range loop assigns before its body.                              *)
AheadOfRange(p, n) ==
  IF p.node[n].flag \/ ~ p.retains THEN {p.node[n].var} ELSE {}

(* What is assigned after n, when a is assigned before it.                 *)
After(p) ==
  LET after[n \in DOMAIN p.node, a \in SUBSET Variables] ==
        LET s == p.node[n]
            Along(list, from) == FoldLeft(LAMBDA b, k : after[k, b], from, list)
            Ends(list, from) == IF ListTerminates(p, list) THEN {} ELSE {Along(list, from)}
        IN  CASE s.kind = "store"  -> a \cup {s.var}
              [] s.kind = "if"     -> Along(s.body, a) \cap Along(s.other, a)
              [] s.kind = "try"    -> Common(Ends(s.body, a)
                                             \cup Ends(s.other, a \cup Bound(s.var)), a)
              [] s.kind = "case"   -> Along(s.body, a)
              [] s.kind = "select" ->
                   Common(UNION {Ends(p.node[c].body, a) : c \in Range(s.body)}
                          \cup (IF Default(p, n) = {} THEN {a} ELSE {}), a)
              [] s.kind = "range"  -> IF s.flag THEN Along(s.body, a \cup {s.var})
                                      ELSE a \cup AheadOfRange(p, n)
              [] OTHER             -> a
  IN  after

(* What is assigned at the start of a list of n, when a is before n.       *)
AtStart(p, n, part, a) ==
  LET s == p.node[n]
  IN  CASE s.kind = "try" /\ part = "other"   -> a \cup Bound(s.var)
        [] s.kind = "range" /\ part = "other" -> a \cup AheadOfRange(p, n)
        [] s.kind \in {"range", "for"}        -> a \cup {s.var}
        [] OTHER                              -> a

Before(p) ==
  LET before[n \in DOMAIN p.node] ==
        LET h == Holder(p, n)
            start == IF h[1] = 0 THEN p.inputs ELSE AtStart(p, h[1], h[2], before[h[1]])
        IN  FoldLeft(LAMBDA a, k : After(p)[k, a], start,
                     SelectSeq(ListAt(p, h), LAMBDA k : k \in Earlier(p, n)))
  IN  before

Uses(p, n) == p.node[n].kind \in {"read", "return"} /\ p.node[n].var # NoVar

Accepted(p) ==
  /\ \A n \in DOMAIN p.node : Uses(p, n) => p.node[n].var \in Before(p)[n]
  /\ \A n \in DOMAIN p.node :
       p.node[n].kind \in {"break", "continue"} => Innermost(p, n, Loops) # 0
  /\ p.results \subseteq FoldLeft(LAMBDA a, k : After(p)[k, a], p.inputs, p.body)
=============================================================================
