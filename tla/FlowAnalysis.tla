---------------------------- MODULE FlowAnalysis ----------------------------
(***************************************************************************)
(* FlowAnalyzer (src/semantic/flow_analysis.cpp): for every statement,     *)
(* whether it terminates, that is, whether control never leaves it towards *)
(* the next statement, and whether it can be reached.                      *)
(***************************************************************************)
EXTENDS StructuredProgram

(* mutant: one branch that terminates is enough.                          *)
OneBranchTerminates(body, other) == body \/ other

BranchesTerminate(body, other) == body /\ other

(* Loops never do, whatever their body does.                               *)
Terminates(p) ==
  LET terminates[n \in DOMAIN p.node] ==
        LET s == p.node[n]
            Some(list) == \E k \in Range(list) : terminates[k]
        IN  \/ s.kind \in {"return", "break", "continue"}
            \/ s.kind \in {"if", "try"} /\ BranchesTerminate(Some(s.body), Some(s.other))
            \/ s.kind = "case" /\ Some(s.body)
            \/ /\ s.kind = "select"
               /\ Default(p, n) # {}
               /\ \A c \in Range(s.body) : terminates[c]
  IN  terminates

ListTerminates(p, list) == \E n \in Range(list) : Terminates(p)[n]

(* The statements of the list of n that come before n; the clauses of a    *)
(* select do not come after one another.                                   *)
Earlier(p, n) ==
  LET h == Holder(p, n)
      list == ListAt(p, h)
  IN  IF Kind(p, h[1]) = "select" THEN {}
      ELSE {list[i] : i \in {i \in DOMAIN list : \E j \in DOMAIN list : i < j /\ list[j] = n}}

Reachable(p) ==
  LET reachable[n \in DOMAIN p.node] ==
        /\ Holder(p, n)[1] = 0 \/ reachable[Holder(p, n)[1]]
        /\ \A k \in Earlier(p, n) : ~ Terminates(p)[k]
  IN  reachable
=============================================================================
