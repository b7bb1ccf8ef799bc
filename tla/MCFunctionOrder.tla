--------------------------- MODULE MCFunctionOrder ---------------------------
(***************************************************************************)
(* Every call graph of three functions around an entry statement, with     *)
(* every choice of the representable ones, and the graphs of four          *)
(* functions that call at most two of a fixed choice each.                 *)
(***************************************************************************)
EXTENDS FunctionOrder, FiniteSets

S == INSTANCE SequencesExt

Module(functions, count, calls, representable) ==
  [functions |-> functions, count |-> count, calls |-> calls, representable |-> representable,
   dependencies |-> [f \in {functions[i] : i \in DOMAIN functions} |->
                       S!SetToSortSeq(calls[f] \ {0}, <)]]

(* Statement 2 is no function; it calls them all, and one that is unknown. *)
ThreeFunctions ==
  {Module(<<1, 3, 4>>, 4, [n \in 1..4 |-> IF n = 2 THEN {0, 1, 3, 4} ELSE calls[n]], representable) :
     calls \in [{1, 3, 4} -> SUBSET {1, 3, 4}], representable \in {{}, {1, 3, 4}, {1, 4}}}

FourFunctions ==
  {Module(<<1, 2, 3, 4>>, 4, calls, 1..4) :
     calls \in {c \in [1..4 -> {{}, {1}, {2}, {3}, {4}, {1, 3}, {2, 4}, {3, 4}}] :
                  /\ c[1] \notin {{}, {1}}
                  /\ c[4] \in {{}, {1}, {2}, {1, 3}}}}

MCModules == ThreeFunctions \cup FourFunctions
=============================================================================
