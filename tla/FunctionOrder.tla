---------------------------- MODULE FunctionOrder ----------------------------
(***************************************************************************)
(* What is done with the function graph: the analyzer goes through the     *)
(* functions in definition order and then through the other statements;    *)
(* the C++ back end refuses recursive functions whose return type cannot   *)
(* be written down, declares the others beforehand, and defines all        *)
(* functions in definition order.  m.representable are the functions whose *)
(* return type can be written down.                                        *)
(***************************************************************************)
EXTENDS FunctionGraph

VARIABLES
  analyzed,   \* the statements analyzed, in order
  capable,    \* the capability check: "none", then "no" or "yes", then "planned"
  declared,   \* the functions with a forward declaration
  emitted     \* the functions defined and the statements of the entry, in order

consumers == <<analyzed, capable, declared, emitted>>
allVars == <<vars, consumers>>

OrderInit ==
  /\ Init
  /\ analyzed = <<>>
  /\ capable = "none"
  /\ declared = {}
  /\ emitted = <<>>

Search == Next /\ UNCHANGED consumers

In(s, x) == \E i \in DOMAIN s : s[i] = x

(* The functions in definition order, then the other statements.           *)
NextInOrder(s, n) ==
  IF Len(s) < Len(definition_order) THEN n = definition_order[Len(s) + 1]
  ELSE /\ n \in (1 .. module.count) \ Functions(module)
       /\ ~ In(s, n)
       /\ \A k \in (1 .. n - 1) \ Functions(module) : In(s, k)

(* Analyzer::analyze.                                                      *)
Analyze ==
  /\ Searched
  /\ \E n \in 1 .. module.count : NextInOrder(analyzed, n) /\ analyzed' = Append(analyzed, n)
  /\ UNCHANGED <<vars, capable, declared, emitted>>

(* mutant: only calls of a function to itself are seen.                    *)
ReachedDirectly(f) == Callees(module, f)

(* function_reaches, over the calls of the program instead of the graph.   *)
Reached(f) ==
  LET reach[n \in 0 .. module.count] ==
        IF n = 0 THEN Callees(module, f)
        ELSE reach[n - 1] \cup UNION {Callees(module, g) : g \in reach[n - 1]}
  IN  reach[module.count]

(* validate_cpp_capabilities, MPF2035.                                     *)
Validate ==
  /\ Len(analyzed) = module.count
  /\ Searched
  /\ capable = "none"
  /\ capable' = IF \E f \in Functions(module) : f \in Reached(f) /\ f \notin module.representable
                THEN "no" ELSE "yes"
  /\ UNCHANGED <<vars, analyzed, declared, emitted>>

(* plan_function_abis and the forward declarations.                        *)
Plan ==
  /\ capable = "yes"
  /\ capable' = "planned"
  /\ declared' = {f \in recursive : f \in module.representable}
  /\ UNCHANGED <<vars, analyzed, emitted>>

Emit ==
  /\ capable = "planned"
  /\ \E n \in 1 .. module.count : NextInOrder(emitted, n) /\ emitted' = Append(emitted, n)
  /\ UNCHANGED <<vars, analyzed, capable, declared>>

OrderNext == Search \/ Analyze \/ Validate \/ Plan \/ Emit

OrderSpec == OrderInit /\ [][OrderNext]_allVars /\ WF_allVars(OrderNext)

-----------------------------------------------------------------------------

Before(s, i, x) == \E j \in 1 .. i - 1 : s[j] = x

(* When a statement is analyzed, the facts of the functions it calls are   *)
(* complete, unless the call is a recursive one.                           *)
FactsReady ==
  \A i \in DOMAIN analyzed : \A g \in module.calls[analyzed[i]] \ {0} :
    \/ Before(analyzed, i, g)
    \/ analyzed[i] \in Functions(module) /\ LeadsTo(g, analyzed[i])

(* In a translation unit that is not refused, no function is used before   *)
(* its definition or a declaration of it, in whatever order functions that *)
(* call one another were written: the recursion found by the components    *)
(* and the one found by the capability check agree.                        *)
UsesDeclared ==
  \A i \in DOMAIN emitted : \A g \in module.calls[emitted[i]] \ {0} :
    Before(emitted, i, g) \/ g \in declared

(* Every module is refused, or all of it is emitted, every statement once. *)
UnitComplete ==
  <>(\/ capable = "no"
     \/ /\ Len(emitted) = module.count
        /\ \A n \in 1 .. module.count : In(emitted, n))
=============================================================================
