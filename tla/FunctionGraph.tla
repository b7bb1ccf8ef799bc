---------------------------- MODULE FunctionGraph ----------------------------
(***************************************************************************)
(* The function dependency graph of a source module                        *)
(* (src/compiler/dependency_graph.cpp): a non-recursive depth-first search *)
(* that lists the functions in definition order and finds the recursive    *)
(* ones by their strongly connected components.  One step is one iteration *)
(* of the loop over the roots or of the loop over the traversal.           *)
(*                                                                         *)
(* A module m has m.count top-level statements, of which those in          *)
(* m.functions are functions.  m.calls[f] is what the calls in f (in the   *)
(* defaults of its parameters, the validators of its arguments and its     *)
(* body) are resolved to, 0 for a callee that is no function of the        *)
(* module.  m.dependencies[f] lists the callees once, in increasing order. *)
(***************************************************************************)
EXTENDS Integers, Sequences

CONSTANT Modules

Functions(m) == {m.functions[i] : i \in DOMAIN m.functions}

Callees(m, f) == {m.dependencies[f][k] : k \in DOMAIN m.dependencies[f]}

Increasing(s) == \A j, k \in DOMAIN s : j < k => s[j] < s[k]

(* build_function_dependency_graph_generic: the callees collected, sorted, *)
(* without duplicates.                                                     *)
WellFormed(m) ==
  /\ m.count \in Nat
  /\ m.functions \in Seq(1 .. m.count) /\ Increasing(m.functions)
  /\ m.dependencies \in [Functions(m) -> Seq(Functions(m))]
  /\ \A n \in 1 .. m.count : m.calls[n] \subseteq Functions(m) \cup {0}
  /\ \A f \in Functions(m) : /\ Callees(m, f) = m.calls[f] \ {0}
                             /\ Increasing(m.dependencies[f])

ASSUME ModulesAssumption == \A m \in Modules : WellFormed(m)

VARIABLES
  module,            \* never changes
  next_root,         \* the next function to start a search from
  traversal,         \* the frames, the innermost last
  discovery,         \* function -> the number of its discovery, or Unvisited
  lowlink,           \* function -> the lowest number known to be reachable
  active,            \* the functions of components that are still open
  component_stack,   \* those functions, in the order of discovery
  next_discovery,
  definition_order,
  recursive          \* the functions found to be recursive

vars == <<module, next_root, traversal, discovery, lowlink, active, component_stack,
          next_discovery, definition_order, recursive>>

Unvisited == -1

Frame(f) == [function |-> f, next_dependency |-> 1]

Lower(a, b) == IF a < b THEN a ELSE b

Init ==
  /\ module \in Modules
  /\ next_root = 1
  /\ traversal = <<>>
  /\ discovery = [f \in Functions(module) |-> Unvisited]
  /\ lowlink = [f \in Functions(module) |-> Unvisited]
  /\ active = {}
  /\ component_stack = <<>>
  /\ next_discovery = 0
  /\ definition_order = <<>>
  /\ recursive = {}

(* enter, with the frames it is entered from.                              *)
Enter(f, frames) ==
  /\ discovery' = [discovery EXCEPT ![f] = next_discovery]
  /\ lowlink' = [lowlink EXCEPT ![f] = next_discovery]
  /\ next_discovery' = next_discovery + 1
  /\ active' = active \cup {f}
  /\ component_stack' = Append(component_stack, f)
  /\ traversal' = Append(frames, Frame(f))

Root ==
  /\ traversal = <<>>
  /\ next_root \in DOMAIN module.functions
  /\ next_root' = next_root + 1
  /\ LET f == module.functions[next_root]
     IN  IF discovery[f] = Unvisited THEN Enter(f, traversal)
         ELSE UNCHANGED <<traversal, discovery, lowlink, active, component_stack, next_discovery>>
  /\ UNCHANGED <<module, definition_order, recursive>>

Top == traversal[Len(traversal)]

Popped == SubSeq(traversal, 1, Len(traversal) - 1)

(* mutant: the frame is not moved past the dependency it follows.          *)
AdvancedNot == traversal

Advanced == [traversal EXCEPT ![Len(traversal)].next_dependency = @ + 1]

(* mutant: a dependency of a finished component counts as well.            *)
LowersIfSeen(f) == TRUE

(* A dependency counts while its component is open.                        *)
Lowers(f) == f \in active

Follow ==
  /\ traversal # <<>>
  /\ Top.next_dependency \in DOMAIN module.dependencies[Top.function]
  /\ LET f == Top.function
         dependency == module.dependencies[f][Top.next_dependency]
     IN  IF discovery[dependency] = Unvisited THEN Enter(dependency, Advanced)
         ELSE /\ traversal' = Advanced
              /\ lowlink' = IF Lowers(dependency)
                            THEN [lowlink EXCEPT ![f] = Lower(@, discovery[dependency])]
                            ELSE lowlink
              /\ UNCHANGED <<discovery, active, component_stack, next_discovery>>
  /\ UNCHANGED <<module, next_root, definition_order, recursive>>

(* The component of f: f and what was pushed on the stack since.           *)
Position(f) == CHOOSE i \in DOMAIN component_stack : component_stack[i] = f

Component(f) == {component_stack[i] : i \in Position(f) .. Len(component_stack)}

SelfCalling(f) == f \in Callees(module, f)

(* mutant: the latest function is listed first.                            *)
ListedFirst(f) == <<f>> \o definition_order

Listed(f) == Append(definition_order, f)

(* Every dependency of the innermost function was followed: it is listed,  *)
(* its low link goes to its caller, and if it is the first of its          *)
(* component, the component is complete.                                   *)
Leave ==
  /\ traversal # <<>>
  /\ Top.next_dependency = Len(module.dependencies[Top.function]) + 1
  /\ LET f == Top.function
         members == Component(f)
     IN  /\ definition_order' = Listed(f)
         /\ lowlink' = IF Popped = <<>> THEN lowlink
                       ELSE [lowlink EXCEPT ![Popped[Len(Popped)].function] = Lower(@, lowlink[f])]
         /\ IF lowlink[f] = discovery[f]
            THEN /\ active' = active \ members
                 /\ component_stack' = SubSeq(component_stack, 1, Position(f) - 1)
                 /\ recursive' = IF members # {f} \/ SelfCalling(f)
                                 THEN recursive \cup members ELSE recursive
            ELSE UNCHANGED <<active, component_stack, recursive>>
  /\ traversal' = Popped
  /\ UNCHANGED <<module, next_root, discovery, next_discovery>>

Next == Root \/ Follow \/ Leave

Spec == Init /\ [][Next]_vars

Searched == traversal = <<>> /\ next_root = Len(module.functions) + 1

-----------------------------------------------------------------------------

(* A set of functions that holds every callee of its functions.            *)
Closed(S) == \A f \in S : Callees(module, f) \subseteq S

(* The calls of f lead to g: g is in every closed set that f is in.        *)
LeadsTo(f, g) ==
  \A S \in SUBSET Functions(module) : f \in S /\ Closed(S) => g \in S

(* A function is listed after its callees, but for those that call it back *)
(* in turn: whatever depends on the definition of a callee outside its own *)
(* component finds it before.                                              *)
CalleesFirst ==
  \A i \in DOMAIN definition_order : \A g \in Callees(module, definition_order[i]) :
    \/ \E j \in 1 .. i - 1 : definition_order[j] = g
    \/ LeadsTo(g, definition_order[i])

OnCycle(f) == \E g \in Callees(module, f) : LeadsTo(g, f)

(* A function is marked recursive exactly when its calls lead back to it,  *)
(* although low links are merged only when a frame is left, components are *)
(* closed while other searches are open, and searches restart.             *)
RecursiveExact ==
  Searched => recursive = {f \in Functions(module) : OnCycle(f)}
=============================================================================
