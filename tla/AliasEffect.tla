----------------------------- MODULE AliasEffect -----------------------------
(***************************************************************************)
(* The interprocedural part of analyze_alias_effects                       *)
(* (src/ir/alias_effect_analysis.cpp): what a call does to the arguments   *)
(* it is given and to everything else.                                     *)
(*                                                                         *)
(* A summary of every function is seeded from its own instructions and     *)
(* carried from callees to callers, call after call in program order,      *)
(* until a pass over all the calls changes nothing or the number of passes *)
(* reaches a limit.  One step is the common part of one call or one of its *)
(* arguments, so that a function that calls itself reads the summary it is *)
(* changing, as the code does.                                             *)
(*                                                                         *)
(* A program p has functions 1..p.count.  p.parameters[f] is the sequence  *)
(* of storages of the parameters of f, p.kind[s] the kind of a storage and *)
(* p.base[s] what a view is a view of.  p.body is the set of instructions  *)
(* that are not calls of a function of p, each with its owner, its         *)
(* effects, its accesses <<storage, mode>> and whether it is a call of     *)
(* something outside p.  p.calls is the sequence of the other calls; an    *)
(* argument is a storage (or NoStorage), a region of it and whether the    *)
(* transfer may write.  The summaries are kept by fact, not by function: a *)
(* formal <<f, i>> is parameter i of function f, and formals["write"] is   *)
(* the set of the formals that their functions may write.                  *)
(***************************************************************************)
EXTENDS Integers, Sequences, FiniteSets

CONSTANTS
  Programs,
  NoStorage  \* the argument is omitted or has no storage

Modes == {"read", "write"}
Flags == Modes \cup {"escape"}
Effects == Modes \cup {"may_fail", "external_unknown"}
Regions == {"whole", "front", "back"}

Functions(p) == 1 .. p.count
Storages(p) == DOMAIN p.kind
Calls(p) == 1 .. Len(p.calls)
Formals(p) == {<<f, i>> : f \in Functions(p), i \in 1 .. p.arity}
Entries(p) == {m \in Formals(p) : m[2] <= Len(p.parameters[m[1]])}

Argument(p) ==
  [storage : Storages(p) \cup {NoStorage}, region : Regions, writable : BOOLEAN]

IsProgram(p) ==
  /\ p.count \in Nat /\ p.arity \in Nat
  /\ p.parameters \in [Functions(p) -> Seq(Storages(p))]
  /\ \A f \in Functions(p) : Len(p.parameters[f]) <= p.arity
  /\ \A s \in Storages(p) : p.kind[s] \in {"parameter", "local", "global", "view"}
  /\ p.base \in [Storages(p) -> Storages(p)]
  /\ p.body \subseteq [owner : Functions(p), effects : SUBSET Effects,
                       accesses : SUBSET (Storages(p) \X Modes), external : BOOLEAN]
  /\ p.calls \in Seq([caller : Functions(p), callee : Functions(p),
                      arguments : Seq(Argument(p))])

ASSUME ProgramsAssumption ==
  \A p \in Programs : IsProgram(p)

VARIABLES
  program,      \* the program analysed; never changes
  effects,      \* <<function, effect>>
  unknown,      \* <<function, mode>>: memory that has no storage
  formals,      \* flag -> the formals that carry it
  instructions, \* call -> the facts of its instruction
  escapes,      \* the storages that escape
  iteration,    \* passes finished
  call,         \* the call being carried to its caller
  argument,     \* its argument, 0 for the part common to all
  changed,      \* has this pass changed a fact
  calls,        \* call -> what the table says of it
  phase         \* "propagate", "instantiate" or "done"

facts == <<effects, unknown, formals, instructions>>
vars == <<program, facts, escapes, iteration, call, argument, changed, calls, phase>>

(***************************************************************************)
(* Storages.                                                               *)
(***************************************************************************)
(* A view of a view does not survive lowering: views are one level deep.   *)
Root(p, s) == IF p.kind[s] = "view" THEN p.base[s] ELSE s

(* The formals of f that own the memory of s; at most one.                 *)
FormalsOf(p, f, s) ==
  {m \in Entries(p) : m[1] = f /\ Root(p, p.parameters[f][m[2]]) = Root(p, s)}

(* Parameters have storages of that kind, made when their function is      *)
(* lowered and at hand only then: a function touches no other's.           *)
OwnsParameters(p) ==
  /\ \A m \in Entries(p) : p.kind[p.parameters[m[1]][m[2]]] = "parameter"
  /\ \A i \in p.body : \A a \in i.accesses :
       p.kind[Root(p, a[1])] = "parameter" => FormalsOf(p, i.owner, a[1]) # {}

ASSUME ParametersAssumption == \A p \in Programs : OwnsParameters(p)

IsGlobal(p, f, s) == FormalsOf(p, f, s) = {} /\ p.kind[Root(p, s)] = "global"

(***************************************************************************)
(* The facts of one instruction.                                           *)
(***************************************************************************)
(* What is outside the program reads and writes all that it is given.      *)
Accesses(i) ==
  IF i.external
  THEN {<<a[1], mode>> : a \in i.accesses, mode \in Modes}
  ELSE i.accesses

(* The parameters that the instructions of their function access, and      *)
(* those they hand to something outside the program.                       *)
LocalFormals(p, flag) ==
  {m \in Entries(p) :
     \E i \in p.body :
       /\ i.owner = m[1]
       /\ \E a \in Accesses(i) :
            /\ m \in FormalsOf(p, i.owner, a[1])
            /\ IF flag = "escape" THEN i.external ELSE a[2] = flag}

MinimumEffects(i) ==
  IF i.external THEN Modes \cup {"may_fail", "external_unknown"} ELSE i.effects

(* Accesses to parameters stay out of the effects of the function, those   *)
(* to globals and to memory without a storage are counted in.              *)
LocalEffects(p) ==
  {x \in Functions(p) \X Effects :
     \E i \in p.body :
       /\ i.owner = x[1]
       /\ \/ x[2] \in MinimumEffects(i) \ Modes
          \/ i.external /\ x[2] \in Modes
          \/ \E a \in Accesses(i) : a[2] = x[2] /\ IsGlobal(p, i.owner, a[1])}

LocalUnknown(p) ==
  {u \in Functions(p) \X Modes : \E i \in p.body : i.owner = u[1] /\ i.external}

LocalEscapes(p) ==
  {Root(p, a[1]) : a \in UNION {i.accesses : i \in {i \in p.body : i.external}}}

NoFacts == [effects |-> {}, unknown |-> {}, accesses |-> {}]

Init ==
  /\ program \in Programs
  /\ effects = LocalEffects(program)
  /\ unknown = LocalUnknown(program)
  /\ formals = [flag \in Flags |-> LocalFormals(program, flag)]
  /\ instructions = [c \in Calls(program) |-> NoFacts]
  /\ escapes = LocalEscapes(program)
  /\ iteration = 0
  /\ call = 1
  /\ argument = 0
  /\ changed = FALSE
  /\ calls = <<>>
  /\ phase = "propagate"

(***************************************************************************)
(* One call.                                                               *)
(***************************************************************************)
Current == program.calls[call]
Actual == Current.arguments[argument]

Pairs(f, T) == {x \in T : x[1] = f}
Moved(T, f) == {<<f, x[2]>> : x \in T}

(* mutant: the last argument of a call is not carried.                     *)
HasNextShort == argument + 1 < Len(Current.arguments)

HasNext == argument < Len(Current.arguments)

(* The flag of a pass, and what comes next in it.                          *)
Advance ==
  /\ changed' = (changed \/ facts' # facts)
  /\ IF HasNext
     THEN argument' = argument + 1 /\ UNCHANGED call
     ELSE argument' = 0 /\ call' = call + 1
  /\ UNCHANGED <<program, iteration, calls, phase>>

(* The effects of the callee, and its accesses to memory without a         *)
(* storage, are effects of the call and of the caller.                     *)
Merge ==
  LET f == Current.caller
      ofCallee == Pairs(Current.callee, effects)
      unknownToCallee == Pairs(Current.callee, unknown)
  IN /\ phase = "propagate" /\ call \in Calls(program) /\ argument = 0
     /\ effects' = effects \cup Moved(ofCallee, f)
     /\ unknown' = unknown \cup Moved(unknownToCallee, f)
     /\ instructions' =
          [instructions EXCEPT
             ![call].effects = @ \cup {x[2] : x \in ofCallee},
             ![call].unknown = @ \cup {x[2] : x \in unknownToCallee}]
     /\ UNCHANGED <<formals, escapes>>
     /\ Advance

(* mutant: the flags of any formal of the callee.                          *)
BoundSomewhere(flag) == \E m \in formals[flag] : m[1] = Current.callee

(* The flags of the formal that the argument is bound to.                  *)
Bound(flag) == <<Current.callee, argument>> \in formals[flag]

(* The formals of the caller that the argument is a view of or stands for. *)
Inherited(flag) ==
  IF Bound(flag) THEN FormalsOf(program, Current.caller, Actual.storage) ELSE {}

(* mutant: a parameter that escapes one call further leaves its storage.   *)
EscapedLocally == {}

Escaped ==
  {Root(program, Actual.storage) : m \in Inherited("escape")}

(* The call accesses the argument as its formal is accessed, and so does   *)
(* the caller the parameter, or the global, that the argument belongs to.  *)
Pass ==
  LET modes == {mode \in Modes : Bound(mode)}
  IN /\ phase = "propagate" /\ call \in Calls(program) /\ argument > 0
     /\ Actual.storage # NoStorage
     /\ instructions' =
          [instructions EXCEPT
             ![call].accesses =
                @ \cup {<<Actual.storage, Actual.region, mode>> : mode \in modes},
             ![call].effects = @ \cup modes]
     /\ formals' = [flag \in Flags |-> formals[flag] \cup Inherited(flag)]
     /\ effects' =
          IF IsGlobal(program, Current.caller, Actual.storage)
          THEN effects \cup {<<Current.caller, mode>> : mode \in modes}
          ELSE effects
     /\ escapes' = escapes \cup Escaped
     /\ UNCHANGED unknown
     /\ Advance

(* mutant: the loop continues without the next argument.                   *)
SkipInPlace ==
  /\ phase = "propagate" /\ call \in Calls(program) /\ argument > 0
  /\ Actual.storage = NoStorage
  /\ UNCHANGED vars

(* An omitted argument, or one without a storage, carries nothing.         *)
Skip ==
  /\ phase = "propagate" /\ call \in Calls(program) /\ argument > 0
  /\ Actual.storage = NoStorage
  /\ UNCHANGED <<facts, escapes>>
  /\ Advance

(***************************************************************************)
(* The end of a pass over the calls.                                       *)
(***************************************************************************)
(* mutant: one pass is thought to be enough.                               *)
OnePass(p) == 1

(* program.functions has an unused entry 0 that its size counts.           *)
IterationLimit(p) == (p.count + 1) * 4 + 8

Repeat == changed /\ iteration + 1 < IterationLimit(program)

EndPass ==
  /\ phase = "propagate" /\ call \notin Calls(program)
  /\ iteration' = iteration + 1
  /\ IF Repeat
     THEN call' = 1 /\ changed' = FALSE /\ UNCHANGED phase
     ELSE phase' = "instantiate" /\ UNCHANGED <<call, changed>>
  /\ UNCHANGED <<program, facts, escapes, argument, calls>>

(***************************************************************************)
(* What the table says of a call.                                          *)
(***************************************************************************)
RegionRelation(a, b) ==
  CASE a = b -> "identical"
    [] {a, b} = {"front", "back"} -> "disjoint"
    [] OTHER -> "overlaps"

(* mutant: two parameters are thought to be different memory.              *)
AliasOfDifferentRoots(p, a, b) ==
  IF Root(p, a.storage) = Root(p, b.storage)
  THEN CASE RegionRelation(a.region, b.region) = "disjoint" -> "no_alias"
         [] RegionRelation(a.region, b.region) = "identical" -> "must_alias"
         [] OTHER -> "may_alias"
  ELSE "no_alias"

AliasBetween(p, a, b) ==
  IF Root(p, a.storage) = Root(p, b.storage)
  THEN CASE RegionRelation(a.region, b.region) = "disjoint" -> "no_alias"
         [] RegionRelation(a.region, b.region) = "identical" -> "must_alias"
         [] OTHER -> "may_alias"
  ELSE IF "parameter" \in {p.kind[Root(p, a.storage)], p.kind[Root(p, b.storage)]}
       THEN "may_alias"
       ELSE "no_alias"

(* The pairs of arguments that may be the same memory.                     *)
Overlaps(p, c) ==
  {o \in [left : DOMAIN c.arguments, right : DOMAIN c.arguments,
          relation : {"may_alias", "must_alias"}, writable_conflict : BOOLEAN] :
     LET l == c.arguments[o.left]
         r == c.arguments[o.right]
     IN /\ o.left < o.right /\ NoStorage \notin {l.storage, r.storage}
        /\ o.relation = AliasBetween(p, l, r)
        /\ o.writable_conflict = (l.writable /\ r.writable)}

CallFacts(c) ==
  LET site == program.calls[c]
  IN [instruction |-> instructions[c],
      arguments |-> [a \in DOMAIN site.arguments |->
                       {flag \in Flags : <<site.callee, a>> \in formals[flag]}],
      overlaps |-> Overlaps(program, site)]

(* A storage escapes with its root; the calls are written down.            *)
Instantiate ==
  /\ phase = "instantiate"
  /\ escapes' = {s \in Storages(program) : Root(program, s) \in escapes}
  /\ calls' = [c \in Calls(program) |-> CallFacts(c)]
  /\ phase' = "done"
  /\ UNCHANGED <<program, facts, iteration, call, argument, changed>>

Done == phase = "done" /\ UNCHANGED vars

Next == Merge \/ Pass \/ Skip \/ EndPass \/ Instantiate \/ Done

Spec == Init /\ [][Next]_vars /\ WF_vars(Next)

(***************************************************************************)
(* Properties.                                                             *)
(***************************************************************************)
InstructionFacts ==
  [effects : SUBSET Effects, unknown : SUBSET Modes,
   accesses : SUBSET (Storages(program) \X Regions \X Modes)]

(* The variables have their types; the passes stay within their limit.     *)
TypeOK ==
  /\ program \in Programs
  /\ effects \subseteq Functions(program) \X Effects
  /\ unknown \subseteq Functions(program) \X Modes
  /\ formals \in [Flags -> SUBSET Entries(program)]
  /\ instructions \in [Calls(program) -> InstructionFacts]
  /\ escapes \subseteq Storages(program)
  /\ iteration \in 0 .. IterationLimit(program)
  /\ call \in 1 .. Len(program.calls) + 1
  /\ argument \in 0 .. (IF call \in Calls(program) THEN Len(Current.arguments) ELSE 0)
  /\ changed \in BOOLEAN
  /\ phase \in {"propagate", "instantiate", "done"}

Reaches(p, c, a) ==
  LET site == p.calls[c]
  IN IF site.arguments[a].storage = NoStorage
     THEN {}
     ELSE FormalsOf(p, site.caller, site.arguments[a].storage)

(* A set of formals that the chains of calls never leave: if the formal    *)
(* that an argument is bound to is in it, so is the parameter of the       *)
(* caller that the argument belongs to.                                    *)
ClosedFormals(p, R) ==
  \A c \in Calls(p) : \A a \in DOMAIN p.calls[c].arguments :
    <<p.calls[c].callee, a>> \in R => Reaches(p, c, a) \subseteq R

(* The same for the facts of whole functions.                              *)
ClosedUpward(p, R, values) ==
  \A c \in Calls(p) : \A x \in values :
    <<p.calls[c].callee, x>> \in R => <<p.calls[c].caller, x>> \in R

(* The global that an argument belongs to is accessed by the caller.       *)
GlobalsCounted(p, R, F) ==
  \A c \in Calls(p) : \A a \in DOMAIN p.calls[c].arguments : \A mode \in Modes :
    LET site == p.calls[c]
    IN /\ site.arguments[a].storage # NoStorage
       /\ IsGlobal(p, site.caller, site.arguments[a].storage)
       /\ <<site.callee, a>> \in F[mode]
       => <<site.caller, mode>> \in R

(* Nothing is left for a call to carry.                                    *)
ClosedSummaries ==
  /\ \A flag \in Flags : ClosedFormals(program, formals[flag])
  /\ ClosedUpward(program, effects, Effects)
  /\ ClosedUpward(program, unknown, Modes)
  /\ GlobalsCounted(program, effects, formals)

(* The summaries that are published are a fixed point over the call graph: *)
(* what a function may do to a parameter, to a global or to unknown memory *)
(* through any chain of calls, however long and however the calls are      *)
(* ordered in the program, its summary says.                               *)
SummariesClosed == phase = "done" => ClosedSummaries

(* They say no more: every set of formals that contains what the functions *)
(* do themselves and that the chains of calls never leave contains the     *)
(* flagged formals, at every moment of the propagation.                    *)
NothingInvented ==
  \A R \in SUBSET Entries(program) :
    ClosedFormals(program, R) =>
      \A flag \in Flags :
        LocalFormals(program, flag) \subseteq R => formals[flag] \subseteq R

(* The published facts of a call are those of its callee: its instruction  *)
(* reads and writes exactly the arguments whose formals are read and       *)
(* written and has exactly the effects of the callee and of these          *)
(* accesses.  The two tables are filled at different moments.              *)
CallsMatchCallees ==
  phase = "done" =>
    \A c \in Calls(program) :
      LET site == program.calls[c]
          facts_ == calls[c].instruction
          args == {a \in DOMAIN site.arguments : site.arguments[a].storage # NoStorage}
          bound(a) == calls[c].arguments[a] \cap Modes
      IN /\ facts_.accesses =
              UNION {{<<site.arguments[a].storage, site.arguments[a].region, mode>> :
                        mode \in bound(a)} : a \in args}
         /\ facts_.effects = {x[2] : x \in Pairs(site.callee, effects)}
                               \cup UNION {bound(a) : a \in args}
         /\ facts_.unknown = {x[2] : x \in Pairs(site.callee, unknown)}

(* A parameter is published as escaping exactly when its storage is, and   *)
(* so are the views of it: the storages are marked in passing, and marking *)
(* one does not count as a change.                                         *)
EscapesAgree ==
  phase = "done" =>
    \A s \in Storages(program) :
      program.kind[Root(program, s)] = "parameter" =>
        (s \in escapes <=> \E f \in Functions(program) :
                            FormalsOf(program, f, s) \cap formals["escape"] # {})

(* The storages that a parameter may stand for when the program runs: what *)
(* the calls bind it to, through at most n calls.                          *)
StandsFor(p) ==
  LET D[n \in 0 .. Cardinality(Entries(p)), m \in Entries(p)] ==
        IF n = 0
        THEN {}
        ELSE UNION {LET site == p.calls[c]
                        s == site.arguments[m[2]].storage
                        own == FormalsOf(p, site.caller, s)
                    IN IF own = {} THEN {Root(p, s)} ELSE UNION {D[n - 1, o] : o \in own} :
                    c \in {c \in Calls(p) :
                            /\ p.calls[c].callee = m[1]
                            /\ m[2] \in DOMAIN p.calls[c].arguments
                            /\ p.calls[c].arguments[m[2]].storage # NoStorage}}
  IN [m \in Entries(p) |-> D[Cardinality(Entries(p)), m]]

Memory(p, standsFor, f, s) ==
  LET own == FormalsOf(p, f, s)
  IN IF own = {} THEN {Root(p, s)} ELSE UNION {standsFor[m] : m \in own}

(* Two arguments of one call that can be the same memory when the program  *)
(* runs, through whatever bindings the calls on the way have made, are     *)
(* reported, and as a conflict when both may be written: this is what the  *)
(* verifier rejects a program for.                                         *)
OverlapsReported ==
  phase = "done" =>
    LET standsFor == StandsFor(program)
    IN \A c \in Calls(program) : \A l, r \in DOMAIN program.calls[c].arguments :
         LET site == program.calls[c]
             a == site.arguments[l]
             b == site.arguments[r]
         IN /\ l < r /\ NoStorage \notin {a.storage, b.storage}
            /\ Memory(program, standsFor, site.caller, a.storage)
                \cap Memory(program, standsFor, site.caller, b.storage) # {}
            /\ Root(program, a.storage) = Root(program, b.storage)
               => {a.region, b.region} # {"front", "back"}
            => \E o \in calls[c].overlaps :
                 /\ o.left = l /\ o.right = r
                 /\ o.writable_conflict = (a.writable /\ b.writable)

(* The analysis ends.                                                      *)
Terminates == <>(phase = "done")
=============================================================================
