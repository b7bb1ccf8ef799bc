-------------------------- MODULE AliasEffectProofs --------------------------
(***************************************************************************)
(* What holds of the propagation for every program: it invents nothing,    *)
(* the parameters it marks as escaping are those whose storage it marks,   *)
(* arguments that may be the same memory are reported, and when it stops   *)
(* because a pass has changed nothing, which is whenever it stops short of *)
(* its limit, its summaries are closed and the facts of every call are     *)
(* those of its callee.  At the limit the last two fail.                   *)
(***************************************************************************)
EXTENDS AliasEffect, TLAPS

(* Every parameter is one of the first p.arity formals, and FormalsOf      *)
(* returns parameters of the function it is asked about.                   *)
LEMMA FormalsOfEntries ==
  ASSUME NEW p, NEW f, NEW s
  PROVE  FormalsOf(p, f, s) \subseteq Entries(p)
  BY DEF FormalsOf

LEMMA SequenceShape ==
  ASSUME NEW S, NEW q \in Seq(S)
  PROVE  /\ Len(q) \in Nat
         /\ DOMAIN q = 1 .. Len(q)
         /\ \A i \in DOMAIN q : q[i] \in S
  OBVIOUS

LEMMA ProgramShape ==
  ASSUME NEW p \in Programs
  PROVE  /\ p.count \in Nat
         /\ Len(p.calls) \in Nat
         /\ \A c \in Calls(p) :
              /\ p.calls[c].caller \in Functions(p)
              /\ p.calls[c].callee \in Functions(p)
              /\ Len(p.calls[c].arguments) \in Nat
              /\ DOMAIN p.calls[c].arguments = 1 .. Len(p.calls[c].arguments)
              /\ \A a \in DOMAIN p.calls[c].arguments :
                   /\ p.calls[c].arguments[a].storage \in Storages(p) \cup {NoStorage}
                   /\ p.calls[c].arguments[a].region \in Regions
         /\ \A s \in Storages(p) : Root(p, s) \in Storages(p)
<1> DEFINE Site == [caller : Functions(p), callee : Functions(p),
                    arguments : Seq(Argument(p))]
<1>1. IsProgram(p)
  BY ProgramsAssumption
<1>2. p.count \in Nat /\ p.calls \in Seq(Site) /\ p.base \in [Storages(p) -> Storages(p)]
  BY <1>1 DEF IsProgram
<1> HIDE DEF Site
<1>3. Len(p.calls) \in Nat /\ \A c \in Calls(p) : p.calls[c] \in Site
  BY <1>2, SequenceShape DEF Calls
<1>4. ASSUME NEW c \in Calls(p)
      PROVE  /\ p.calls[c].caller \in Functions(p)
             /\ p.calls[c].callee \in Functions(p)
             /\ p.calls[c].arguments \in Seq(Argument(p))
  BY <1>3 DEF Site
<1>5. ASSUME NEW c \in Calls(p)
      PROVE  /\ Len(p.calls[c].arguments) \in Nat
             /\ DOMAIN p.calls[c].arguments = 1 .. Len(p.calls[c].arguments)
             /\ \A a \in DOMAIN p.calls[c].arguments :
                  p.calls[c].arguments[a] \in Argument(p)
  BY <1>4, SequenceShape
<1>6. ASSUME NEW c \in Calls(p), NEW a \in DOMAIN p.calls[c].arguments
      PROVE  /\ p.calls[c].arguments[a].storage \in Storages(p) \cup {NoStorage}
             /\ p.calls[c].arguments[a].region \in Regions
  BY <1>5 DEF Argument
<1>7. \A s \in Storages(p) : Root(p, s) \in Storages(p)
  BY <1>2 DEF Root
<1> QED BY <1>2, <1>3, <1>4, <1>5, <1>6, <1>7

(***************************************************************************)
(* Types.                                                                  *)
(***************************************************************************)
Bounded == phase = "propagate" => iteration < IterationLimit(program)

TInv == TypeOK /\ Bounded

LEMMA LocalTypes ==
  ASSUME NEW p \in Programs
  PROVE  /\ LocalEffects(p) \subseteq Functions(p) \X Effects
         /\ LocalUnknown(p) \subseteq Functions(p) \X Modes
         /\ \A flag \in Flags : LocalFormals(p, flag) \subseteq Entries(p)
         /\ LocalEscapes(p) \subseteq Storages(p)
<1>1. IsProgram(p)
  BY ProgramsAssumption
<1>2. LocalEscapes(p) \subseteq Storages(p)
  <2> SUFFICES ASSUME NEW i \in p.body, NEW a \in i.accesses
               PROVE  Root(p, a[1]) \in Storages(p)
    BY DEF LocalEscapes
  <2>1. i.accesses \subseteq Storages(p) \X Modes
    BY <1>1 DEF IsProgram
  <2>2. a[1] \in Storages(p)
    BY <2>1
  <2> QED BY <2>2, ProgramShape
<1> QED BY <1>2 DEF LocalEffects, LocalUnknown, LocalFormals

LEMMA InitTyped == Init => TInv
<1> SUFFICES ASSUME Init PROVE TInv
  OBVIOUS
<1>1. program \in Programs
  BY DEF Init
<1>2. formals \in [Flags -> SUBSET Entries(program)]
  BY <1>1, LocalTypes DEF Init
<1>3. NoFacts \in InstructionFacts
  BY DEF NoFacts, InstructionFacts
<1>4. instructions \in [Calls(program) -> InstructionFacts]
  BY <1>3 DEF Init
<1>5. call \in 1 .. Len(program.calls) + 1
  BY <1>1, ProgramShape DEF Init
<1>6. argument \in 0 .. (IF call \in Calls(program) THEN Len(Current.arguments) ELSE 0)
  BY <1>1, ProgramShape DEF Init, Current
<1>7. IterationLimit(program) \in Nat /\ IterationLimit(program) > 0
  BY <1>1, ProgramShape DEF IterationLimit
<1>8. /\ effects \subseteq Functions(program) \X Effects
      /\ unknown \subseteq Functions(program) \X Modes
      /\ escapes \subseteq Storages(program)
  BY <1>1, LocalTypes DEF Init
<1>9. /\ iteration \in 0 .. IterationLimit(program)
      /\ phase \in {"propagate", "instantiate", "done"}
  BY <1>7 DEF Init
<1>10. changed \in BOOLEAN
  BY Zenon DEF Init
<1>11. TypeOK
  BY <1>1, <1>2, <1>4, <1>5, <1>6, <1>8, <1>9, <1>10 DEF TypeOK
<1> QED BY <1>7, <1>11 DEF Init, TInv, Bounded

(* Where the next argument, or the next call, is.                          *)
LEMMA AdvanceTyped ==
  ASSUME TypeOK, call \in Calls(program), Advance
  PROVE  /\ call' \in 1 .. Len(program.calls) + 1
         /\ argument' \in 0 .. (IF call' \in Calls(program)
                                THEN Len(program.calls[call'].arguments) ELSE 0)
         /\ changed' \in BOOLEAN
<1>1. /\ Len(program.calls) \in Nat
      /\ call \in Nat /\ call >= 1 /\ call <= Len(program.calls)
      /\ \A c \in Calls(program) : Len(program.calls[c].arguments) \in Nat
      /\ argument \in 0 .. Len(program.calls[call].arguments)
  BY SMTT(30), ProgramShape DEF TypeOK, Calls, Current
<1>2. CASE HasNext
  <2>1. /\ argument' = argument + 1 /\ call' = call
        /\ argument < Len(program.calls[call].arguments)
    BY <1>2 DEF Advance, HasNext, Current
  <2>2. argument' \in 0 .. Len(program.calls[call].arguments)
    BY <1>1, <2>1
  <2> QED BY <1>1, <2>1, <2>2 DEF Advance, Calls
<1>3. CASE ~HasNext
  <2>1. argument' = 0 /\ call' = call + 1
    BY <1>3 DEF Advance
  <2>2. call' \in 1 .. Len(program.calls) + 1
    BY <1>1, <2>1
  <2>3. 0 \in 0 .. (IF call' \in Calls(program)
                    THEN Len(program.calls[call'].arguments) ELSE 0)
    BY <1>1
  <2> QED BY <2>1, <2>2, <2>3 DEF Advance
<1> QED BY <1>2, <1>3

LEMMA NextTyped == TInv /\ [Next]_vars => TInv'
<1> SUFFICES ASSUME TInv, [Next]_vars PROVE TInv'
  OBVIOUS
<1> USE DEF TInv
<1>0. /\ program \in Programs
      /\ IterationLimit(program) \in Nat /\ IterationLimit(program) > 0
  BY ProgramShape DEF TypeOK, IterationLimit
<1>1. ASSUME call \in Calls(program), phase = "propagate", Advance,
             effects' \subseteq Functions(program) \X Effects,
             unknown' \subseteq Functions(program) \X Modes,
             formals' \in [Flags -> SUBSET Entries(program)],
             instructions' \in [Calls(program) -> InstructionFacts],
             escapes' \subseteq Storages(program)
      PROVE  TInv'
  <2>1. /\ program' = program /\ iteration' = iteration
        /\ phase' = phase
    BY <1>1 DEF Advance
  <2>2. InstructionFacts' = InstructionFacts
    BY <2>1 DEF InstructionFacts
  <2>3. Current' = program.calls[call']
    BY <2>1 DEF Current
  <2>4. /\ call' \in 1 .. Len(program'.calls) + 1
        /\ argument' \in 0 .. (IF call' \in Calls(program')
                               THEN Len(Current'.arguments) ELSE 0)
        /\ changed' \in BOOLEAN
    BY <1>1, <2>1, <2>3, AdvanceTyped
  <2>5. Bounded'
    BY <2>1 DEF Bounded
  <2>6. /\ program' \in Programs
        /\ iteration' \in 0 .. IterationLimit(program')
        /\ phase' \in {"propagate", "instantiate", "done"}
    BY <2>1 DEF TypeOK
  <2>7. /\ effects' \subseteq Functions(program') \X Effects
        /\ unknown' \subseteq Functions(program') \X Modes
        /\ formals' \in [Flags -> SUBSET Entries(program')]
        /\ instructions' \in [Calls(program') -> InstructionFacts']
        /\ escapes' \subseteq Storages(program')
    BY <1>1, <2>1, <2>2
  <2> QED BY <2>4, <2>5, <2>6, <2>7 DEF TypeOK
<1>2. CASE Merge
  <2> DEFINE f == Current.caller
             fresh == Pairs(Current.callee, effects)
             hidden == Pairs(Current.callee, unknown)
  <2>1. call \in Calls(program) /\ phase = "propagate" /\ Advance
    BY <1>2 DEF Merge
  <2>2. f \in Functions(program)
    BY <1>0, <2>1, ProgramShape DEF Current
  <2>3. fresh \subseteq Functions(program) \X Effects
    BY DEF TypeOK, Pairs
  <2>4. hidden \subseteq Functions(program) \X Modes
    BY DEF TypeOK, Pairs
  <2>5. /\ effects' = effects \cup Moved(fresh, f)
        /\ unknown' = unknown \cup Moved(hidden, f)
        /\ instructions' =
             [instructions EXCEPT
                ![call].effects = @ \cup {x[2] : x \in fresh},
                ![call].unknown = @ \cup {x[2] : x \in hidden}]
        /\ UNCHANGED <<formals, escapes>>
    BY <1>2 DEF Merge
  <2> HIDE DEF f, fresh, hidden
  <2>6. effects' \subseteq Functions(program) \X Effects
    BY <2>2, <2>3, <2>5 DEF TypeOK, Moved
  <2>7. unknown' \subseteq Functions(program) \X Modes
    BY <2>2, <2>4, <2>5 DEF TypeOK, Moved
  <2>8. {x[2] : x \in fresh} \subseteq Effects /\ {x[2] : x \in hidden} \subseteq Modes
    BY <2>3, <2>4
  <2>9. instructions' \in [Calls(program) -> InstructionFacts]
    BY <2>1, <2>5, <2>8 DEF TypeOK, InstructionFacts
  <2> QED BY <1>1, <2>1, <2>5, <2>6, <2>7, <2>9 DEF TypeOK
<1>3. CASE Pass
  <2> DEFINE modes == {mode \in Modes : Bound(mode)}
             f == Current.caller
             s == Actual.storage
             r == Actual.region
             given == {<<s, r, mode>> : mode \in modes}
  <2>1. /\ call \in Calls(program) /\ phase = "propagate" /\ Advance
        /\ argument > 0 /\ s # NoStorage
    BY <1>3 DEF Pass
  <2>2. argument \in DOMAIN program.calls[call].arguments
    BY <1>0, <2>1, ProgramShape DEF TypeOK, Current
  <2>3. f \in Functions(program) /\ s \in Storages(program) /\ r \in Regions
    BY <1>0, <2>1, <2>2, ProgramShape DEF Current, Actual
  <2>4. /\ instructions' =
             [instructions EXCEPT
                ![call].accesses = @ \cup given, ![call].effects = @ \cup modes]
        /\ formals' = [flag \in Flags |-> formals[flag] \cup Inherited(flag)]
        /\ effects' = IF IsGlobal(program, f, s)
                      THEN effects \cup {<<f, mode>> : mode \in modes}
                      ELSE effects
        /\ escapes' = escapes \cup Escaped
        /\ UNCHANGED unknown
    BY <1>3 DEF Pass
  <2>5. \A flag \in Flags : Inherited(flag) \subseteq Entries(program)
    BY FormalsOfEntries DEF Inherited
  <2>6. formals' \in [Flags -> SUBSET Entries(program)]
    BY <2>4, <2>5 DEF TypeOK
  <2>7. Escaped \subseteq Storages(program)
    BY <1>0, <2>3, ProgramShape DEF Escaped
  <2>8. modes \subseteq Modes /\ modes \subseteq Effects
    BY DEF Effects
  <2> HIDE DEF modes, f, s, r
  <2>9. effects' \subseteq Functions(program) \X Effects
    BY <2>3, <2>4, <2>8 DEF TypeOK
  <2>10. given \subseteq Storages(program) \X Regions \X Modes
    BY <2>3, <2>8
  <2> HIDE DEF given
  <2>11. instructions' \in [Calls(program) -> InstructionFacts]
    BY <2>1, <2>4, <2>8, <2>10 DEF TypeOK, InstructionFacts
  <2> QED BY <1>1, <2>1, <2>4, <2>6, <2>7, <2>9, <2>11 DEF TypeOK
<1>4. CASE Skip
  BY <1>1, <1>4 DEF Skip, facts, TypeOK
<1>5. CASE EndPass
  <2>1. /\ UNCHANGED <<program, facts, escapes, argument>>
        /\ iteration' = iteration + 1
        /\ phase = "propagate" /\ call \notin Calls(program)
    BY <1>5 DEF EndPass
  <2>2. iteration \in Nat /\ iteration + 1 <= IterationLimit(program)
    BY <1>0, <2>1 DEF Bounded, TypeOK
  <2>3. /\ argument = 0
        /\ Len(program.calls) \in Nat
        /\ \A c \in Calls(program) : Len(program.calls[c].arguments) \in Nat
    BY <1>0, <2>1, ProgramShape DEF TypeOK
  <2>4. CASE Repeat
    <3>1. /\ call' = 1 /\ changed' = FALSE /\ phase' = phase
          /\ iteration' < IterationLimit(program)
      BY <1>5, <2>1, <2>4 DEF EndPass, Repeat
    <3>2. argument' \in 0 .. (IF call' \in Calls(program')
                             THEN Len(Current'.arguments) ELSE 0)
      BY <2>1, <2>3, <3>1 DEF Current
    <3>3. changed' \in BOOLEAN
      BY <3>1, Zenon
    <3>4. /\ iteration' \in 0 .. IterationLimit(program')
          /\ call' \in 1 .. Len(program'.calls) + 1
          /\ phase' \in {"propagate", "instantiate", "done"}
      BY <1>0, <2>1, <2>2, <2>3, <3>1
    <3> QED BY <1>0, <2>1, <3>1, <3>2, <3>3, <3>4
            DEF TypeOK, Bounded, facts, InstructionFacts
  <2>5. CASE ~Repeat
    <3>1. phase' = "instantiate" /\ call' = call /\ changed' = changed
      BY <1>5, <2>5 DEF EndPass
    <3> QED BY <1>0, <2>1, <2>2, <2>3, <3>1
            DEF TypeOK, Bounded, facts, InstructionFacts, Current
  <2> QED BY <2>4, <2>5
<1>6. CASE Instantiate
  BY <1>6 DEF Instantiate, TypeOK, Bounded, facts, InstructionFacts, Current
<1>7. CASE UNCHANGED vars
  BY <1>7 DEF vars, TypeOK, Bounded, facts, InstructionFacts, Current
<1>8. CASE Done
  BY <1>7, <1>8 DEF Done
<1> QED BY <1>2, <1>3, <1>4, <1>5, <1>6, <1>7, <1>8 DEF Next

(* The summaries only ever speak of functions, parameters and storages of  *)
(* the program, and the passes keep to their limit.                        *)
THEOREM TypeCorrect == Spec => []TypeOK
<1>1. TInv => TypeOK
  BY DEF TInv
<1> QED BY <1>1, InitTyped, NextTyped, PTL DEF Spec

(***************************************************************************)
(* Nothing is invented.                                                    *)
(***************************************************************************)
LEMMA InventInit == Init => NothingInvented
  BY DEF Init, NothingInvented

LEMMA InventNext == TypeOK /\ NothingInvented /\ [Next]_vars => NothingInvented'
<1> SUFFICES ASSUME TypeOK, NothingInvented, [Next]_vars
             PROVE  NothingInvented'
  OBVIOUS
<1>1. program' = program /\ program \in Programs
  BY DEF TypeOK, Next, Merge, Pass, Skip, EndPass, Instantiate, Done, Advance, vars
<1>2. CASE formals' = formals
  BY <1>1, <1>2 DEF NothingInvented
<1>3. CASE Pass
  <2> SUFFICES ASSUME NEW R \in SUBSET Entries(program), ClosedFormals(program, R),
                      NEW flag \in Flags, LocalFormals(program, flag) \subseteq R
               PROVE  formals'[flag] \subseteq R
    BY <1>1 DEF NothingInvented
  <2>1. formals[flag] \subseteq R
    BY DEF NothingInvented
  <2>2. formals'[flag] = formals[flag] \cup Inherited(flag)
    BY <1>3 DEF Pass
  <2>3. CASE Bound(flag)
    <3>1. <<Current.callee, argument>> \in R
      BY <2>1, <2>3 DEF Bound
    <3>2. call \in Calls(program) /\ argument > 0 /\ Actual.storage # NoStorage
      BY <1>3 DEF Pass
    <3>3. argument \in DOMAIN program.calls[call].arguments
      BY <1>1, <3>2, ProgramShape DEF TypeOK, Current
    <3>4. Reaches(program, call, argument) \subseteq R
      BY <3>1, <3>2, <3>3 DEF ClosedFormals, Current
    <3>5. Inherited(flag) = Reaches(program, call, argument)
      BY <2>3, <3>2 DEF Inherited, Reaches, Current, Actual
    <3> QED BY <2>1, <2>2, <3>4, <3>5
  <2>4. CASE ~Bound(flag)
    BY <2>1, <2>2, <2>4 DEF Inherited
  <2> QED BY <2>3, <2>4
<1> QED BY <1>2, <1>3 DEF Next, Merge, Skip, EndPass, Instantiate, Done, vars, facts

(* Whatever the program, at every moment of the propagation a parameter is *)
(* flagged only if every set closed under the chains of calls that holds   *)
(* the local facts contains it: the flags never exceed the least fixed     *)
(* point.                                                                  *)
THEOREM NoFactInvented == Spec => []NothingInvented
  BY TypeCorrect, InventInit, InventNext, PTL DEF Spec

(***************************************************************************)
(* Nothing is left out by a pass that changes nothing.                     *)
(***************************************************************************)
Visited(c, a) ==
  \/ phase # "propagate"
  \/ c < call
  \/ c = call /\ a < argument

CommonCarried(c) ==
  /\ \A x \in Effects : <<program.calls[c].callee, x>> \in effects
                        => <<program.calls[c].caller, x>> \in effects
  /\ \A x \in Modes : <<program.calls[c].callee, x>> \in unknown
                      => <<program.calls[c].caller, x>> \in unknown

ArgumentCarried(c, a) ==
  LET site == program.calls[c]
  IN /\ \A flag \in Flags :
          <<site.callee, a>> \in formals[flag]
          => Reaches(program, c, a) \subseteq formals[flag]
     /\ \A mode \in Modes :
          /\ site.arguments[a].storage # NoStorage
          /\ IsGlobal(program, site.caller, site.arguments[a].storage)
          /\ <<site.callee, a>> \in formals[mode]
          => <<site.caller, mode>> \in effects

(* The calls that a pass has been through without a change have nothing    *)
(* left to carry.                                                          *)
Carried ==
  ~changed =>
    \A c \in Calls(program) :
      /\ Visited(c, 0) => CommonCarried(c)
      /\ \A a \in DOMAIN program.calls[c].arguments :
           Visited(c, a) => ArgumentCarried(c, a)

LEMMA CarriedInit == Init => Carried
<1> SUFFICES ASSUME Init PROVE Carried
  OBVIOUS
<1>1. program \in Programs
  BY DEF Init
<1>2. ASSUME NEW c \in Calls(program)
      PROVE  /\ ~Visited(c, 0)
             /\ \A a \in DOMAIN program.calls[c].arguments : ~Visited(c, a)
  <2>1. c \in Nat /\ c >= 1 /\ call = 1 /\ argument = 0 /\ phase = "propagate"
    BY <1>1, ProgramShape DEF Init, Calls
  <2>2. \A a \in DOMAIN program.calls[c].arguments : a \in Nat
    BY <1>1, ProgramShape
  <2> QED BY <2>1, <2>2 DEF Visited
<1> QED BY <1>2 DEF Carried

(* A position that the step leaves behind is either an older one, whose    *)
(* facts have not changed, or the one just carried.                        *)
LEMMA StepVisits ==
  ASSUME TypeOK, call \in Calls(program), phase = "propagate", Advance
  PROVE  /\ \A c \in Calls(program) : Visited(c, 0)' =>
               Visited(c, 0) \/ (c = call /\ argument = 0)
         /\ \A c \in Calls(program) : \A a \in DOMAIN program.calls[c].arguments :
               Visited(c, a)' => Visited(c, a) \/ (c = call /\ a = argument)
<1>1. /\ Len(program.calls) \in Nat /\ call \in Nat
      /\ argument \in 0 .. Len(program.calls[call].arguments)
      /\ \A c \in Calls(program) :
           /\ c \in Nat
           /\ Len(program.calls[c].arguments) \in Nat
           /\ DOMAIN program.calls[c].arguments = 1 .. Len(program.calls[c].arguments)
  BY ProgramShape DEF TypeOK, Calls, Current
<1>2. phase' = phase
  BY DEF Advance
<1>3. CASE HasNext
  <2>1. argument' = argument + 1 /\ call' = call
    BY <1>3 DEF Advance
  <2> QED BY SMTT(30), <1>1, <1>2, <2>1 DEF Visited
<1>4. CASE ~HasNext
  <2>1. argument' = 0 /\ call' = call + 1
    BY <1>4 DEF Advance
  <2>2. argument >= Len(program.calls[call].arguments)
    BY <1>1, <1>4 DEF HasNext, Current
  <2> QED BY <1>1, <1>2, <2>1, <2>2 DEF Visited
<1> QED BY <1>3, <1>4

LEMMA CarriedNext == TypeOK /\ Carried /\ [Next]_vars => Carried'
<1> SUFFICES ASSUME TypeOK, Carried, [Next]_vars, ~changed'
             PROVE  Carried'
  BY DEF Carried
<1>1. program' = program /\ program \in Programs
  BY DEF TypeOK, Next, Merge, Pass, Skip, EndPass, Instantiate, Done, Advance, vars
<1>2. ASSUME call \in Calls(program), phase = "propagate", Advance,
             \A c \in Calls(program) :
               c = call /\ argument = 0 => CommonCarried(c)',
             \A c \in Calls(program) : \A a \in DOMAIN program.calls[c].arguments :
               c = call /\ a = argument => ArgumentCarried(c, a)'
      PROVE  Carried'
  <2>1. ~changed /\ facts' = facts
    BY <1>2 DEF Advance
  <2>2. /\ effects' = effects /\ unknown' = unknown /\ formals' = formals
    BY <2>1 DEF facts
  <2>3. \A c \in Calls(program) : CommonCarried(c)' <=> CommonCarried(c)
    BY <1>1, <2>2 DEF CommonCarried
  <2>4. \A c \in Calls(program) : \A a \in DOMAIN program.calls[c].arguments :
          ArgumentCarried(c, a)' <=> ArgumentCarried(c, a)
    BY <1>1, <2>2 DEF ArgumentCarried
  <2>5. ASSUME NEW c \in Calls(program), Visited(c, 0)'
        PROVE  CommonCarried(c)'
    <3>1. Visited(c, 0) \/ (c = call /\ argument = 0)
      BY <1>2, <2>5, StepVisits
    <3> QED BY <1>2, <2>1, <2>3, <3>1 DEF Carried
  <2>6. ASSUME NEW c \in Calls(program), NEW a \in DOMAIN program.calls[c].arguments,
               Visited(c, a)'
        PROVE  ArgumentCarried(c, a)'
    <3>1. Visited(c, a) \/ (c = call /\ a = argument)
      BY <1>2, <2>6, StepVisits
    <3> QED BY <1>2, <2>1, <2>4, <3>1 DEF Carried
  <2> QED BY <1>1, <2>5, <2>6 DEF Carried
<1>3. CASE Merge
  <2>1. call \in Calls(program) /\ phase = "propagate" /\ argument = 0 /\ Advance
    BY <1>3 DEF Merge
  <2>2. facts' = facts
    BY <2>1 DEF Advance
  <2>3. /\ effects = effects \cup Moved(Pairs(Current.callee, effects), Current.caller)
        /\ unknown = unknown \cup Moved(Pairs(Current.callee, unknown), Current.caller)
        /\ effects' = effects /\ unknown' = unknown
    BY <1>3, <2>2 DEF Merge, facts
  <2>4. \A c \in Calls(program) : c = call => CommonCarried(c)'
    <3>1. ASSUME NEW x, <<Current.callee, x>> \in effects
          PROVE  <<Current.caller, x>> \in effects
      <4>1. <<Current.callee, x>> \in Pairs(Current.callee, effects)
        BY <3>1 DEF Pairs
      <4> QED BY <2>3, <4>1 DEF Moved
    <3>2. ASSUME NEW x, <<Current.callee, x>> \in unknown
          PROVE  <<Current.caller, x>> \in unknown
      <4>1. <<Current.callee, x>> \in Pairs(Current.callee, unknown)
        BY <3>2 DEF Pairs
      <4> QED BY <2>3, <4>1 DEF Moved
    <3> QED BY <1>1, <2>3, <3>1, <3>2 DEF CommonCarried, Current
  <2>5. 0 \notin DOMAIN program.calls[call].arguments
    BY <1>1, <2>1, ProgramShape
  <2> QED BY <1>2, <2>1, <2>4, <2>5
<1>4. CASE Pass
  <2>1. /\ call \in Calls(program) /\ phase = "propagate" /\ argument > 0
        /\ Actual.storage # NoStorage /\ Advance
    BY <1>4 DEF Pass
  <2>2. facts' = facts
    BY <2>1 DEF Advance
  <2>3. /\ formals = [flag \in Flags |-> formals[flag] \cup Inherited(flag)]
        /\ effects = IF IsGlobal(program, Current.caller, Actual.storage)
                    THEN effects \cup {<<Current.caller, mode>> :
                                        mode \in {mode \in Modes : Bound(mode)}}
                    ELSE effects
        /\ effects' = effects /\ formals' = formals
    BY <1>4, <2>2 DEF Pass, facts
  <2>4. ASSUME NEW flag \in Flags, Bound(flag)
        PROVE  Reaches(program, call, argument) \subseteq formals[flag]
    <3>1. Inherited(flag) \subseteq formals[flag]
      BY <2>3
    <3> QED BY <2>1, <2>4, <3>1 DEF Inherited, Reaches, Current, Actual
  <2>5. ASSUME NEW mode \in Modes, Bound(mode),
               IsGlobal(program, Current.caller, Actual.storage)
        PROVE  <<Current.caller, mode>> \in effects
    BY <2>3, <2>5
  <2>6. \A c \in Calls(program) : \A a \in DOMAIN program.calls[c].arguments :
          c = call /\ a = argument => ArgumentCarried(c, a)'
    BY <1>1, <2>3, <2>4, <2>5 DEF ArgumentCarried, Bound, Current, Actual
  <2>7. argument # 0
    BY <2>1
  <2> QED BY <1>2, <2>1, <2>6, <2>7
<1>5. CASE Skip
  <2>1. /\ call \in Calls(program) /\ phase = "propagate" /\ argument > 0
        /\ Actual.storage = NoStorage /\ Advance
        /\ effects' = effects /\ formals' = formals
    BY <1>5 DEF Skip, facts
  <2>2. \A c \in Calls(program) : \A a \in DOMAIN program.calls[c].arguments :
          c = call /\ a = argument => ArgumentCarried(c, a)'
    BY <1>1, <2>1 DEF ArgumentCarried, Reaches, Current, Actual
  <2>3. argument # 0
    BY <2>1
  <2> QED BY <1>2, <2>1, <2>2, <2>3
<1>6. CASE EndPass
  <2>1. /\ phase = "propagate" /\ call \notin Calls(program)
        /\ effects' = effects /\ unknown' = unknown /\ formals' = formals
        /\ argument' = argument
    BY <1>6 DEF EndPass, facts
  <2>2. Len(program.calls) \in Nat /\ call = Len(program.calls) + 1 /\ argument = 0
    BY <1>1, <2>1, ProgramShape DEF TypeOK, Calls
  <2>3. CASE Repeat
    <3>1. call' = 1 /\ phase' = phase
      BY <1>6, <2>3 DEF EndPass
    <3>2. ASSUME NEW c \in Calls(program)
          PROVE  /\ ~Visited(c, 0)'
                 /\ \A a \in DOMAIN program.calls[c].arguments : ~Visited(c, a)'
      BY <1>1, <2>1, <2>2, <3>1, <3>2, ProgramShape DEF Visited, Calls
    <3> QED BY <1>1, <3>2 DEF Carried
  <2>4. CASE ~Repeat
    <3>1. changed' = changed
      BY <1>6, <2>4 DEF EndPass
    <3>2. \A c \in Calls(program) :
            /\ Visited(c, 0)
            /\ \A a \in DOMAIN program.calls[c].arguments : Visited(c, a)
      BY <2>2 DEF Visited, Calls
    <3> QED BY <1>1, <2>1, <3>1, <3>2 DEF Carried, CommonCarried, ArgumentCarried
  <2> QED BY <2>3, <2>4
<1>7. CASE Instantiate
  BY <1>1, <1>7 DEF Instantiate, facts, Carried, Visited, CommonCarried, ArgumentCarried
<1>8. CASE UNCHANGED vars
  BY <1>8 DEF vars, facts, Carried, Visited, CommonCarried, ArgumentCarried
<1>9. CASE Done
  BY <1>8, <1>9 DEF Done
<1> QED BY <1>3, <1>4, <1>5, <1>6, <1>7, <1>8, <1>9 DEF Next

SettledIsClosed == phase = "done" /\ ~changed => ClosedSummaries

(* When the propagation has ended with a pass that changed nothing, its    *)
(* summaries are closed under every call of the program, recursive calls   *)
(* and calls in an unfavourable order included.                            *)
THEOREM FixedPointWhenSettled == Spec => []SettledIsClosed
<1>1. Carried => SettledIsClosed
  <2> SUFFICES ASSUME Carried, phase = "done", ~changed PROVE ClosedSummaries
    BY DEF SettledIsClosed
  <2>1. \A c \in Calls(program) :
          /\ CommonCarried(c)
          /\ \A a \in DOMAIN program.calls[c].arguments : ArgumentCarried(c, a)
    BY DEF Carried, Visited
  <2>2. \A flag \in Flags : ClosedFormals(program, formals[flag])
    BY <2>1 DEF ClosedFormals, ArgumentCarried
  <2>3. ClosedUpward(program, effects, Effects) /\ ClosedUpward(program, unknown, Modes)
    BY <2>1 DEF ClosedUpward, CommonCarried
  <2>4. GlobalsCounted(program, effects, formals)
    BY <2>1 DEF GlobalsCounted, ArgumentCarried
  <2> QED BY <2>2, <2>3, <2>4 DEF ClosedSummaries
<1> QED BY <1>1, CarriedInit, CarriedNext, TypeCorrect, PTL DEF Spec

(***************************************************************************)
(* The limit.  The propagation is cut off when its passes reach it; short  *)
(* of it, it has ended because a pass changed nothing.                     *)
(***************************************************************************)
CutOff == phase # "propagate" => ~changed \/ iteration = IterationLimit(program)

LEMMA CutOffInit == Init => CutOff
  BY DEF Init, CutOff

LEMMA CutOffNext == TInv /\ CutOff /\ [Next]_vars => CutOff'
<1> SUFFICES ASSUME TInv, CutOff, [Next]_vars PROVE CutOff'
  OBVIOUS
<1>1. program' = program /\ program \in Programs
  BY DEF TInv, TypeOK, Next, Merge, Pass, Skip, EndPass, Instantiate, Done, Advance, vars
<1>2. CASE Merge \/ Pass \/ Skip
  BY <1>2 DEF CutOff, Merge, Pass, Skip, Advance
<1>3. CASE EndPass
  <2>1. CASE Repeat
    BY <1>3, <2>1 DEF EndPass, CutOff
  <2>2. CASE ~Repeat
    <3>1. /\ iteration \in Nat /\ IterationLimit(program) \in Nat
          /\ iteration < IterationLimit(program) /\ iteration' = iteration + 1
          /\ changed' = changed
      BY <1>1, <1>3, <2>2, ProgramShape DEF EndPass, TInv, TypeOK, Bounded, IterationLimit
    <3>2. ~changed \/ ~(iteration + 1 < IterationLimit(program))
      BY <2>2 DEF Repeat
    <3> QED BY <1>1, <3>1, <3>2 DEF CutOff
  <2> QED BY <2>1, <2>2
<1>4. CASE Instantiate
  BY <1>1, <1>4 DEF Instantiate, CutOff
<1>5. CASE Done \/ UNCHANGED vars
  BY <1>1, <1>5 DEF Done, vars, CutOff
<1> QED BY <1>2, <1>3, <1>4, <1>5 DEF Next

(* The passes ended before the code would have cut them off.               *)
WithinLimit == iteration < IterationLimit(program)

LEMMA SettledWithinLimit == TInv /\ CutOff /\ WithinLimit /\ phase # "propagate" => ~changed
  BY ProgramShape DEF CutOff, WithinLimit, TInv, TypeOK, IterationLimit

(* Short of the limit the published summaries are closed.                  *)
THEOREM ClosedWithinLimit == Spec => [](WithinLimit => SummariesClosed)
<1>1. TInv /\ CutOff /\ SettledIsClosed => (WithinLimit => SummariesClosed)
  BY SettledWithinLimit DEF SettledIsClosed, SummariesClosed
<1>2. Spec => []TInv
  BY InitTyped, NextTyped, PTL DEF Spec
<1>3. Spec => []CutOff
  BY <1>2, CutOffInit, CutOffNext, PTL DEF Spec
<1> QED BY <1>1, <1>2, <1>3, FixedPointWhenSettled, PTL

(***************************************************************************)
(* What the table says of the calls.                                       *)
(***************************************************************************)
Site(c) == program.calls[c]

Given(c, a, mode) ==
  Site(c).arguments[a].storage # NoStorage /\ <<Site(c).callee, a>> \in formals[mode]

AccessOf(c, a, mode) == <<Site(c).arguments[a].storage, Site(c).arguments[a].region, mode>>

Arguments(c) == DOMAIN Site(c).arguments

(* An instruction has gathered nothing that its callee does not do.        *)
NothingElse(c) ==
  /\ \A t \in instructions[c].accesses :
       \E a \in Arguments(c) : \E mode \in Modes : Given(c, a, mode) /\ t = AccessOf(c, a, mode)
  /\ \A e \in instructions[c].effects :
       \/ <<Site(c).callee, e>> \in effects
       \/ e \in Modes /\ \E a \in Arguments(c) : Given(c, a, e)
  /\ \A u \in instructions[c].unknown : <<Site(c).callee, u>> \in unknown

Gathered == \A c \in Calls(program) : NothingElse(c)

LEMMA GatheredInit == Init => Gathered
  BY DEF Init, Gathered, NothingElse, NoFacts

LEMMA GatheredNext == TypeOK /\ Gathered /\ [Next]_vars => Gathered'
<1> SUFFICES ASSUME TypeOK, Gathered, [Next]_vars PROVE Gathered'
  OBVIOUS
<1>1. program' = program /\ program \in Programs
  BY DEF TypeOK, Next, Merge, Pass, Skip, EndPass, Instantiate, Done, Advance, vars
<1>2. CASE UNCHANGED facts
  <2>1. /\ effects' = effects /\ unknown' = unknown /\ formals' = formals
        /\ instructions' = instructions
    BY <1>2 DEF facts
  <2>2. ASSUME NEW c \in Calls(program) PROVE NothingElse(c)'
    <3>1. NothingElse(c)
      BY DEF Gathered
    <3>2. \A a, mode : /\ Given(c, a, mode)' <=> Given(c, a, mode)
                      /\ AccessOf(c, a, mode)' = AccessOf(c, a, mode)
      BY <1>1, <2>1 DEF Given, AccessOf, Site
    <3>3. Arguments(c)' = Arguments(c) /\ Site(c)' = Site(c)
      BY <1>1 DEF Arguments, Site
    <3> QED BY <2>1, <3>1, <3>2, <3>3 DEF NothingElse
  <2> QED BY <1>1, <2>2 DEF Gathered
<1>3. CASE Merge
  <2>1. /\ effects \subseteq effects' /\ unknown \subseteq unknown' /\ formals' = formals
        /\ call \in Calls(program)
        /\ instructions' =
             [instructions EXCEPT
                ![call].effects = @ \cup {x[2] : x \in Pairs(Current.callee, effects)},
                ![call].unknown = @ \cup {x[2] : x \in Pairs(Current.callee, unknown)}]
    BY <1>3 DEF Merge
  <2>2. instructions \in [Calls(program) -> InstructionFacts]
    BY DEF TypeOK
  <2>3. ASSUME NEW c \in Calls(program), NEW e \in instructions'[c].effects
        PROVE  \/ <<Site(c).callee, e>> \in effects'
               \/ e \in Modes /\ \E a \in Arguments(c) : Given(c, a, e)
    <3>1. \/ e \in instructions[c].effects
          \/ c = call /\ e \in {x[2] : x \in Pairs(Current.callee, effects)}
      BY <2>1, <2>2, <2>3 DEF InstructionFacts
    <3>2. CASE e \in instructions[c].effects
      BY <2>1, <3>2 DEF Gathered, NothingElse
    <3>3. CASE c = call /\ e \in {x[2] : x \in Pairs(Current.callee, effects)}
      <4>1. PICK x \in Pairs(Current.callee, effects) : e = x[2]
        BY <3>3
      <4>2. x \in effects /\ x[1] = Site(c).callee /\ x = <<x[1], x[2]>>
        BY <3>3, <4>1 DEF Pairs, Current, Site, TypeOK
      <4> QED BY <2>1, <4>1, <4>2
    <3> QED BY <3>1, <3>2, <3>3
  <2>4. ASSUME NEW c \in Calls(program), NEW u \in instructions'[c].unknown
        PROVE  <<Site(c).callee, u>> \in unknown'
    <3>1. \/ u \in instructions[c].unknown
          \/ c = call /\ u \in {x[2] : x \in Pairs(Current.callee, unknown)}
      BY <2>1, <2>2, <2>4 DEF InstructionFacts
    <3>2. CASE u \in instructions[c].unknown
      BY <2>1, <3>2 DEF Gathered, NothingElse
    <3>3. CASE c = call /\ u \in {x[2] : x \in Pairs(Current.callee, unknown)}
      <4>1. PICK x \in Pairs(Current.callee, unknown) : u = x[2]
        BY <3>3
      <4>2. x \in unknown /\ x[1] = Site(c).callee /\ x = <<x[1], x[2]>>
        BY <3>3, <4>1 DEF Pairs, Current, Site, TypeOK
      <4> QED BY <2>1, <4>1, <4>2
    <3> QED BY <3>1, <3>2, <3>3
  <2>5. ASSUME NEW c \in Calls(program), NEW t \in instructions'[c].accesses
        PROVE  \E a \in Arguments(c) : \E mode \in Modes :
                 Given(c, a, mode) /\ t = AccessOf(c, a, mode)
    <3>1. t \in instructions[c].accesses
      BY <2>1, <2>2, <2>5 DEF InstructionFacts
    <3> QED BY <3>1 DEF Gathered, NothingElse
  <2>6. ASSUME NEW c \in Calls(program) PROVE NothingElse(c)'
    <3>1. \A a, mode : /\ Given(c, a, mode)' <=> Given(c, a, mode)
                      /\ AccessOf(c, a, mode)' = AccessOf(c, a, mode)
      BY <1>1, <2>1 DEF Given, AccessOf, Site
    <3>2. Arguments(c)' = Arguments(c) /\ Site(c)' = Site(c)
      BY <1>1 DEF Arguments, Site
    <3> QED BY <2>3, <2>4, <2>5, <3>1, <3>2 DEF NothingElse
  <2> QED BY <1>1, <2>6 DEF Gathered
<1>4. CASE Pass
  <2> DEFINE modes == {mode \in Modes : Bound(mode)}
             given == {<<Actual.storage, Actual.region, mode>> : mode \in modes}
  <2>1. /\ effects \subseteq effects' /\ unknown' = unknown
        /\ formals' = [flag \in Flags |-> formals[flag] \cup Inherited(flag)]
        /\ call \in Calls(program) /\ argument > 0 /\ Actual.storage # NoStorage
        /\ instructions' =
             [instructions EXCEPT ![call].accesses = @ \cup given, ![call].effects = @ \cup modes]
    BY <1>4 DEF Pass
  <2>2. instructions \in [Calls(program) -> InstructionFacts]
    BY DEF TypeOK
  <2>3. argument \in DOMAIN program.calls[call].arguments
    BY <1>1, <2>1, ProgramShape DEF TypeOK, Current
  <2>4. ASSUME NEW mode \in modes
        PROVE  /\ mode \in Modes /\ argument \in Arguments(call) /\ Given(call, argument, mode)
               /\ <<Actual.storage, Actual.region, mode>> = AccessOf(call, argument, mode)
    BY <2>1, <2>3 DEF Given, AccessOf, Arguments, Site, Bound, Current, Actual
  <2>5. ASSUME NEW c, NEW a, NEW mode \in Modes, Given(c, a, mode)
        PROVE  Given(c, a, mode)'
    BY <1>1, <2>1, <2>5 DEF Given, Site, Flags
  <2> HIDE DEF modes
  <2>6. ASSUME NEW c \in Calls(program), NEW e \in instructions'[c].effects
        PROVE  \/ <<Site(c).callee, e>> \in effects'
               \/ e \in Modes /\ \E a \in Arguments(c) : Given(c, a, e)
    <3>1. e \in instructions[c].effects \/ (c = call /\ e \in modes)
      BY <2>1, <2>2, <2>6 DEF InstructionFacts
    <3>2. CASE e \in instructions[c].effects
      BY <2>1, <3>2 DEF Gathered, NothingElse
    <3> QED BY <2>4, <3>1, <3>2
  <2>7. ASSUME NEW c \in Calls(program), NEW t \in instructions'[c].accesses
        PROVE  \E a \in Arguments(c) : \E mode \in Modes :
                 Given(c, a, mode) /\ t = AccessOf(c, a, mode)
    <3>1. t \in instructions[c].accesses \/ (c = call /\ t \in given)
      BY <2>1, <2>2, <2>7 DEF InstructionFacts
    <3>2. CASE t \in instructions[c].accesses
      BY <3>2 DEF Gathered, NothingElse
    <3> QED BY <2>4, <3>1, <3>2
  <2>8. \A c \in Calls(program) : instructions'[c].unknown = instructions[c].unknown
    BY <2>1, <2>2 DEF InstructionFacts
  <2>9. ASSUME NEW c \in Calls(program) PROVE NothingElse(c)'
    <3>1. \A t \in instructions'[c].accesses :
            \E a \in Arguments(c) : \E mode \in Modes :
              Given(c, a, mode)' /\ t = AccessOf(c, a, mode)
      BY <2>5, <2>7
    <3>2. \A e \in instructions'[c].effects :
            \/ <<Site(c).callee, e>> \in effects'
            \/ e \in Modes /\ \E a \in Arguments(c) : Given(c, a, e)'
      BY <2>5, <2>6
    <3>3. \A u \in instructions'[c].unknown : <<Site(c).callee, u>> \in unknown'
      BY <2>1, <2>8 DEF Gathered, NothingElse
    <3> QED BY <1>1, <3>1, <3>2, <3>3 DEF NothingElse, AccessOf, Arguments, Site
  <2> QED BY <1>1, <2>9 DEF Gathered
<1> QED BY <1>2, <1>3, <1>4 DEF Next, Skip, EndPass, Instantiate, Done, vars, facts

(* Where a pass has been without a change, the instruction has gathered    *)
(* all that the callee does.                                               *)
CommonCopied(c) ==
  /\ \A e : <<Site(c).callee, e>> \in effects => e \in instructions[c].effects
  /\ \A u : <<Site(c).callee, u>> \in unknown => u \in instructions[c].unknown

ArgumentCopied(c, a) ==
  \A mode \in Modes :
    Given(c, a, mode) =>
      mode \in instructions[c].effects /\ AccessOf(c, a, mode) \in instructions[c].accesses

Copied ==
  ~changed =>
    \A c \in Calls(program) :
      /\ Visited(c, 0) => CommonCopied(c)
      /\ \A a \in Arguments(c) : Visited(c, a) => ArgumentCopied(c, a)

LEMMA CopiedInit == Init => Copied
<1> SUFFICES ASSUME Init PROVE Copied
  OBVIOUS
<1>1. program \in Programs
  BY DEF Init
<1>2. ASSUME NEW c \in Calls(program)
      PROVE  /\ ~Visited(c, 0)
             /\ \A a \in Arguments(c) : ~Visited(c, a)
  <2>1. c \in Nat /\ c >= 1 /\ call = 1 /\ argument = 0 /\ phase = "propagate"
    BY <1>1, ProgramShape DEF Init, Calls
  <2>2. \A a \in Arguments(c) : a \in Nat
    BY <1>1, ProgramShape DEF Arguments, Site
  <2> QED BY <2>1, <2>2 DEF Visited
<1> QED BY <1>2 DEF Copied

LEMMA CopiesKept ==
  ASSUME program' = program, UNCHANGED facts
  PROVE  /\ \A c : CommonCopied(c)' <=> CommonCopied(c)
         /\ \A c, a : ArgumentCopied(c, a)' <=> ArgumentCopied(c, a)
         /\ \A c : Arguments(c)' = Arguments(c)
<1>1. /\ effects' = effects /\ unknown' = unknown /\ formals' = formals
      /\ instructions' = instructions
  BY DEF facts
<1>2. \A c : Site(c)' = Site(c) /\ Arguments(c)' = Arguments(c)
  BY DEF Site, Arguments
<1>3. \A c, a, mode : /\ Given(c, a, mode)' <=> Given(c, a, mode)
                      /\ AccessOf(c, a, mode)' = AccessOf(c, a, mode)
  BY <1>1 DEF Given, AccessOf, Site
<1>4. \A c : CommonCopied(c)' <=> CommonCopied(c)
  BY <1>1, <1>2 DEF CommonCopied
<1>5. \A c, a : ArgumentCopied(c, a)' <=> ArgumentCopied(c, a)
  BY <1>1, <1>3 DEF ArgumentCopied
<1> QED BY <1>2, <1>4, <1>5

LEMMA CopiedNext == TypeOK /\ Copied /\ [Next]_vars => Copied'
<1> SUFFICES ASSUME TypeOK, Copied, [Next]_vars, ~changed'
             PROVE  Copied'
  BY DEF Copied
<1>1. program' = program /\ program \in Programs
  BY DEF TypeOK, Next, Merge, Pass, Skip, EndPass, Instantiate, Done, Advance, vars
<1>2. ASSUME call \in Calls(program), phase = "propagate", Advance,
             argument = 0 => CommonCopied(call),
             argument # 0 => ArgumentCopied(call, argument)
      PROVE  Copied'
  <2>1. ~changed /\ UNCHANGED facts
    BY <1>2 DEF Advance
  <2>2. \A c \in Calls(program) : \A a \in Arguments(c) : a # 0
    BY <1>1, ProgramShape DEF Arguments, Site
  <2>3. ASSUME NEW c \in Calls(program), Visited(c, 0)' PROVE CommonCopied(c)
    <3>1. Visited(c, 0) \/ (c = call /\ argument = 0)
      BY <1>2, <2>3, StepVisits
    <3> QED BY <1>2, <2>1, <3>1 DEF Copied
  <2>4. ASSUME NEW c \in Calls(program), NEW a \in Arguments(c), Visited(c, a)'
        PROVE  ArgumentCopied(c, a)
    <3>1. Visited(c, a) \/ (c = call /\ a = argument)
      BY <1>2, <2>4, StepVisits DEF Arguments, Site
    <3> QED BY <1>2, <2>1, <2>2, <3>1 DEF Copied
  <2> QED BY <1>1, <2>1, <2>3, <2>4, CopiesKept DEF Copied
<1>3. CASE Merge
  <2>1. call \in Calls(program) /\ phase = "propagate" /\ argument = 0 /\ Advance
    BY <1>3 DEF Merge
  <2>2. UNCHANGED facts /\ instructions \in [Calls(program) -> InstructionFacts]
    BY <2>1 DEF Advance, TypeOK
  <2>3. instructions =
          [instructions EXCEPT
             ![call].effects = @ \cup {x[2] : x \in Pairs(Current.callee, effects)},
             ![call].unknown = @ \cup {x[2] : x \in Pairs(Current.callee, unknown)}]
    BY <1>3, <2>2 DEF Merge, facts
  <2>4. /\ {x[2] : x \in Pairs(Current.callee, effects)} \subseteq instructions[call].effects
        /\ {x[2] : x \in Pairs(Current.callee, unknown)} \subseteq instructions[call].unknown
    BY <2>1, <2>2, <2>3 DEF InstructionFacts
  <2>5. CommonCopied(call)
    <3>1. ASSUME NEW e, <<Site(call).callee, e>> \in effects PROVE e \in instructions[call].effects
      <4>1. <<Current.callee, e>> \in Pairs(Current.callee, effects)
        BY <3>1 DEF Pairs, Site, Current
      <4> QED BY <2>4, <4>1
    <3>2. ASSUME NEW u, <<Site(call).callee, u>> \in unknown PROVE u \in instructions[call].unknown
      <4>1. <<Current.callee, u>> \in Pairs(Current.callee, unknown)
        BY <3>2 DEF Pairs, Site, Current
      <4> QED BY <2>4, <4>1
    <3> QED BY <3>1, <3>2 DEF CommonCopied
  <2> QED BY <1>2, <2>1, <2>5
<1>4. CASE Pass
  <2> DEFINE modes == {mode \in Modes : Bound(mode)}
             given == {<<Actual.storage, Actual.region, mode>> : mode \in modes}
  <2>1. /\ call \in Calls(program) /\ phase = "propagate" /\ argument > 0 /\ Advance
    BY <1>4 DEF Pass
  <2>2. UNCHANGED facts /\ instructions \in [Calls(program) -> InstructionFacts]
    BY <2>1 DEF Advance, TypeOK
  <2>3. instructions =
          [instructions EXCEPT ![call].accesses = @ \cup given, ![call].effects = @ \cup modes]
    BY <1>4, <2>2 DEF Pass, facts
  <2>4. ASSUME NEW mode \in Modes, Given(call, argument, mode)
        PROVE  mode \in modes /\ AccessOf(call, argument, mode) \in given
    BY <2>4 DEF Given, AccessOf, Site, Bound, Current, Actual
  <2> HIDE DEF modes, given
  <2>5. given \subseteq instructions[call].accesses /\ modes \subseteq instructions[call].effects
    BY <2>1, <2>2, <2>3 DEF InstructionFacts
  <2>6. ArgumentCopied(call, argument)
    BY <2>4, <2>5 DEF ArgumentCopied
  <2> QED BY <1>2, <2>1, <2>6
<1>5. CASE Skip
  <2>1. /\ call \in Calls(program) /\ phase = "propagate" /\ argument > 0
        /\ Actual.storage = NoStorage /\ Advance
    BY <1>5 DEF Skip
  <2>2. ArgumentCopied(call, argument)
    BY <2>1 DEF ArgumentCopied, Given, Site, Actual, Current
  <2> QED BY <1>2, <2>1, <2>2
<1>6. CASE EndPass
  <2>1. /\ phase = "propagate" /\ call \notin Calls(program)
        /\ UNCHANGED facts /\ argument' = argument
    BY <1>6 DEF EndPass
  <2>2. Len(program.calls) \in Nat /\ call = Len(program.calls) + 1 /\ argument = 0
    BY <1>1, <2>1, ProgramShape DEF TypeOK, Calls
  <2>3. CASE Repeat
    <3>1. call' = 1 /\ phase' = phase
      BY <1>6, <2>3 DEF EndPass
    <3>2. ASSUME NEW c \in Calls(program)
          PROVE  /\ ~Visited(c, 0)'
                 /\ \A a \in Arguments(c) : ~Visited(c, a)'
      <4>1. c \in Nat /\ c >= 1
        BY <2>2 DEF Calls
      <4>2. \A a \in Arguments(c) : a \in Nat /\ ~(a < 0)
        BY <1>1, ProgramShape DEF Arguments, Site
      <4>3. argument' = 0 /\ call' = 1 /\ phase' = "propagate"
        BY <2>1, <2>2, <3>1
      <4> QED BY <4>1, <4>2, <4>3 DEF Visited
    <3> QED BY <1>1, <2>1, <3>2, CopiesKept DEF Copied
  <2>4. CASE ~Repeat
    <3>1. changed' = changed
      BY <1>6, <2>4 DEF EndPass
    <3>2. \A c \in Calls(program) : Visited(c, 0) /\ \A a \in Arguments(c) : Visited(c, a)
      BY <2>2 DEF Visited, Calls
    <3>3. \A c \in Calls(program) : CommonCopied(c) /\ \A a \in Arguments(c) : ArgumentCopied(c, a)
      BY <3>1, <3>2 DEF Copied
    <3> QED BY <1>1, <2>1, <3>3, CopiesKept DEF Copied
  <2> QED BY <2>3, <2>4
<1>7. ASSUME UNCHANGED facts, changed' = changed,
             \A c, a : Visited(c, a)' => Visited(c, a)
      PROVE  Copied'
  BY <1>1, <1>7, CopiesKept DEF Copied
<1>8. CASE Instantiate
  BY <1>7, <1>8 DEF Instantiate, Visited
<1>9. CASE Done \/ UNCHANGED vars
  BY <1>7, <1>9 DEF Done, vars, Visited
<1> QED BY <1>3, <1>4, <1>5, <1>6, <1>8, <1>9 DEF Next

(* The table is written down once, from the facts as they stay.            *)
Published == phase = "done" => calls = [c \in Calls(program) |-> CallFacts(c)]

LEMMA PublishedInit == Init => Published
  BY DEF Init, Published

LEMMA PublishedNext == Published /\ [Next]_vars => Published'
<1> SUFFICES ASSUME Published, [Next]_vars, phase' = "done" PROVE Published'
  BY DEF Published
<1>1. /\ program' = program /\ UNCHANGED facts
      /\ Instantiate \/ (phase = "done" /\ calls' = calls)
  BY DEF Next, Merge, Pass, Skip, EndPass, Instantiate, Done, Advance, vars
<1>2. calls' = [c \in Calls(program) |-> CallFacts(c)]
  BY <1>1 DEF Instantiate, Published
<1>3. \A c : CallFacts(c)' = CallFacts(c)
  BY <1>1 DEF CallFacts, facts
<1>4. [c \in Calls(program) |-> CallFacts(c)]' = [c \in Calls(program) |-> CallFacts(c)]
  BY <1>1, <1>3
<1> QED BY <1>2, <1>4 DEF Published

LEMMA PublishedCalls == Spec => []Published
  BY PublishedInit, PublishedNext, PTL DEF Spec

(* Short of the limit, what is published of a call is exactly what its     *)
(* callee does: no access, effect or unknown memory is missing, or there   *)
(* without a reason, though the two tables are filled at different moments.*)
THEOREM CallsMatchWithinLimit == Spec => [](WithinLimit => CallsMatchCallees)
<1>1. ASSUME TInv, CutOff, Gathered, Copied, Published, WithinLimit
      PROVE  CallsMatchCallees
  <2> SUFFICES ASSUME phase = "done", NEW c \in Calls(program)
               PROVE  LET site == program.calls[c]
                          facts_ == calls[c].instruction
                          args == {a \in DOMAIN site.arguments :
                                     site.arguments[a].storage # NoStorage}
                          bound(a) == calls[c].arguments[a] \cap Modes
                      IN /\ facts_.accesses =
                              UNION {{<<site.arguments[a].storage, site.arguments[a].region, mode>> :
                                        mode \in bound(a)} : a \in args}
                         /\ facts_.effects = {x[2] : x \in Pairs(site.callee, effects)}
                                               \cup UNION {bound(a) : a \in args}
                         /\ facts_.unknown = {x[2] : x \in Pairs(site.callee, unknown)}
    BY DEF CallsMatchCallees
  <2> DEFINE args == {a \in Arguments(c) : Site(c).arguments[a].storage # NoStorage}
             bound(a) == calls[c].arguments[a] \cap Modes
             accesses == UNION {{AccessOf(c, a, mode) : mode \in bound(a)} : a \in args}
  <2>1. ~changed
    BY <1>1, SettledWithinLimit
  <2>2. /\ calls[c].instruction = instructions[c]
        /\ \A a \in Arguments(c) :
             calls[c].arguments[a] = {flag \in Flags : <<Site(c).callee, a>> \in formals[flag]}
    BY <1>1 DEF Published, CallFacts, Site, Arguments
  <2>3. /\ CommonCopied(c) /\ NothingElse(c)
        /\ \A a \in Arguments(c) : ArgumentCopied(c, a)
    BY <1>1, <2>1 DEF Copied, Visited, Gathered
  <2>4. \A a \in Arguments(c) : \A mode :
          Given(c, a, mode) /\ mode \in Modes <=> a \in args /\ mode \in bound(a)
    BY <2>2 DEF Given, Flags
  <2>5. /\ instructions[c].accesses \in SUBSET (Storages(program) \X Regions \X Modes)
        /\ effects \subseteq Functions(program) \X Effects
        /\ unknown \subseteq Functions(program) \X Modes
    BY <1>1 DEF TInv, TypeOK, InstructionFacts
  <2> HIDE DEF args, bound
  <2>6. instructions[c].accesses = accesses
    <3>1. ASSUME NEW t \in instructions[c].accesses PROVE t \in accesses
      <4>1. PICK a \in Arguments(c) : \E mode \in Modes : Given(c, a, mode) /\ t = AccessOf(c, a, mode)
        BY <2>3, <3>1 DEF NothingElse
      <4>2. a \in args /\ t \in {AccessOf(c, a, mode) : mode \in bound(a)}
        BY <2>4, <4>1
      <4> QED BY <4>2
    <3>2. ASSUME NEW a \in args, NEW mode \in bound(a)
          PROVE  AccessOf(c, a, mode) \in instructions[c].accesses
      <4>1. a \in Arguments(c) /\ mode \in Modes
        BY <3>2 DEF args, bound
      <4>2. Given(c, a, mode)
        BY <2>4, <3>2, <4>1
      <4> QED BY <2>3, <4>1, <4>2 DEF ArgumentCopied
    <3> QED BY <3>1, <3>2
  <2>7. instructions[c].effects = {x[2] : x \in Pairs(Site(c).callee, effects)}
                                    \cup UNION {bound(a) : a \in args}
    <3>1. ASSUME NEW e \in instructions[c].effects
          PROVE  e \in {x[2] : x \in Pairs(Site(c).callee, effects)}
                         \cup UNION {bound(a) : a \in args}
      <4>1. CASE <<Site(c).callee, e>> \in effects
        <5>1. <<Site(c).callee, e>> \in Pairs(Site(c).callee, effects)
          BY <4>1 DEF Pairs
        <5> QED BY <5>1
      <4>2. ASSUME NEW a \in Arguments(c), e \in Modes, Given(c, a, e)
            PROVE  e \in UNION {bound(b) : b \in args}
        BY <2>4, <4>2
      <4> QED BY <2>3, <4>1, <4>2 DEF NothingElse
    <3>2. ASSUME NEW x \in Pairs(Site(c).callee, effects) PROVE x[2] \in instructions[c].effects
      <4>1. <<Site(c).callee, x[2]>> \in effects
        BY <2>5 DEF Pairs
      <4> QED BY <2>3, <4>1 DEF CommonCopied
    <3>3. ASSUME NEW a \in args, NEW mode \in bound(a) PROVE mode \in instructions[c].effects
      <4>1. a \in Arguments(c) /\ mode \in Modes
        BY <3>3 DEF args, bound
      <4>2. Given(c, a, mode)
        BY <2>4, <3>3, <4>1
      <4> QED BY <2>3, <4>1, <4>2 DEF ArgumentCopied
    <3> QED BY <3>1, <3>2, <3>3
  <2>8. instructions[c].unknown = {x[2] : x \in Pairs(Site(c).callee, unknown)}
    <3>1. ASSUME NEW u \in instructions[c].unknown
          PROVE  u \in {x[2] : x \in Pairs(Site(c).callee, unknown)}
      <4>1. <<Site(c).callee, u>> \in Pairs(Site(c).callee, unknown)
        BY <2>3 DEF NothingElse, Pairs
      <4> QED BY <4>1
    <3>2. ASSUME NEW x \in Pairs(Site(c).callee, unknown) PROVE x[2] \in instructions[c].unknown
      <4>1. <<Site(c).callee, x[2]>> \in unknown
        BY <2>5 DEF Pairs
      <4> QED BY <2>3, <4>1 DEF CommonCopied
    <3> QED BY <3>1, <3>2
  <2> QED BY <2>2, <2>6, <2>7, <2>8 DEF args, bound, Site, Arguments, AccessOf
<1>2. Spec => []TInv
  BY InitTyped, NextTyped, PTL DEF Spec
<1>3. Spec => []CutOff
  BY <1>2, CutOffInit, CutOffNext, PTL DEF Spec
<1>4. Spec => []Gathered
  BY TypeCorrect, GatheredInit, GatheredNext, PTL DEF Spec
<1>5. Spec => []Copied
  BY TypeCorrect, CopiedInit, CopiedNext, PTL DEF Spec
<1>6. TInv /\ CutOff /\ Gathered /\ Copied /\ Published => (WithinLimit => CallsMatchCallees)
  BY <1>1
<1> QED BY <1>2, <1>3, <1>4, <1>5, <1>6, PublishedCalls, PTL

(***************************************************************************)
(* Which parameters escape.                                                *)
(***************************************************************************)
(* The root of a storage is marked, at the end the storage itself.         *)
Marked(s) == IF phase = "done" THEN s \in escapes ELSE Root(program, s) \in escapes

(* Some function has a parameter of this memory that escapes.              *)
FormalEscapes(s) ==
  \E m \in formals["escape"] :
    m[1] \in Functions(program) /\ m \in FormalsOf(program, m[1], s)

MarksAgree ==
  \A s \in Storages(program) :
    program.kind[Root(program, s)] = "parameter" => (Marked(s) <=> FormalEscapes(s))

(* The formals of a memory are told from its root alone.                   *)
LEMMA FormalsByRoot ==
  ASSUME NEW p, NEW f, NEW s, NEW t, NEW m \in FormalsOf(p, f, s)
  PROVE  /\ m \in FormalsOf(p, f, t) <=> Root(p, s) = Root(p, t)
         /\ m \in Entries(p) /\ m[1] = f
  BY DEF FormalsOf

LEMMA MarksInit == Init => MarksAgree
<1> SUFFICES ASSUME Init, NEW s \in Storages(program),
                    program.kind[Root(program, s)] = "parameter"
             PROVE  Marked(s) <=> FormalEscapes(s)
  BY DEF MarksAgree
<1> DEFINE p == program
<1>1. /\ p \in Programs /\ escapes = LocalEscapes(p) /\ phase # "done"
      /\ formals["escape"] = LocalFormals(p, "escape")
  BY DEF Init, Flags
<1>2. OwnsParameters(p)
  BY <1>1, ParametersAssumption
<1>3. ASSUME Marked(s) PROVE FormalEscapes(s)
  <2>1. PICK i \in p.body : i.external /\ \E a \in i.accesses : Root(p, s) = Root(p, a[1])
    BY <1>1, <1>3 DEF Marked, LocalEscapes
  <2>2. PICK a \in i.accesses : Root(p, s) = Root(p, a[1])
    BY <2>1
  <2>3. PICK m : m \in FormalsOf(p, i.owner, a[1])
    BY <1>2, <2>2 DEF OwnsParameters
  <2>4. m \in Entries(p) /\ m[1] = i.owner /\ m \in FormalsOf(p, m[1], s)
    BY <2>2, <2>3, FormalsByRoot
  <2>5. <<a[1], "read">> \in Accesses(i)
    BY <2>1, <2>2 DEF Accesses, Modes
  <2>6. m \in FormalsOf(p, i.owner, <<a[1], "read">>[1])
    BY <2>3
  <2>7. m \in LocalFormals(p, "escape")
    BY <2>1, <2>4, <2>5, <2>6 DEF LocalFormals
  <2>8. m[1] \in Functions(p)
    BY <2>4 DEF Entries, Formals
  <2> QED BY <1>1, <2>4, <2>7, <2>8 DEF FormalEscapes
<1>4. ASSUME FormalEscapes(s) PROVE Marked(s)
  <2>1. PICK m \in LocalFormals(p, "escape") : m \in FormalsOf(p, m[1], s)
    BY <1>1, <1>4 DEF FormalEscapes
  <2>2. PICK i \in p.body : /\ i.owner = m[1] /\ i.external
                            /\ \E b \in Accesses(i) : m \in FormalsOf(p, i.owner, b[1])
    BY <2>1 DEF LocalFormals
  <2>3. PICK b \in Accesses(i) : m \in FormalsOf(p, i.owner, b[1])
    BY <2>2
  <2>4. PICK a \in i.accesses : b[1] = a[1]
    BY <2>2, <2>3 DEF Accesses
  <2>5. Root(p, s) = Root(p, a[1])
    BY <2>1, <2>2, <2>3, <2>4, FormalsByRoot
  <2> QED BY <1>1, <2>2, <2>4, <2>5 DEF Marked, LocalEscapes
<1> QED BY <1>3, <1>4

LEMMA MarksNext == TypeOK /\ MarksAgree /\ [Next]_vars => MarksAgree'
<1> SUFFICES ASSUME TypeOK, MarksAgree, [Next]_vars PROVE MarksAgree'
  OBVIOUS
<1>2. program' = program
  BY DEF Next, Merge, Pass, Skip, EndPass, Instantiate, Done, Advance, vars
<1>roots. /\ Storages(program)' = Storages(program)
      /\ \A s : Root(program, s)' = Root(program, s)
  BY <1>2
<1> SUFFICES ASSUME NEW s \in Storages(program),
                    program.kind[Root(program, s)] = "parameter"
             PROVE  Marked(s)' <=> FormalEscapes(s)'
  BY <1>2, <1>roots DEF MarksAgree
<1>1. Marked(s) <=> FormalEscapes(s)
  BY DEF MarksAgree
<1>3. ASSUME escapes' = escapes, formals'["escape"] = formals["escape"],
             phase' = "done" <=> phase = "done"
      PROVE  Marked(s)' <=> FormalEscapes(s)'
  BY <1>1, <1>2, <1>3 DEF Marked, FormalEscapes
<1>4. CASE Merge
  BY <1>3, <1>4 DEF Merge, Advance
<1>5. CASE Pass
  <2>1. /\ phase = "propagate" /\ phase' = "propagate"
        /\ escapes' = escapes \cup Escaped
        /\ formals'["escape"] = formals["escape"] \cup Inherited("escape")
    BY <1>5 DEF Pass, Advance, Flags
  <2>2. ASSUME NEW m \in Inherited("escape")
        PROVE  /\ m[1] \in Functions(program)
               /\ m \in FormalsOf(program, m[1], s)
                    <=> Root(program, s) = Root(program, Actual.storage)
    <3>1. m \in FormalsOf(program, Current.caller, Actual.storage)
      BY <2>2 DEF Inherited
    <3>2. m \in Entries(program) /\ m[1] = Current.caller
      BY <3>1, FormalsByRoot
    <3> QED BY <3>1, <3>2, FormalsByRoot DEF Entries, Formals
  <2>3. Root(program, s) \in Escaped
          <=> \E m \in Inherited("escape") : Root(program, s) = Root(program, Actual.storage)
    BY DEF Escaped
  <2>4. Marked(s)' <=> Marked(s) \/ Root(program, s) \in Escaped
    BY <1>2, <2>1 DEF Marked
  <2>5. FormalEscapes(s)' <=>
          \/ FormalEscapes(s)
          \/ \E m \in Inherited("escape") :
               m[1] \in Functions(program) /\ m \in FormalsOf(program, m[1], s)
    BY <1>2, <2>1 DEF FormalEscapes
  <2> QED BY <1>1, <2>2, <2>3, <2>4, <2>5
<1>6. CASE Skip
  BY <1>3, <1>6 DEF Skip, Advance, facts
<1>7. CASE EndPass
  BY <1>3, <1>7 DEF EndPass, facts
<1>8. CASE Instantiate
  <2>1. /\ phase # "done" /\ phase' = "done" /\ formals' = formals
        /\ escapes' = {t \in Storages(program) : Root(program, t) \in escapes}
    BY <1>8 DEF Instantiate, facts
  <2> QED BY <1>1, <1>2, <2>1 DEF Marked, FormalEscapes
<1>9. CASE Done \/ UNCHANGED vars
  BY <1>3, <1>9 DEF Done, vars, facts
<1> QED BY <1>4, <1>5, <1>6, <1>7, <1>8, <1>9 DEF Next

(* A parameter is published as escaping exactly when its storage is,       *)
(* however the propagation ends, even at its limit: both are marked by the *)
(* same step, though only one of the marks counts as a change.             *)
THEOREM EscapesMarked == Spec => []EscapesAgree
<1>1. ASSUME MarksAgree PROVE EscapesAgree
  <2> SUFFICES ASSUME phase = "done", NEW s \in Storages(program),
                      program.kind[Root(program, s)] = "parameter"
               PROVE  s \in escapes <=> \E f \in Functions(program) :
                         FormalsOf(program, f, s) \cap formals["escape"] # {}
    BY DEF EscapesAgree
  <2>1. s \in escapes <=> FormalEscapes(s)
    BY <1>1 DEF MarksAgree, Marked
  <2>2. ASSUME NEW f \in Functions(program), NEW m \in FormalsOf(program, f, s)
        PROVE  m[1] = f
    BY <2>2, FormalsByRoot
  <2> QED BY <2>1, <2>2 DEF FormalEscapes
<1> QED BY <1>1, TypeCorrect, MarksInit, MarksNext, PTL DEF Spec

(***************************************************************************)
(* Which arguments overlap.                                                *)
(***************************************************************************)
(* Storage that a parameter may stand for is rooted in a parameter.        *)
LEMMA RootOfFormal ==
  ASSUME NEW p \in Programs, NEW f, NEW s, FormalsOf(p, f, s) # {}
  PROVE  p.kind[Root(p, s)] = "parameter"
<1>1. PICK m \in Entries(p) : Root(p, p.parameters[m[1]][m[2]]) = Root(p, s)
  BY DEF FormalsOf
<1>2. p.kind[p.parameters[m[1]][m[2]]] = "parameter"
  BY ParametersAssumption DEF OwnsParameters
<1> QED BY <1>1, <1>2 DEF Root

(* Whatever the parameters stand for, arguments of the same memory are not *)
(* held to be apart.                                                       *)
LEMMA SameMemoryMayAlias ==
  ASSUME NEW p \in Programs, NEW standsFor, NEW f, NEW a, NEW b,
         Memory(p, standsFor, f, a.storage) \cap Memory(p, standsFor, f, b.storage) # {},
         Root(p, a.storage) = Root(p, b.storage) => {a.region, b.region} # {"front", "back"}
  PROVE  AliasBetween(p, a, b) \in {"may_alias", "must_alias"}
<1>1. CASE Root(p, a.storage) = Root(p, b.storage)
  <2>1. RegionRelation(a.region, b.region) \in {"identical", "overlaps"}
    BY <1>1 DEF RegionRelation
  <2> QED BY <1>1, <2>1 DEF AliasBetween
<1>2. CASE Root(p, a.storage) # Root(p, b.storage)
  <2>1. FormalsOf(p, f, a.storage) # {} \/ FormalsOf(p, f, b.storage) # {}
    BY <1>2 DEF Memory
  <2>2. "parameter" \in {p.kind[Root(p, a.storage)], p.kind[Root(p, b.storage)]}
    BY <2>1, RootOfFormal
  <2> QED BY <1>2, <2>2 DEF AliasBetween
<1> QED BY <1>1, <1>2

(* Two arguments of a call that may be the same memory, through whatever   *)
(* bindings the calls on the way make, are in the published table, and as  *)
(* a conflict when both may be written.                                    *)
THEOREM OverlapsFound == Spec => []OverlapsReported
<1>1. ASSUME TypeOK, Published PROVE OverlapsReported
  <2> DEFINE standsFor == StandsFor(program)
  <2> HIDE DEF standsFor
  <2> SUFFICES ASSUME phase = "done", NEW c \in Calls(program),
                      NEW l \in DOMAIN program.calls[c].arguments,
                      NEW r \in DOMAIN program.calls[c].arguments,
                      l < r,
                      NoStorage \notin {program.calls[c].arguments[l].storage,
                                        program.calls[c].arguments[r].storage},
                      Memory(program, standsFor, program.calls[c].caller,
                             program.calls[c].arguments[l].storage)
                        \cap Memory(program, standsFor, program.calls[c].caller,
                                    program.calls[c].arguments[r].storage) # {},
                      Root(program, program.calls[c].arguments[l].storage)
                        = Root(program, program.calls[c].arguments[r].storage)
                      => {program.calls[c].arguments[l].region,
                          program.calls[c].arguments[r].region} # {"front", "back"}
               PROVE  \E o \in calls[c].overlaps :
                        /\ o.left = l /\ o.right = r
                        /\ o.writable_conflict = (program.calls[c].arguments[l].writable
                                                   /\ program.calls[c].arguments[r].writable)
    BY DEF OverlapsReported, standsFor
  <2> DEFINE a == program.calls[c].arguments[l]
             b == program.calls[c].arguments[r]
             o == [left |-> l, right |-> r, relation |-> AliasBetween(program, a, b),
                   writable_conflict |-> (a.writable /\ b.writable)]
  <2>1. program \in Programs
    BY <1>1 DEF TypeOK
  <2>2. AliasBetween(program, a, b) \in {"may_alias", "must_alias"}
    BY <2>1, SameMemoryMayAlias
  <2>3. calls[c].overlaps = Overlaps(program, program.calls[c])
    BY <1>1 DEF Published, CallFacts
  <2>4. o \in [left : DOMAIN program.calls[c].arguments, right : DOMAIN program.calls[c].arguments,
               relation : {"may_alias", "must_alias"}, writable_conflict : BOOLEAN]
    BY <2>2
  <2>5. o \in Overlaps(program, program.calls[c])
    BY <2>4 DEF Overlaps
  <2> QED BY <2>3, <2>5
<1> QED BY <1>1, TypeCorrect, PublishedCalls, PTL
=============================================================================
