-------------------------- MODULE ControlValueJoin --------------------------
(***************************************************************************)
(* normalize_control_value_joins (src/ir/control_value_join.cpp): the      *)
(* storage-carrying block arguments of a freshly lowered program get the   *)
(* type and shape of the values that really flow into them, in place of    *)
(* the ones their storage was declared with.  A worklist recomputes the    *)
(* fact of one argument, a slot, at a time.                                *)
(*                                                                         *)
(* A program p has                                                         *)
(*   p.types, p.shapes   the interned types and shapes                     *)
(*   p.instructions      the results: [value, type, shape]                 *)
(*   p.arguments[b]      block arguments: [value, type, shape, stored]     *)
(*   p.next[b], p.actuals[b]   the successors of b and what it passes them *)
(*   p.revision                                                            *)
(* with the blocks numbered from 1.                                        *)
(***************************************************************************)
EXTENDS ValueDomain, SequencesExt

CONSTANT
  Programs    \* the programs a lowering may hand over

VARIABLES
  program,
  phase,      \* "normalize", then the phases of the verifier
  slots,      \* the nodes: the <<block, ordinal>> of each slot, in order
  inputs,     \* what is passed to each slot, in the order of the edges:
              \* <<"slot", n>>, or <<"contract", c>> for any other value
  facts,      \* what is known of each slot so far
  pending,    \* the worklist
  queued,     \* the slots whose queued bit is set
  next_slot,  \* the slot to write next
  changed,    \* whether a contract written differs from the one before
  rounds      \* how often the program has been normalized

joinVars == <<slots, inputs, facts, pending, queued, next_slot, changed>>

-----------------------------------------------------------------------------
(* The inventory.                                                          *)

Ordered(n) == [k \in 1..n |-> k]

HasPredecessor(p, b) == \E a \in DOMAIN p.next : b \in Range(p.next[a])

Argument(p, at) == p.arguments[at[1]][at[2]]

Slots(p) ==
  SelectSeq(
    FlattenSeq([b \in DOMAIN p.arguments |-> [k \in DOMAIN p.arguments[b] |-> <<b, k>>]]),
    LAMBDA at : Argument(p, at).stored /\ HasPredecessor(p, at[1]))

Edges(p) ==
  FlattenSeq([b \in DOMAIN p.next |-> [e \in DOMAIN p.next[b] |-> <<b, e>>]])

Definitions(p) ==
  Range(p.instructions) \cup UNION {Range(p.arguments[b]) : b \in DOMAIN p.arguments}

(* A value nothing defines is like one whose contract names no type.       *)
Contract(p, v) ==
  LET found == {d \in Definitions(p) : d.value = v}
  IN  IF found = {} THEN [type |-> NoId, shape |-> NoId]
      ELSE LET d == CHOOSE d \in found : TRUE IN [type |-> d.type, shape |-> d.shape]

(* The slot that defines a value, or the contract of its definition.       *)
Indexed(p, list, v) ==
  LET carriers == {n \in DOMAIN list : Argument(p, list[n]).value = v}
  IN  IF carriers = {} THEN <<"contract", Contract(p, v)>>
      ELSE <<"slot", CHOOSE n \in carriers : TRUE>>

(* What the edges into the block of a slot pass at its ordinal; an edge    *)
(* that passes fewer values passes none.                                   *)
InputsOf(p, list, at) ==
  LET passing == SelectSeq(Edges(p), LAMBDA e :
                   /\ p.next[e[1]][e[2]] = at[1]
                   /\ e[2] \in DOMAIN p.actuals[e[1]]
                   /\ at[2] \in DOMAIN p.actuals[e[1]][e[2]])
  IN  [k \in DOMAIN passing |-> Indexed(p, list, p.actuals[passing[k][1]][passing[k][2]][at[2]])]

-----------------------------------------------------------------------------
(* The worklist.                                                           *)

Source(input) ==
  IF input[1] = "slot" THEN facts[input[2]] ELSE FactOf(program, input[2])

Joined(sources) ==
  LET upto[k \in 0..Len(sources)] ==
        IF k = 0 THEN Undefined ELSE Join(program.types, upto[k - 1], sources[k])
  IN  upto[Len(sources)]

Sources(n) == [k \in DOMAIN inputs[n] |-> Source(inputs[n][k])]

Uses(n, m) == \E k \in DOMAIN inputs[n] : inputs[n][k] = <<"slot", m>>

(* mutant: only the slots after the changed one are woken.                 *)
WokenAfter(m) ==
  SelectSeq(Ordered(Len(slots)), LAMBDA n : Uses(n, m) /\ n > m /\ n \notin queued \ {m})

(* The users of m that are not queued; m itself has just left the queue.   *)
Woken(m) ==
  SelectSeq(Ordered(Len(slots)), LAMBDA n : Uses(n, m) /\ n \notin queued \ {m})

JoinInit ==
  /\ program \in Programs
  /\ slots = Slots(program)
  /\ inputs = [n \in DOMAIN slots |-> InputsOf(program, slots, slots[n])]
  /\ facts = [n \in DOMAIN slots |-> Undefined]
  /\ pending = Ordered(Len(slots))
  /\ queued = DOMAIN slots
  /\ next_slot = 1
  /\ changed = FALSE
  /\ rounds = 0

(* The fact of the first slot of the queue is what it already was.         *)
Keep ==
  /\ phase = "normalize"
  /\ pending # <<>>
  /\ Joined(Sources(Head(pending))) = facts[Head(pending)]
  /\ pending' = Tail(pending)
  /\ queued' = queued \ {Head(pending)}
  /\ UNCHANGED <<program, phase, slots, inputs, facts, next_slot, changed, rounds>>

(* mutant: a slot is visited as if its fact had always changed.            *)
VisitAlways ==
  /\ phase = "normalize"
  /\ pending # <<>>
  /\ facts' = [facts EXCEPT ![Head(pending)] = Joined(Sources(Head(pending)))]
  /\ pending' = Tail(pending) \o Woken(Head(pending))
  /\ queued' = (queued \ {Head(pending)}) \cup Range(Woken(Head(pending)))
  /\ UNCHANGED <<program, phase, slots, inputs, next_slot, changed, rounds>>

Update ==
  /\ phase = "normalize"
  /\ pending # <<>>
  /\ Joined(Sources(Head(pending))) # facts[Head(pending)]
  /\ facts' = [facts EXCEPT ![Head(pending)] = Joined(Sources(Head(pending)))]
  /\ pending' = Tail(pending) \o Woken(Head(pending))
  /\ queued' = (queued \ {Head(pending)}) \cup Range(Woken(Head(pending)))
  /\ UNCHANGED <<program, phase, slots, inputs, next_slot, changed, rounds>>

-----------------------------------------------------------------------------
(* The contracts.                                                          *)

First(seq, Test(_)) ==
  LET found == SelectSeq(Ordered(Len(seq)), LAMBDA k : Test(seq[k]))
  IN  IF found = <<>> THEN Len(seq) + 1 ELSE found[1]

IsDynamic(t) == t.kind = "scalar" /\ ~ t.known

(* mutant: an earlier unknown type is not looked for.                      *)
TypeAppended(p, fact) == IF fact.type # NoId THEN fact.type ELSE Len(p.types) + 1

TypeFor(p, fact) == IF fact.type # NoId THEN fact.type ELSE First(p.types, IsDynamic)

ShapeFor(p, fact) == First(p.shapes, LAMBDA s : s = fact.shape)

(* The table with the entry at id, which is one of its own or the next.    *)
With(table, id, entry) == IF id \in DOMAIN table THEN table ELSE Append(table, entry)

DynamicType == [kind |-> "scalar", known |-> FALSE, referent |-> NoId]

(* The worklist is empty: the slots are written, in order.                 *)
Settle ==
  /\ phase = "normalize" /\ pending = <<>>
  /\ phase' = "write" /\ next_slot' = 1 /\ changed' = FALSE
  /\ UNCHANGED <<program, slots, inputs, facts, pending, queued, rounds>>

(* The contract of the slot at <<block, ordinal>>, and the tables it needs. *)
Recorded(fact, b, k) ==
  [program EXCEPT
     !.types = With(@, TypeFor(program, fact), DynamicType),
     !.shapes = With(@, ShapeFor(program, fact), fact.shape),
     !.arguments[b][k].type = TypeFor(program, fact),
     !.arguments[b][k].shape = ShapeFor(program, fact)]

(* A slot without a defined fact hangs on a cycle nothing flows into.      *)
Write ==
  /\ phase = "write" /\ next_slot \in DOMAIN slots
  /\ next_slot' = next_slot + 1
  /\ IF facts[next_slot].defined
     THEN /\ program' = Recorded(facts[next_slot], slots[next_slot][1], slots[next_slot][2])
          /\ changed' = (changed \/ program'.arguments # program.arguments)
     ELSE UNCHANGED <<program, changed>>
  /\ UNCHANGED <<phase, slots, inputs, facts, pending, queued, rounds>>

Finish ==
  /\ phase = "write" /\ next_slot \notin DOMAIN slots
  /\ program' = IF changed THEN [program EXCEPT !.revision = @ + 1] ELSE program
  /\ phase' = "inventory"
  /\ rounds' = rounds + 1
  /\ UNCHANGED joinVars

(* The unit tests normalize a program once more.                           *)
Repeat ==
  /\ phase = "judged"
  /\ rounds = 1
  /\ phase' = "normalize"
  /\ facts' = [n \in DOMAIN slots |-> Undefined]
  /\ pending' = Ordered(Len(slots))
  /\ queued' = DOMAIN slots
  /\ UNCHANGED <<program, slots, inputs, next_slot, changed, rounds>>

JoinNext == Keep \/ Update \/ Settle \/ Write \/ Finish \/ Repeat

-----------------------------------------------------------------------------
(* Normalizing a second time changes nothing: no contract, no type, no     *)
(* shape and not the revision (docs/ARCHITECTURE.md, "control_value_join") *)
RepeatChangesNothing ==
  [][phase = "write" /\ rounds = 1 => program' = program]_program
=============================================================================
