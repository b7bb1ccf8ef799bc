-------------------------- MODULE MemoryDependence --------------------------
(***************************************************************************)
(* analyze_function of src/ir/memory_dependence.cpp: the feedback edges of *)
(* the function graph, the fixed point of the access frontiers, and the    *)
(* dependences read off them.  A frontier, sorted and without duplicates   *)
(* in the code, is a set of [site, loop_carried].                          *)
(***************************************************************************)
EXTENDS MemoryFlow

CONSTANT Programs

ASSUME ProgramsAssumption == \A p \in Programs : WellFormed(p)

VARIABLES
  program,                                         \* never changes
  visits, stack, start, loop_edges, finished,      \* the search
  inputs, outputs,   \* block -> frontier at its entry and at its exit
  worklist, queued,  \* the queue of blocks, and their queued bits
  current, edge,     \* the block whose exit is handed on, or 0, and over which edge
  complete,          \* the table has been computed
  dependences        \* the table

search == <<visits, stack, start, loop_edges, finished>>
fixpoint == <<inputs, outputs, worklist, queued, current, edge>>
vars == <<program, search, fixpoint, complete, dependences>>

Search == INSTANCE FeedbackEdges WITH Graphs <- Programs, graph <- program

Blocks == 1 .. program.count

Frontier(p) == [site : AllSites(p), loop_carried : BOOLEAN]

Init ==
  /\ Search!Init
  /\ inputs = [b \in Blocks |-> {}]
  /\ outputs = [b \in Blocks |-> {}]
  /\ worklist = [b \in Blocks |-> b]
  /\ queued = Blocks
  /\ current = 0
  /\ edge = 1
  /\ complete = FALSE
  /\ dependences = {}

(* build_function_graph.                                                   *)
BuildGraph == Search!Next /\ UNCHANGED <<fixpoint, complete, dependences>>

-----------------------------------------------------------------------------

(* mutant: a write that may touch the same memory kills as well.           *)
KilledIfAny(p, previous, write) ==
  /\ ~ previous.unknown
  /\ Writes(write.mode) /\ ~ write.unknown
  /\ SiteRelation(p, previous, write) # "no_alias"

(* mutant: a whole write kills what is known of other roots too.           *)
KilledByWhole(p, previous, write) ==
  /\ ~ previous.unknown
  /\ Writes(write.mode) /\ ~ write.unknown
  /\ \/ WritesEntireRoot(p, write)
     \/ SiteRelation(p, previous, write) = "must_alias"

(* The write covers the earlier access: the same elements for certain, or  *)
(* the whole of the root.                                                  *)
Killed(p, previous, write) ==
  /\ ~ previous.unknown
  /\ Writes(write.mode) /\ ~ write.unknown
  /\ \/ /\ WritesEntireRoot(p, write)
        /\ Access(p, write).root = Access(p, previous).root
     \/ SiteRelation(p, previous, write) = "must_alias"

(* update_frontier: all the kills of an instruction, then its own sites.   *)
Update(p, b, k, frontier) ==
  {a \in frontier : \A write \in AccessSites(p, b, k) : ~ Killed(p, a.site, write)}
    \cup {[site |-> s, loop_carried |-> FALSE] :
            s \in {t \in AccessSites(p, b, k) : Retained(p, t)}}

(* The frontiers inside block b, from the one at its entry on.             *)
Frontiers(p, b, input) ==
  LET f[n \in 0 .. Len(p.code[b])] == IF n = 0 THEN input ELSE Update(p, b, n, f[n - 1])
  IN  f

TransferBlock(p, b, input) == Frontiers(p, b, input)[Len(p.code[b])]

(* mutant: the mark of an edge replaces the mark of the access.            *)
MarkedOver(frontier, marked) ==
  {[a EXCEPT !.loop_carried = marked] : a \in frontier}

(* What crosses a marked edge is loop-carried from then on.                *)
Marked(frontier, marked) ==
  {[a EXCEPT !.loop_carried = a.loop_carried \/ marked] : a \in frontier}

Changed(b, output) == output # outputs[b]

(* mutant: the block stays at the head of the queue.                       *)
RestUntaken == worklist

Rest == Tail(worklist)

(* The first block of the worklist: its exit is computed, and handed on    *)
(* when it has changed.                                                    *)
Take ==
  /\ Search!Done
  /\ ~ complete
  /\ current = 0
  /\ worklist # <<>>
  /\ LET b == Head(worklist)
         output == TransferBlock(program, b, inputs[b])
     IN  /\ worklist' = Rest
         /\ queued' = queued \ {b}
         /\ outputs' = [outputs EXCEPT ![b] = output]
         /\ current' = IF Changed(b, output) THEN b ELSE 0
  /\ edge' = 1
  /\ UNCHANGED <<program, search, inputs, complete, dependences>>

Successors == program.successors[current]

(* mutant: the queued bit of the target is not looked at.                  *)
WakesAgain(c, merged) == merged # inputs[c]

(* mutant: a target that is queued is not merged into, as if its next      *)
(* visit would see the new exit anyway.                                    *)
IntoUnqueued(c, frontier) == IF c \in queued THEN inputs[c] ELSE inputs[c] \cup frontier

Into(c, frontier) == inputs[c] \cup frontier

Wakes(c, merged) == merged # inputs[c] /\ c \notin queued

Pushed(c) == Append(worklist, c)

(* merge_frontier over the next edge out of the block; its target is       *)
(* queued when its entry has grown and it is not queued already.           *)
HandOn ==
  /\ current # 0
  /\ edge \in DOMAIN Successors
  /\ LET c == Successors[edge]
         merged == Into(c, Marked(outputs[current], <<current, edge>> \in loop_edges))
     IN  /\ inputs' = [inputs EXCEPT ![c] = merged]
         /\ IF Wakes(c, merged)
            THEN worklist' = Pushed(c) /\ queued' = queued \cup {c}
            ELSE UNCHANGED <<worklist, queued>>
  /\ edge' = edge + 1
  /\ UNCHANGED <<program, search, outputs, current, complete, dependences>>

Leave ==
  /\ current # 0
  /\ edge = Len(Successors) + 1
  /\ current' = 0
  /\ UNCHANGED <<program, search, inputs, outputs, worklist, queued, edge, complete,
                 dependences>>

-----------------------------------------------------------------------------

(* Accesses side by side in one instruction do not depend on each other,   *)
(* unless the earlier one comes from an earlier iteration.                 *)
Paired(source, target) ==
  source.site.instruction # target.instruction \/ source.loop_carried

Kinds(source, target) ==
  (IF Writes(source.mode) /\ Reads(target.mode) THEN {"flow"} ELSE {})
    \cup (IF Reads(source.mode) /\ Writes(target.mode) THEN {"anti"} ELSE {})
    \cup (IF Writes(source.mode) /\ Writes(target.mode) THEN {"output"} ELSE {})

Dependence(source, target, kind, relation, carried) ==
  [source |-> source, target |-> target, kind |-> kind, relation |-> relation,
   barrier |-> source.unknown \/ target.unknown, loop_carried |-> carried]

(* collect_instruction_dependences, at instruction k of block b.           *)
Collected(p, b, k, frontier) ==
  UNION {UNION {{Dependence(a.site, t, kind, SiteRelation(p, a.site, t), a.loop_carried) :
                   kind \in Kinds(a.site, t)} :
                a \in {x \in frontier : Paired(x, t)
                                        /\ SiteRelation(p, x.site, t) # "no_alias"}} :
         t \in AccessSites(p, b, k)}

Drafts ==
  UNION {UNION {Collected(program, b, k, Frontiers(program, b, inputs[b])[k - 1]) :
                k \in DOMAIN program.code[b]} : b \in Blocks}

SameKey(d, e) == d.source = e.source /\ d.target = e.target /\ d.kind = e.kind

(* Drafts of the same key become one, loop-carried if one of them is.      *)
Canonical(drafts) ==
  {[d EXCEPT !.loop_carried = \E e \in drafts : SameKey(d, e) /\ e.loop_carried] :
     d \in drafts}

Collect ==
  /\ Search!Done
  /\ worklist = <<>>
  /\ current = 0
  /\ ~ complete
  /\ complete' = TRUE
  /\ dependences' = Canonical(Drafts)
  /\ UNCHANGED <<program, search, fixpoint>>

Next == BuildGraph \/ Take \/ HandOn \/ Leave \/ Collect

Spec == Init /\ [][Next]_vars

FairSpec == Spec /\ WF_vars(Next)

-----------------------------------------------------------------------------

(* Every variable has its type.                                            *)
TypeOK ==
  /\ Search!TypeOK
  /\ inputs \in [Blocks -> SUBSET Frontier(program)]
  /\ outputs \in [Blocks -> SUBSET Frontier(program)]
  /\ worklist \in Seq(Blocks)
  /\ queued \subseteq Blocks
  /\ current \in Blocks \cup {0}
  /\ edge \in Nat \ {0}
  /\ complete \in BOOLEAN

(* The queued bits are the blocks in the worklist, each in it once.        *)
QueueAgrees ==
  /\ queued = {worklist[i] : i \in DOMAIN worklist}
  /\ \A i, j \in DOMAIN worklist : worklist[i] = worklist[j] => i = j

Consistent(b) == outputs[b] = TransferBlock(program, b, inputs[b])

HandedOn(b) ==
  \A k \in DOMAIN program.successors[b] :
    Marked(outputs[b], <<b, k>> \in loop_edges) \subseteq inputs[program.successors[b][k]]

(* The dependences are read off a fixed point: the exit of every block is  *)
(* the transfer of its entry, and every edge has been followed with it,    *)
(* although a block whose exit did not change is skipped and a successor   *)
(* that is queued is not queued again.                                     *)
FixedPoint ==
  complete => \A b \in Blocks : Consistent(b) /\ HandedOn(b)

(* Every cycle of the function graph, reducible or not, crosses an edge    *)
(* marked by the search, and a marked edge closes a cycle: a dependence    *)
(* that comes back to its own instruction is seen as loop-carried, and a   *)
(* function without loops reports none.                                    *)
LoopsCut == Search!EveryCycleCut

MarksCloseLoops == Search!MarksCloseCycles

(* The analysis ends on every function, its search of the graph included.  *)
Terminates == <>complete
=============================================================================
