------------------------ MODULE ControlJoinVerifier ------------------------
(***************************************************************************)
(* verify_control_value_joins (src/ir/control_value_join_verifier.cpp):    *)
(* the contract of every slot is judged without the facts the normalizer   *)
(* found.  Slots that depend on one another form the components of a       *)
(* graph; what flows into a component from outside holds for all its       *)
(* slots, and is handed down the acyclic graph of the components.          *)
(*                                                                         *)
(* The verifier follows the normalizer, and follows the pass               *)
(* mir-shape-canonicalization (src/ir/mir_optimization.cpp); it is also    *)
(* given programs nobody normalized.                                       *)
(***************************************************************************)
EXTENDS ControlValueJoin, FiniteSets

VARIABLES
  canonical,   \* whether the shapes have been canonicalized
  root, stack, visited, order,             \* the depth-first search
  item, component, components,             \* the components, from 1
  resolved, downstream, remaining, ready,  \* the graph of the components
  verdict

searchVars == <<root, stack, visited, order>>
collectVars == <<item, component, components>>
graphVars == <<resolved, downstream, remaining, ready>>
verifierVars == <<canonical, searchVars, collectVars, graphVars, verdict>>
vars == <<program, phase, joinVars, rounds, verifierVars>>

Nodes == DOMAIN slots

-----------------------------------------------------------------------------
(* The graph of the slots.                                                 *)

Outside(n) == SelectSeq(inputs[n], LAMBDA input : input[1] = "contract")

Inside(n) == SelectSeq(inputs[n], LAMBDA input : input[1] = "slot")

(* The slots n is fed by, once for each time.                              *)
Dependencies(n) == [k \in DOMAIN Inside(n) |-> Inside(n)[k][2]]

Anchor(n) == Joined([k \in DOMAIN Outside(n) |-> Source(Outside(n)[k])])

(* An actual that nothing defines, or whose contract names no type or no   *)
(* shape.                                                                  *)
Broken == \E n \in Nodes : \E k \in DOMAIN Outside(n) : ~ Source(Outside(n)[k]).defined

Init ==
  /\ JoinInit
  /\ phase \in {"normalize", "inventory"}
  /\ canonical = FALSE
  /\ root = 1 /\ stack = <<>> /\ visited = {} /\ order = <<>>
  /\ item = 0 /\ component = [n \in Nodes |-> 0] /\ components = 0
  /\ resolved = <<>> /\ downstream = <<>> /\ remaining = <<>> /\ ready = <<>>
  /\ verdict = "none"

Judge(v) == verdict' = v /\ phase' = "judged"

(* A call of the verifier starts from the program alone.                   *)
TakeInventory ==
  /\ phase = "inventory"
  /\ UNCHANGED <<program, facts, pending, queued, next_slot, changed, rounds, canonical>>
  /\ slots' = Slots(program)
  /\ inputs' = [n \in DOMAIN slots' |-> InputsOf(program, slots', slots'[n])]
  /\ IF slots' = <<>> THEN Judge("accepted")
     ELSE IF Broken' THEN Judge("rejected")
     ELSE phase' = "search" /\ verdict' = "none"
  /\ root' = 1 /\ stack' = <<>> /\ visited' = {} /\ order' = <<>>
  /\ item' = 0 /\ component' = [n \in DOMAIN slots' |-> 0] /\ components' = 0
  /\ resolved' = <<>> /\ downstream' = <<>> /\ remaining' = <<>> /\ ready' = <<>>

-----------------------------------------------------------------------------
(* The search: postorder along the dependencies, with a stack of frames.   *)

Frame(n) == [slot |-> n, child |-> 1]

Top == stack[Len(stack)]

Start ==
  /\ phase = "search" /\ stack = <<>> /\ root \in Nodes
  /\ root' = root + 1
  /\ IF root \in visited THEN UNCHANGED <<stack, visited>>
     ELSE stack' = <<Frame(root)>> /\ visited' = visited \cup {root}
  /\ UNCHANGED <<program, phase, joinVars, rounds, canonical, order, collectVars, graphVars,
                 verdict>>

Advanced == [stack EXCEPT ![Len(stack)].child = @ + 1]

Follow ==
  /\ phase = "search" /\ stack # <<>>
  /\ Top.child \in DOMAIN Dependencies(Top.slot)
  /\ LET child == Dependencies(Top.slot)[Top.child]
     IN  IF child \in visited THEN stack' = Advanced /\ UNCHANGED visited
         ELSE stack' = Append(Advanced, Frame(child)) /\ visited' = visited \cup {child}
  /\ UNCHANGED <<program, phase, joinVars, rounds, canonical, root, order, collectVars,
                 graphVars, verdict>>

Leave ==
  /\ phase = "search" /\ stack # <<>>
  /\ Top.child \notin DOMAIN Dependencies(Top.slot)
  /\ order' = Append(order, Top.slot)
  /\ stack' = Front(stack)
  /\ UNCHANGED <<program, phase, joinVars, rounds, canonical, root, visited, collectVars,
                 graphVars, verdict>>

Searched ==
  /\ phase = "search" /\ stack = <<>> /\ root \notin Nodes
  /\ phase' = "collect" /\ item' = Len(order)
  /\ UNCHANGED <<program, joinVars, rounds, canonical, searchVars, component, components,
                 graphVars, verdict>>

-----------------------------------------------------------------------------
(* The components: the last slot left that has none yet, and the slots it  *)
(* feeds through slots that have none.                                     *)

Feeds(m, n) == Uses(n, m)

(* mutant: the slots are collected along the edges the search followed.    *)
CollectedAlong(n) ==
  LET on(S) == S \cup {u \in Nodes : component[u] = 0 /\ \E m \in S : Feeds(u, m)}
      flood[k \in Nat] == IF k = 0 THEN {n} ELSE on(flood[k - 1])
  IN  flood[Len(slots)]

Collected(n) ==
  LET on(S) == S \cup {u \in Nodes : component[u] = 0 /\ \E m \in S : Feeds(m, u)}
      flood[k \in Nat] == IF k = 0 THEN {n} ELSE on(flood[k - 1])
  IN  flood[Len(slots)]

Collect ==
  /\ phase = "collect" /\ item # 0
  /\ item' = item - 1
  /\ IF component[order[item]] # 0 THEN UNCHANGED <<component, components>>
     ELSE LET members == Collected(order[item])
          IN  /\ components' = components + 1
              /\ component' = [n \in Nodes |-> IF n \in members THEN components + 1
                                               ELSE component[n]]
  /\ UNCHANGED <<program, phase, joinVars, rounds, canonical, searchVars, graphVars, verdict>>

-----------------------------------------------------------------------------
(* The graph of the components.                                            *)

Members(c) == SelectSeq(Ordered(Len(slots)), LAMBDA n : component[n] = c)

(* Component c feeds these, once for each dependency between two slots.    *)
Downstream(c) ==
  FlattenSeq([n \in Nodes |->
    LET from == SelectSeq(Dependencies(n), LAMBDA m : component[m] = c /\ component[n] # c)
    IN  [k \in DOMAIN from |-> component[n]]])

Count(seq, x) == Len(SelectSeq(seq, LAMBDA y : y = x))

Condense ==
  /\ phase = "collect" /\ item = 0
  /\ phase' = "join"
  /\ resolved' = [c \in 1..components |->
                    Joined([k \in DOMAIN Members(c) |-> Anchor(Members(c)[k])])]
  /\ downstream' = [c \in 1..components |-> Downstream(c)]
  /\ remaining' = [c \in 1..components |->
                     Len(FlattenSeq([d \in 1..components |->
                           SelectSeq(downstream'[d], LAMBDA e : e = c)]))]
  /\ ready' = SelectSeq(Ordered(components), LAMBDA c : remaining'[c] = 0)
  /\ UNCHANGED <<program, joinVars, rounds, canonical, searchVars, collectVars, verdict>>

(* The components whose last outstanding edge comes from c, in the order   *)
(* of those edges.                                                         *)
Released(c) ==
  LET last(k) == /\ downstream[c][k] \notin Range(SubSeq(downstream[c], k + 1, Len(downstream[c])))
                 /\ remaining[downstream[c][k]] = Count(downstream[c], downstream[c][k])
      at == SelectSeq(Ordered(Len(downstream[c])), last)
  IN  [k \in DOMAIN at |-> downstream[c][at[k]]]

Deliver ==
  /\ phase = "join" /\ ready # <<>>
  /\ LET c == Head(ready)
     IN  /\ resolved' = [d \in DOMAIN resolved |->
                           IF d \in Range(downstream[c])
                           THEN Join(program.types, resolved[d], resolved[c]) ELSE resolved[d]]
         /\ remaining' = [d \in DOMAIN remaining |-> remaining[d] - Count(downstream[c], d)]
         /\ ready' = Tail(ready) \o Released(c)
  /\ UNCHANGED <<program, phase, joinVars, rounds, canonical, searchVars, collectVars,
                 downstream, verdict>>

-----------------------------------------------------------------------------
(* The comparison.  A reference and what it refers to count as one type.   *)

Matches(n, expected) ==
  LET actual == FactOf(program, Argument(program, slots[n]))
  IN  expected.defined =>
        /\ actual.defined
        /\ LogicalType(program.types, actual.type) = LogicalType(program.types, expected.type)
        /\ actual.shape = expected.shape

Compare ==
  /\ phase = "join" /\ ready = <<>>
  /\ Judge(IF \A n \in Nodes : Matches(n, resolved[component[n]])
           THEN "accepted" ELSE "rejected")
  /\ UNCHANGED <<program, joinVars, rounds, canonical, searchVars, collectVars, graphVars>>

-----------------------------------------------------------------------------
(* The first pass of the optimizer makes all shapes contiguous and keeps   *)
(* one of each.                                                            *)

Contiguous(s) ==
  IF s.dynamic_rank THEN s
  ELSE [s EXCEPT !.strides = RebuiltStrides(s.extents, s.layout)]

(* mutant: the shapes of block arguments are not remapped.                 *)
CanonicalizedInstructions(p) ==
  LET shapes == [id \in DOMAIN p.shapes |-> Contiguous(p.shapes[id])]
      kept == SelectSeq(Ordered(Len(shapes)),
                        LAMBDA id : \A lower \in 1..(id - 1) : shapes[lower] # shapes[id])
      remap(id) == IF id \in DOMAIN shapes
                   THEN CHOOSE k \in DOMAIN kept : shapes[kept[k]] = shapes[id] ELSE id
  IN  [p EXCEPT
         !.shapes = [k \in DOMAIN kept |-> shapes[kept[k]]],
         !.instructions = [k \in DOMAIN @ |-> [@[k] EXCEPT !.shape = remap(@)]],
         !.revision = @ + 1]

Canonicalized(p) ==
  LET shapes == [id \in DOMAIN p.shapes |-> Contiguous(p.shapes[id])]
      kept == SelectSeq(Ordered(Len(shapes)),
                        LAMBDA id : \A lower \in 1..(id - 1) : shapes[lower] # shapes[id])
      remap(id) == IF id \in DOMAIN shapes
                   THEN CHOOSE k \in DOMAIN kept : shapes[kept[k]] = shapes[id] ELSE id
      remapped(list) == [k \in DOMAIN list |-> [list[k] EXCEPT !.shape = remap(@)]]
  IN  [p EXCEPT
         !.shapes = [k \in DOMAIN kept |-> shapes[kept[k]]],
         !.instructions = remapped(@),
         !.arguments = [b \in DOMAIN @ |-> remapped(@[b])],
         !.revision = @ + 1]

Canonicalize ==
  /\ phase = "judged" /\ verdict = "accepted" /\ ~ canonical
  /\ program' = Canonicalized(program)
  /\ canonical' = TRUE
  /\ phase' = "inventory"
  /\ UNCHANGED <<joinVars, rounds, searchVars, collectVars, graphVars, verdict>>

(* Only lowering calls the normalizer.                                     *)
Normalize ==
  /\ ~ canonical
  /\ JoinNext
  /\ UNCHANGED verifierVars

Next ==
  \/ Normalize \/ TakeInventory \/ Start \/ Follow \/ Leave \/ Searched
  \/ Collect \/ Condense \/ Deliver \/ Compare \/ Canonicalize

Spec == Init /\ [][Next]_vars

FairSpec == Spec /\ WF_vars(Next)

-----------------------------------------------------------------------------
(* Properties.                                                             *)

(* Slot n can be fed by slot m, through any number of slots.               *)
FedBy(n) ==
  LET back(S) == S \cup {m \in Nodes : \E s \in S : Feeds(m, s)}
      reach[k \in Nat] == IF k = 0 THEN {n} ELSE back(reach[k - 1])
  IN  reach[Len(slots)]

Anchors(n) ==
  UNION {{Source(Outside(m)[k]) : k \in DOMAIN Outside(m)} : m \in FedBy(n)}

(* The join of a set of facts, all at once.                                *)
MergedType(T) ==
  LET logical == {LogicalType(program.types, t) : t \in T}
  IN  IF Cardinality(T) = 1 THEN CHOOSE t \in T : TRUE
      ELSE IF Cardinality(logical) = 1 THEN CHOOSE t \in logical : TRUE ELSE NoId

MergedShape(S) ==
  LET some == CHOOSE s \in S : TRUE
      extents == [axis \in DOMAIN some.extents |->
                    IF \A s \in S : s.extents[axis] = some.extents[axis]
                    THEN some.extents[axis] ELSE DynamicExtent]
  IN  IF S = {some} THEN some
      ELSE IF \E s, t \in S : s # t /\ ~ Comparable(s, t) THEN DynamicRank
      ELSE [some EXCEPT !.extents = extents, !.strides = RebuiltStrides(extents, some.layout)]

Merged(F) ==
  IF F = {} THEN Undefined
  ELSE [defined |-> TRUE, type |-> MergedType({f.type : f \in F}),
        shape |-> MergedShape({f.shape : f \in F})]

(* The verdict is right on every program, normalized or not: a slot is     *)
(* accepted exactly when its contract is the join of everything that can   *)
(* reach it from outside, however the slots depend on one another.         *)
VerdictExact ==
  phase = "judged" =>
    (verdict = "accepted" <=> ~ Broken /\ \A n \in Nodes : Matches(n, Merged(Anchors(n))))

(* What the normalizer wrote is what the verifier finds for itself, also   *)
(* after the shapes have been made contiguous: no lowered program with     *)
(* defined values is refused because of the joins the compiler made.       *)
NormalizedAccepted ==
  phase = "judged" /\ rounds > 0 /\ ~ Broken => verdict = "accepted"

(* The worklist empties and every program gets its verdict.                *)
Terminates == []<>(phase = "judged")
=============================================================================
