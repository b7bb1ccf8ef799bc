--------------------------- MODULE CopyPropagation ---------------------------
(***************************************************************************)
(* The pass "mir-copy-propagation": a block argument with a storage        *)
(* identity, all of whose incoming edges pass one and the same value, is   *)
(* replaced by that value.  A candidate is one such argument; the worklist *)
(* looks at the candidates, and each replacement wakes the candidates that *)
(* are passed the value replaced.  Arguments and edges keep their          *)
(* positions until the worklist is empty and are then compacted at once.   *)
(***************************************************************************)
EXTENDS MirProgram, SequencesExt

VARIABLES
  candidates,    \* the inventory: value, inputs and compatibility of each
  users,         \* for each value, the candidates it is passed to
  worklist, cursor, queued,
  removed,       \* the candidates replaced
  substitution   \* replaced value -> a value it is equal to

copyVars == <<candidates, users, worklist, cursor, queued, removed, substitution>>

-----------------------------------------------------------------------------
(* The elements of a sequence at some of its positions, in their order.    *)

InOrder(n, positions) ==
  LET chosen[k \in 0..n] ==
        IF k = 0 THEN <<>>
        ELSE IF k \in positions THEN Append(chosen[k - 1], k) ELSE chosen[k - 1]
  IN  chosen[n]

At(seq, positions) ==
  LET order == InOrder(Len(seq), positions) IN [n \in DOMAIN order |-> seq[order[n]]]

-----------------------------------------------------------------------------
(* The inventory.                                                          *)

(* The edges in the order of their blocks (1, 2, ...) and successors.      *)
EdgeList(p) ==
  FlattenSeq([b \in 1..Cardinality(p.blocks) |-> [i \in DOMAIN p.next[b] |-> <<b, i>>]])

Target(p, e) == p.next[e[1]][e[2]]

Incoming(p, b) ==
  At(EdgeList(p), {n \in DOMAIN EdgeList(p) : Target(p, EdgeList(p)[n]) = b})

Actuals(p, e) == p.actuals[e[1]][e[2]]

Candidate(p, b, k) ==
  LET edges == Incoming(p, b)
      complete == {n \in DOMAIN edges : k \in DOMAIN Actuals(p, edges[n])}
      passing == At(edges, complete)
  IN  [value |-> p.arguments[b][k],
       inputs |-> [n \in DOMAIN passing |-> Actuals(p, passing[n])[k]],
       compatible |-> complete = DOMAIN edges]

(* The arguments of a block, the last first.                               *)
Slots(p, b) == Reverse([k \in DOMAIN p.arguments[b] |-> <<b, k>>])

(* mutant: Arguments without storage are candidates too.                   *)
PositionsWithoutStorage(p) ==
  FlattenSeq([b \in 1..Cardinality(p.blocks) |-> Slots(p, b)])

Positions(p) ==
  FlattenSeq([b \in 1..Cardinality(p.blocks) |->
    At(Slots(p, b), {n \in DOMAIN Slots(p, b) : p.arguments[b][Slots(p, b)[n][2]] \in p.stored})])

Candidates(p) ==
  LET at == Positions(p) IN [c \in DOMAIN at |-> Candidate(p, at[c][1], at[c][2])]

UsersOf(list, v) ==
  FlattenSeq([c \in DOMAIN list |->
    At([n \in DOMAIN list[c].inputs |-> c],
       {n \in DOMAIN list[c].inputs : list[c].inputs[n] = v})])

-----------------------------------------------------------------------------
(* Substitutions, with path compression.                                   *)

Resolve(s, v) ==
  LET last[w \in Values] == IF w \in DOMAIN s THEN last[s[w]] ELSE w IN last[v]

Passed(s, v) ==
  LET on[w \in Values] == IF w \in DOMAIN s THEN {w} \cup on[s[w]] ELSE {} IN on[v]

(* After looking up the values V each value passed leads to its end.       *)
Compressed(s, V) ==
  [w \in DOMAIN s |-> IF \E v \in V : w \in Passed(s, v) THEN Resolve(s, w) ELSE s[w]]

Substituted(s, seq) == [k \in DOMAIN seq |-> Resolve(s, seq[k])]

-----------------------------------------------------------------------------
CopyInit ==
  /\ candidates = Candidates(program)
  /\ users = [v \in Values |-> UsersOf(candidates, v)]
  /\ worklist = [c \in DOMAIN candidates |-> c]
  /\ cursor = 1
  /\ queued = DOMAIN candidates
  /\ removed = {}
  /\ substitution = <<>>

Current == worklist[cursor]

Representative(c) == Resolve(substitution, candidates[c].inputs[1])

Agrees(c, k) == Resolve(substitution, candidates[c].inputs[k]) = Representative(c)

Open(c) ==
  c \notin removed /\ candidates[c].compatible /\ candidates[c].inputs # <<>>

Replaceable(c) ==
  /\ Open(c)
  /\ Representative(c) # candidates[c].value
  /\ \A k \in DOMAIN candidates[c].inputs : Agrees(c, k)

(* The inputs the loop resolves: the first, then on until one disagrees.   *)
LookedUp(c) ==
  {candidates[c].inputs[k] : k \in
     {k \in DOMAIN candidates[c].inputs :
        /\ Open(c)
        /\ k > 1 => Representative(c) # candidates[c].value
        /\ \A j \in 1..(k - 1) : Agrees(c, j)}}

(* The substitutions after those look-ups.                                 *)
Looked == Compressed(substitution, LookedUp(Current))

Keep ==
  /\ pass = "mir-copy-propagation"
  /\ cursor <= Len(worklist)
  /\ ~ Replaceable(Current)
  /\ substitution' = Looked
  /\ queued' = queued \ {Current}
  /\ cursor' = cursor + 1
  /\ UNCHANGED <<program, pass, candidates, users, worklist, removed>>

(* The dependents of the replaced value that are still candidates, and     *)
(* those of them not already queued, each once.                            *)
Dependents(c) ==
  LET all == users[candidates[c].value]
  IN  At(all, {n \in DOMAIN all : all[n] \notin removed \cup {c}})

(* mutant: Nothing is woken when a value is replaced.                      *)
WokenNone(c) == <<>>

Woken(c) ==
  LET dependents == Dependents(c)
  IN  At(dependents, {n \in DOMAIN dependents :
                        /\ dependents[n] \notin queued \ {c}
                        /\ \A m \in 1..(n - 1) : dependents[m] # dependents[n]})

Replace ==
  /\ pass = "mir-copy-propagation"
  /\ cursor <= Len(worklist)
  /\ Replaceable(Current)
  /\ LET c == Current
         v == candidates[c].value
         common == Representative(c)
     IN  /\ removed' = removed \cup {c}
         /\ substitution' = [w \in DOMAIN Looked \cup {v} |->
                              IF w \in DOMAIN Looked THEN Looked[w] ELSE common]
         /\ users' = [users EXCEPT ![v] = <<>>, ![common] = @ \o Dependents(c)]
         /\ worklist' = worklist \o Woken(c)
         /\ queued' = (queued \ {c}) \cup Range(Woken(c))
  /\ cursor' = cursor + 1
  /\ UNCHANGED <<program, pass, candidates>>

-----------------------------------------------------------------------------
(* Compaction and rewriting.                                               *)

Surviving(p, s, b) == {k \in DOMAIN p.arguments[b] : p.arguments[b][k] \notin DOMAIN s}

(* mutant: as many values as were replaced are dropped at the end.         *)
EdgeValuesInFront(p, s, b, i) ==
  LET gone == DOMAIN p.arguments[p.next[b][i]] \ Surviving(p, s, p.next[b][i])
  IN  Substituted(s, SubSeq(p.actuals[b][i], 1, Len(p.actuals[b][i]) - Cardinality(gone)))

EdgeValues(p, s, b, i) ==
  LET gone == DOMAIN p.arguments[p.next[b][i]] \ Surviving(p, s, p.next[b][i])
  IN  Substituted(s, At(p.actuals[b][i], DOMAIN p.actuals[b][i] \ gone))

Propagated(p, s) ==
  [p EXCEPT
     !.arguments = [b \in p.blocks |-> At(p.arguments[b], Surviving(p, s, b))],
     !.actuals = [b \in p.blocks |-> [i \in DOMAIN p.actuals[b] |-> EdgeValues(p, s, b, i)]],
     !.tests = [b \in p.blocks |-> Substituted(s, p.tests[b])],
     !.code = [b \in p.blocks |->
                 [k \in DOMAIN p.code[b] |->
                    [p.code[b][k] EXCEPT !.reads = Substituted(s, @)]]],
     !.provenance = Substituted(s, @)]

Propagate ==
  /\ pass = "mir-copy-propagation"
  /\ cursor > Len(worklist)
  /\ program' = IF substitution = <<>> THEN program ELSE Propagated(program, substitution)
  /\ pass' = "mir-cfg-cleanup"
  /\ UNCHANGED copyVars

CopyNext == Keep \/ Replace \/ Propagate

-----------------------------------------------------------------------------
(* The pass leaves nothing to a second application: no argument with       *)
(* storage is passed one single other value on all its edges.  (Wrong      *)
(* wake-ups or lost users leave some.)                                     *)
PropagationComplete ==
  pass # "mir-copy-propagation" =>
    \A b \in program.blocks : \A k \in DOMAIN program.arguments[b] :
      LET inputs == {Actuals(program, e)[k] : e \in {f \in Edges(program) : Target(program, f) = b}}
      IN  program.arguments[b][k] \in program.stored =>
            ~ \E v \in Values \ {program.arguments[b][k]} : inputs = {v}
=============================================================================
