----------------------------- MODULE CfgCleanup -----------------------------
(***************************************************************************)
(* The pass "mir-cfg-cleanup": one at a time, the first block that only    *)
(* forwards, or that is empty and unreachable, is taken out and the edges  *)
(* into it are redirected; when none is left the blocks are compacted.     *)
(* Compaction renumbers the blocks, which keep their names here: an id     *)
(* that compaction cannot renumber is one of a block that is not kept.     *)
(***************************************************************************)
EXTENDS MirProgram

VARIABLE kept   \* the blocks not removed yet

Empty(p, b) == p.arguments[b] = <<>> /\ p.code[b] = <<>>

HasHandler(p, b) == p.handler[b] # NoBlock /\ p.handler[b] \in kept

(* Blocks other tables name, and both ends of every exceptional edge.      *)
Structural(p) ==
  p.retained \cup {b \in kept : HasHandler(p, b)}
             \cup {p.handler[b] : b \in {a \in kept : HasHandler(p, a)}}

HasPredecessor(p, b) == \E a \in kept : Flows(p, a, b)

UnreachableEmpty(p, b) ==
  ~ HasPredecessor(p, b) /\ Empty(p, b) /\ p.kind[b] = "unreachable"

(* mutant: A block that branches to itself counts as forwarding.           *)
ForwardingToItself(p, b) ==
  /\ Empty(p, b)
  /\ p.kind[b] = "branch"
  /\ Len(p.next[b]) = 1
  /\ p.actuals[b] = << <<>> >>
  /\ p.next[b][1] \in kept
  /\ p.arguments[p.next[b][1]] = <<>>

(* mutant: An empty block with two successors counts as forwarding.        *)
ForwardingConditional(p, b) ==
  /\ Empty(p, b)
  /\ p.next[b] # <<>>
  /\ p.next[b][1] # b
  /\ p.next[b][1] \in kept
  /\ p.arguments[p.next[b][1]] = <<>>

Forwarding(p, b) ==
  /\ Empty(p, b)
  /\ p.kind[b] = "branch"
  /\ Len(p.next[b]) = 1
  /\ p.actuals[b] = << <<>> >>
  /\ p.next[b][1] # b
  /\ p.next[b][1] \in kept
  /\ p.arguments[p.next[b][1]] = <<>>

Removable(p, b) ==
  /\ b \in kept \ ({p.entry} \cup Structural(p))
  /\ UnreachableEmpty(p, b) \/ Forwarding(p, b)

FirstRemovable(p, b) ==
  Removable(p, b) /\ \A a \in kept : Removable(p, a) => b <= a

(* Every kept predecessor of b goes straight to where b forwards to.       *)
Redirected(p, b) ==
  IF ~ Forwarding(p, b) THEN p.next
  ELSE [a \in p.blocks |->
          IF a \in kept \ {b}
          THEN [i \in DOMAIN p.next[a] |->
                  IF p.next[a][i] = b THEN p.next[b][1] ELSE p.next[a][i]]
          ELSE p.next[a]]

RemoveBlock ==
  /\ pass = "mir-cfg-cleanup"
  /\ \E b \in kept :
       /\ FirstRemovable(program, b)
       /\ program' = [program EXCEPT !.next = Redirected(program, b)]
       /\ kept' = kept \ {b}
  /\ UNCHANGED pass

Compacted(p) ==
  [p EXCEPT
     !.blocks = kept,
     !.arguments = [b \in kept |-> p.arguments[b]],
     !.code = [b \in kept |-> p.code[b]],
     !.kind = [b \in kept |-> p.kind[b]],
     !.tests = [b \in kept |-> p.tests[b]],
     !.next = [b \in kept |-> p.next[b]],
     !.actuals = [b \in kept |-> p.actuals[b]],
     !.handler = [b \in kept |-> p.handler[b]]]

Compact ==
  /\ pass = "mir-cfg-cleanup"
  /\ \A b \in kept : ~ Removable(program, b)
  /\ program' = Compacted(program)
  /\ pass' = "done"
  /\ UNCHANGED kept

CleanupNext == RemoveBlock \/ Compact

-----------------------------------------------------------------------------
(* Compaction never meets the id of a removed block (it reports an error   *)
(* when it does): at every moment of the pass the entry, the blocks other  *)
(* tables name, and every normal and exceptional successor of a kept block *)
(* are themselves kept, whatever was redirected before.                    *)
NothingDangles ==
  /\ program.entry \in kept
  /\ program.retained \subseteq kept
  /\ \A b \in kept :
       /\ \A i \in DOMAIN program.next[b] : program.next[b][i] \in kept
       /\ program.handler[b] \in kept \cup {NoBlock}
=============================================================================
