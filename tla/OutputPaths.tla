---------------------------- MODULE OutputPaths ----------------------------
(***************************************************************************)
(* What the output-assignment analysis promises, whatever the algorithm:   *)
(* a table that only ever grows and that never holds a value no execution  *)
(* gives the output at that point.                                         *)
(***************************************************************************)
EXTENDS ProgramFlow

CONSTANT Reach   \* Reach[p]: the states the executions of p go through

VARIABLES program, rows

pathVars == <<program, rows>>

Table(p) == [Points(p) -> [p.outputs -> SUBSET Value]]

Promised(p) ==
  [pt \in Points(p) |-> [o \in p.outputs |-> Collected(p, Reach[p], pt, o)]]

Below(p, smaller, larger) ==
  \A pt \in Points(p) : \A o \in p.outputs : smaller[pt][o] \subseteq larger[pt][o]

PathInit ==
  /\ program \in Programs
  /\ rows \in Table(program)
  /\ Below(program, rows, Promised(program))

Collect ==
  /\ rows' \in Table(program)
  /\ Below(program, rows, rows')
  /\ Below(program, rows', Promised(program))
  /\ UNCHANGED program

PathSpec == PathInit /\ [][Collect]_pathVars
=============================================================================
