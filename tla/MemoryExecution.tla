--------------------------- MODULE MemoryExecution ---------------------------
(***************************************************************************)
(* Executions of a function, after its analysis, to say what the table     *)
(* means.  An execution binds the roots to memory, walks the graph and     *)
(* touches cells; it remembers, of every cell, the last write and the      *)
(* reads since, which are what the next instruction really depends on.     *)
(***************************************************************************)
EXTENDS MemoryDependence

CONSTANT Executed  \* the functions to execute

(* The regions of a verified function are valid, the known ones regions of *)
(* the root that is accessed; the variable of a loop is assigned by the    *)
(* last instruction of a block with two successors.                        *)
Verified(p) ==
  /\ \A site \in AllSites(p) : ~ site.unknown =>
       LET a == Access(p, site)
       IN  /\ valid_storage_region(a.region)
           /\ a.region.kind # "unknown" => a.region.root_shape = p.shape[a.root]
  /\ \A b \in 1 .. p.count : \A k \in DOMAIN p.code[b] :
       p.code[b][k].commits = "entering" => k = Len(p.code[b]) /\ Len(p.next[b]) = 2

ASSUME ExecutedAssumption == Executed \subseteq Programs /\ \A p \in Executed : Verified(p)

VARIABLES
  binding,  \* root -> the root whose memory it stands for
  at,       \* the block being executed, or 0 before the execution
  ip,       \* its next instruction
  live      \* the last writes and the reads since: [cell, site, seen, cycled]

execution == <<binding, at, ip, live>>

allVars == <<vars, execution>>

(* A parameter may stand for any memory of its shape that is not local to  *)
(* the function, or for its own; every other root for its own.             *)
Bindings(p) ==
  {f \in [Roots(p) -> Roots(p)] :
     \A r \in Roots(p) :
       \/ f[r] = r
       \/ /\ p.root_kind[r] = "parameter"
          /\ p.root_kind[f[r]] # "local"
          /\ f[f[r]] = f[r]
          /\ p.shape[f[r]] = p.shape[r]}

RootCells(p, r) == {r} \X Cells(full_storage_region(p.shape[r]))

(* The sets of cells that one evaluation of a site may touch.              *)
Touches(p, site) ==
  IF site.unknown THEN {{c} : c \in UNION {RootCells(p, binding[r]) : r \in Roots(p)}}
  ELSE LET a == Access(p, site)
       IN  IF a.region.kind = "unknown" THEN {{c} : c \in RootCells(p, binding[a.root])}
           ELSE {{binding[a.root]} \X Cells(a.region)}

(* An evaluation of an instruction: the cells of each of its sites.        *)
Evaluations(p, b, k) ==
  {f \in [AccessSites(p, b, k) -> UNION {Touches(p, s) : s \in AccessSites(p, b, k)}] :
     \A s \in AccessSites(p, b, k) : f[s] \in Touches(p, s)}

ReadCells(f) == UNION {f[s] : s \in {t \in DOMAIN f : Reads(t.mode)}}
WrittenCells(f) == UNION {f[s] : s \in {t \in DOMAIN f : Writes(t.mode)}}

Record(f, role, s, c) ==
  [cell |-> c, site |-> s, role |-> role, seen |-> {at}, cycled |-> FALSE]

NewReads(f) ==
  UNION {{Record(f, "read", s, c) : c \in f[s]} : s \in {t \in DOMAIN f : Reads(t.mode)}}
NewWrites(f) ==
  UNION {{Record(f, "write", s, c) : c \in f[s]} : s \in {t \in DOMAIN f : Writes(t.mode)}}

(* The records once the reads, and once the whole evaluation, took place.  *)
AfterReads(f) == live \cup NewReads(f)
AfterWrites(f) ==
  {r \in AfterReads(f) : r.cell \notin WrittenCells(f)} \cup NewWrites(f)

(* A record crosses an edge into block b: it has gone around a cycle once  *)
(* a block shows up twice.                                                 *)
Carried(r, b) ==
  IF r.cycled \/ b \in r.seen THEN [r EXCEPT !.cycled = TRUE, !.seen = {}]
  ELSE [r EXCEPT !.seen = @ \cup {b}]

Enter(b, records) ==
  /\ at' = b
  /\ ip' = 1
  /\ live' = {Carried(r, b) : r \in records}
  /\ UNCHANGED <<vars, binding>>

-----------------------------------------------------------------------------

ExecInit == Init /\ binding = <<>> /\ at = 0 /\ ip = 1 /\ live = {}

Analyse == Next /\ UNCHANGED execution

Start ==
  /\ complete /\ at = 0 /\ program \in Executed
  /\ binding' \in Bindings(program)
  /\ at' = 1 /\ ip' = 1 /\ live' = {}
  /\ UNCHANGED vars

Code == program.code[at]

Running == at # 0 /\ ip \in DOMAIN Code

(* The instruction completes; its writes too, unless it makes them only    *)
(* sometimes.                                                              *)
Commit ==
  /\ Running
  /\ Code[ip].commits # "entering"
  /\ \E f \in Evaluations(program, at, ip) :
       \/ live' = AfterWrites(f)
       \/ Code[ip].commits = "sometimes" /\ live' = AfterReads(f)
  /\ ip' = ip + 1
  /\ UNCHANGED <<vars, binding, at>>

(* The last instruction of a loop header and its branch: the variable is   *)
(* assigned when the body is entered, and only then.                       *)
Iterate ==
  /\ Running
  /\ Code[ip].commits = "entering"
  /\ \E f \in Evaluations(program, at, ip) :
       \/ Enter(program.next[at][1], AfterWrites(f))
       \/ Enter(program.next[at][2], AfterReads(f))

(* The instruction fails: it has read, and has not written.                *)
Fail ==
  /\ Running
  /\ Code[ip].mayFail
  /\ program.handler[at] # 0
  /\ \E f \in Evaluations(program, at, ip) :
       Enter(program.handler[at], AfterReads(f))

Branch ==
  /\ at # 0
  /\ ip = Len(Code) + 1
  /\ \E k \in DOMAIN program.next[at] : Enter(program.next[at][k], live)

ExecNext == Analyse \/ Start \/ Commit \/ Iterate \/ Fail \/ Branch

ExecSpec == ExecInit /\ [][ExecNext]_allVars /\ WF_allVars(Analyse)

-----------------------------------------------------------------------------

(* What the next instruction depends on, whatever cells it touches.        *)
Hazards ==
  UNION {UNION {
    {[source |-> r.site, target |-> s, kind |-> "flow", cycled |-> r.cycled] :
       r \in {x \in live : x.role = "write" /\ Reads(s.mode) /\ x.cell \in f[s]}}
    \cup
    {[source |-> r.site, target |-> s,
      kind |-> IF r.role = "write" THEN "output" ELSE "anti", cycled |-> r.cycled] :
       r \in {x \in live : Writes(s.mode) /\ x.cell \in f[s]}} :
    s \in DOMAIN f} : f \in Evaluations(program, at, ip)}

(* Every dependence of every execution is in the table, and those that go  *)
(* around a loop are marked: through kills, skipped reads, parameters that *)
(* share memory, unknown memory and irreducible loops.                     *)
NoDependenceLost ==
  Running => \A h \in Hazards :
    \E d \in dependences : /\ SameKey(d, h)
                           /\ h.cycled => d.loop_carried

(* Every write takes place when its instruction is executed, and a block   *)
(* that may fail half way writes nothing.                                  *)
CertainWrites(p) ==
  \A b \in DOMAIN p.code : \A k \in DOMAIN p.code[b] :
    /\ p.code[b][k].commits = "always"
    /\ p.handler[b] # 0 =>
         \A n \in DOMAIN p.code[b][k].accesses : ~Writes(p.code[b][k].accesses[n].mode)

(* The same for functions without an uncertain write; for the others see   *)
(* OrderKept.                                                              *)
NoDependenceLostIfCertain == CertainWrites(program) => NoDependenceLost

Follows(I) ==
  I \cup {d.target.instruction : d \in {e \in dependences : e.source.instruction \in I}}

(* The instructions that the table orders after instruction i.             *)
OrderedAfter(i) ==
  LET n == Cardinality({s.instruction : s \in AllSites(program)})
      reach[k \in 0 .. n] ==
        IF k = 0
        THEN {d.target.instruction : d \in {e \in dependences : e.source.instruction = i}}
        ELSE Follows(reach[k - 1])
  IN  reach[n]

(* Even where a kill hides a dependence, a chain of dependences still      *)
(* orders the two instructions: the access that killed is in between.  (No *)
(* kill does where all writes are certain: there NoDependenceLost holds.)  *)
OrderKept ==
  Running /\ ~CertainWrites(program) => \A h \in Hazards :
    h.target.instruction \in OrderedAfter(h.source.instruction)

-----------------------------------------------------------------------------
(* The comparisons of regions the table rests on, judged by the elements.  *)
(* The two regions may be any: the tables are not verified yet, so one may *)
(* be what valid_storage_region rejects.                                   *)

ComparedRegions ==
  {<<Access(program, s), Access(program, t)>> :
     s \in {x \in AllSites(program) : ~ x.unknown}, t \in {x \in AllSites(program) : ~ x.unknown}}

BeyondLimit(l, r) == l.count > EnumerationLimit /\ r.count > EnumerationLimit

(* Every answer is true of the elements: "disjoint", by residues, by       *)
(* enumeration or by axes, drops the dependence of two accesses;           *)
(* "identical" is the licence to kill the earlier one; and "overlaps" is   *)
(* exact up to the length of the progressions that are enumerated.         *)
AnswersTrue ==
  complete /\ at = 0 =>
    \A pair \in ComparedRegions :
      LET left == pair[1].region
          right == pair[2].region
          answer == storage_region_relation(left, right)
      IN  /\ answer = "disjoint" => Cells(left) \cap Cells(right) = {}
          /\ answer = "identical" => Cells(left) = Cells(right) /\ Cells(left) # {}
          /\ answer = "overlaps" =>
               \/ Cells(left) \cap Cells(right) # {}
               \/ \E i \in DOMAIN left.dimensions :
                    BeyondLimit(left.dimensions[i], right.dimensions[i])
=============================================================================
