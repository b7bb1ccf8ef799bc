----------------------------- MODULE MemoryFlow -----------------------------
(***************************************************************************)
(* One lowered function as the memory-dependence analysis                  *)
(* (src/ir/memory_dependence.cpp) sees it: its control-flow graph and, for *)
(* every instruction, the accesses that the alias and effect table records.*)
(*                                                                         *)
(* A program p is a record with                                            *)
(*   p.count, p.next[b], p.handler[b]  blocks 1 .. count, the successors   *)
(*                 of their terminators, their exception handlers (or 0)   *)
(*   p.successors  the edges of the function graph, handlers included      *)
(*   p.root_kind[r], p.shape[r]  the root storages: "local", "parameter"   *)
(*                 or "global", and their extents                          *)
(*   p.code[b]     the instructions of b: their accesses, the mode of      *)
(*                 their access to unknown memory, whether they may fail,  *)
(*                 and when their writes are carried out                   *)
(***************************************************************************)
EXTENDS StorageRegion, FiniteSets

Writes(mode) == mode \in {"write", "read_write"}
Reads(mode) == mode \in {"read", "read_write"}

(* commits: the writes of an instruction happen every time, or only        *)
(* sometimes (a call whose callee writes on some paths), or only when the  *)
(* branch that follows enters its first successor (the variable of a loop).*)
Instruction(accesses, unknown, mayFail, commits) ==
  [accesses |-> accesses, unknown |-> unknown, mayFail |-> mayFail, commits |-> commits]

(* The edges of the graph: successors and handler, sorted, each once.      *)
GraphEdges(p, b) ==
  {p.next[b][j] : j \in DOMAIN p.next[b]}
    \cup (IF p.handler[b] = 0 THEN {} ELSE {p.handler[b]})

Roots(p) == DOMAIN p.root_kind

Modes == {"read", "write", "read_write"}

Instructions(p) ==
  [accesses : Seq([root : Roots(p), region : Regions, mode : Modes]),
   unknown : Modes \cup {"none"}, mayFail : BOOLEAN,
   commits : {"always", "sometimes", "entering"}]

WellFormed(p) ==
  /\ p.count \in Nat \ {0}
  /\ p.next \in [1 .. p.count -> Seq(1 .. p.count)]
  /\ p.handler \in [1 .. p.count -> 0 .. p.count]
  /\ p.successors \in [1 .. p.count -> Seq(1 .. p.count)]
  /\ \A b \in 1 .. p.count :
       /\ {p.successors[b][k] : k \in DOMAIN p.successors[b]} = GraphEdges(p, b)
       /\ \A j, k \in DOMAIN p.successors[b] :
            j < k => p.successors[b][j] < p.successors[b][k]
  /\ p.code \in [1 .. p.count -> Seq(Instructions(p))]
  /\ \A r \in Roots(p) : p.shape[r] \in Seq(Size)

-----------------------------------------------------------------------------
(* Access sites: the recorded accesses of an instruction, and one more     *)
(* when it may touch memory that nobody knows.                             *)

KnownSite(b, k, i, mode) ==
  [instruction |-> <<b, k>>, ordinal |-> i, mode |-> mode, unknown |-> FALSE]

UnknownSite(b, k, mode) ==
  [instruction |-> <<b, k>>, ordinal |-> 0, mode |-> mode, unknown |-> TRUE]

AccessSites(p, b, k) ==
  LET i == p.code[b][k]
  IN  {KnownSite(b, k, n, i.accesses[n].mode) : n \in DOMAIN i.accesses}
        \cup (IF i.unknown = "none" THEN {} ELSE {UnknownSite(b, k, i.unknown)})

AllSites(p) ==
  UNION {UNION {AccessSites(p, b, k) : k \in DOMAIN p.code[b]} : b \in 1 .. p.count}

Access(p, site) ==
  p.code[site.instruction[1]][site.instruction[2]].accesses[site.ordinal]

(* alias_between: by region within one root, by kind between two.          *)
alias_between(p, left, right) ==
  IF left.root = right.root
  THEN CASE storage_region_relation(left.region, right.region) = "disjoint"  -> "no_alias"
         [] storage_region_relation(left.region, right.region) = "identical" -> "must_alias"
         [] OTHER -> "may_alias"
  ELSE IF "parameter" \in {p.root_kind[left.root], p.root_kind[right.root]}
       THEN "may_alias" ELSE "no_alias"

SiteRelation(p, left, right) ==
  IF left.unknown \/ right.unknown THEN "may_alias"
  ELSE alias_between(p, Access(p, left), Access(p, right))

WritesEntireRoot(p, site) ==
  /\ Writes(site.mode)
  /\ ~ site.unknown
  /\ Access(p, site).region = full_storage_region(Access(p, site).region.root_shape)

(* A scalar of a known type and a root with extents cannot share memory.   *)
ScalarAggregateDisjoint(p, left, right) ==
  /\ ~ left.unknown /\ ~ right.unknown
  /\ (p.shape[Access(p, left).root] = <<>>) # (p.shape[Access(p, right).root] = <<>>)

(* mutant: writes to other roots are not looked at.                        *)
RetainedSameRoot(p, site) ==
  \/ Writes(site.mode)
  \/ \E write \in AllSites(p) :
       /\ Writes(write.mode)
       /\ ~ site.unknown /\ ~ write.unknown
       /\ Access(p, site).root = Access(p, write).root
       /\ SiteRelation(p, site, write) # "no_alias"

(* build_access_policy: a read is kept in the frontier only when some      *)
(* write of the function can touch the same memory.                        *)
Retained(p, site) ==
  \/ Writes(site.mode)
  \/ /\ Reads(site.mode)
     /\ \E write \in AllSites(p) :
          /\ Writes(write.mode)
          /\ ~ ScalarAggregateDisjoint(p, site, write)
          /\ SiteRelation(p, site, write) # "no_alias"
=============================================================================
