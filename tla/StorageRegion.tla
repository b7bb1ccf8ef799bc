---------------------------- MODULE StorageRegion ----------------------------
(***************************************************************************)
(* Storage regions (src/ir/storage_region.cpp): which elements of a root   *)
(* storage an access may touch.  A dimension is an arithmetic progression  *)
(* [first, stride, count]; a region is a record                            *)
(*   kind        "unknown", "rectangular" or "linearized"                  *)
(*   root_shape  the extents of the root                                   *)
(*   dimensions  one dimension per axis of the root, or a single one over  *)
(*               its elements in column-major order (linearized)           *)
(***************************************************************************)
EXTENDS Integers, Sequences

CONSTANTS
  SizeMax,          \* the largest std::size_t
  EnumerationLimit  \* exact_enumeration_limit

ASSUME SizeAssumption == SizeMax \in Nat \ {0} /\ EnumerationLimit \in Nat

DynamicExtent == SizeMax

Size == 0 .. SizeMax

Dimensions == [first : Size, stride : Size, count : Size]

(* The elements of a dimension, in unbounded arithmetic.                   *)
Elements(d) == {d.first + k * d.stride : k \in 0 .. d.count - 1}

Last(d) == IF d.count = 0 THEN d.first ELSE d.first + (d.count - 1) * d.stride

(* checked_last succeeds, and then returns Last(d): the stride is not zero *)
(* and the last element does not overflow.                                 *)
HasLast(d) ==
  /\ d.stride # 0
  /\ d.count > 1 => d.stride <= (SizeMax - d.first) \div (d.count - 1)

Contains(d, value) ==
  /\ d.count # 0
  /\ value >= d.first
  /\ HasLast(d)
  /\ value <= Last(d)
  /\ (value - d.first) % d.stride = 0

Divides(g, n) == n % g = 0

Gcd(m, n) ==
  CHOOSE g \in 1 .. m : /\ Divides(g, m) /\ Divides(g, n)
                        /\ \A h \in g + 1 .. m : ~ (Divides(h, m) /\ Divides(h, n))

Distance(m, n) == IF m >= n THEN m - n ELSE n - m

(* mutant: the residue is taken modulo the stride of one side only.        *)
ResiduesDifferLeft(left, right) ==
  Distance(left.first, right.first) % left.stride # 0

(* The progressions never meet, whatever their lengths.                    *)
ResiduesDiffer(left, right) ==
  Distance(left.first, right.first) % Gcd(left.stride, right.stride) # 0

(* The shorter progression is enumerated.                                  *)
NoneCommon(smaller, larger) ==
  \A k \in 0 .. smaller.count - 1 : ~ Contains(larger, smaller.first + k * smaller.stride)

DimensionsDisjoint(left, right) ==
  \/ left.count = 0 \/ right.count = 0
  \/ /\ HasLast(left) /\ HasLast(right)
     /\ \/ Last(left) < right.first \/ Last(right) < left.first
        \/ left.count = 1 /\ ~ Contains(right, left.first)
        \/ left.count # 1 /\ right.count = 1 /\ ~ Contains(left, right.first)
        \/ /\ left.count # 1 /\ right.count # 1
           /\ LET smaller == IF right.count < left.count THEN right ELSE left
                  larger == IF right.count < left.count THEN left ELSE right
              IN  \/ ResiduesDiffer(left, right)
                  \/ smaller.count <= EnumerationLimit /\ NoneCommon(smaller, larger)

-----------------------------------------------------------------------------

UnknownRegion == [kind |-> "unknown", root_shape |-> <<>>, dimensions |-> <<>>]

full_storage_region(shape) ==
  IF \E i \in DOMAIN shape : shape[i] = DynamicExtent
  THEN UnknownRegion
  ELSE [kind |-> "rectangular", root_shape |-> shape,
        dimensions |-> [i \in DOMAIN shape |->
                          [first |-> 0, stride |-> 1, count |-> shape[i]]]]

(* The number of elements, one extent after the other: f[n] is the product *)
(* of the first n, or -1 once it has overflowed.                           *)
ElementCount(shape) ==
  LET f[n \in 0 .. Len(shape)] ==
        IF n = 0 THEN 1
        ELSE IF f[n - 1] = -1 \/ shape[n] = DynamicExtent
                \/ (shape[n] # 0 /\ f[n - 1] > SizeMax \div shape[n]) THEN -1
        ELSE f[n - 1] * shape[n]
  IN  f[Len(shape)]

ValidRectangle(r) ==
  /\ Len(r.dimensions) = Len(r.root_shape)
  /\ \A i \in DOMAIN r.dimensions :
       /\ HasLast(r.dimensions[i])
       /\ r.dimensions[i].count # 0 => Last(r.dimensions[i]) < r.root_shape[i]

ValidProgression(r) ==
  /\ Len(r.dimensions) = 1
  /\ Len(r.root_shape) >= 2
  /\ ElementCount(r.root_shape) # -1
  /\ HasLast(r.dimensions[1])
  /\ r.dimensions[1].count # 0 => Last(r.dimensions[1]) < ElementCount(r.root_shape)

valid_storage_region(r) ==
  IF r.kind = "unknown" THEN r = UnknownRegion
  ELSE /\ \A i \in DOMAIN r.root_shape : r.root_shape[i] # DynamicExtent
       /\ IF r.kind = "rectangular" THEN ValidRectangle(r) ELSE ValidProgression(r)

(* mutant: every axis has to be empty.                                     *)
EmptyIfAll(r) ==
  r.kind # "unknown" /\ \A i \in DOMAIN r.dimensions : r.dimensions[i].count = 0

empty_storage_region(r) ==
  r.kind # "unknown" /\ \E i \in DOMAIN r.dimensions : r.dimensions[i].count = 0

(* Regions that say nothing of each other.                                 *)
Incomparable(left, right) ==
  \/ ~ valid_storage_region(left) \/ ~ valid_storage_region(right)
  \/ left.kind = "unknown" \/ right.kind = "unknown"
  \/ left.kind # right.kind
  \/ left.root_shape # right.root_shape
  \/ Len(left.dimensions) # Len(right.dimensions)

(* mutant: the dimensions after the first are not compared.                *)
RelationOfFirst(left, right) ==
  IF Incomparable(left, right) THEN "unknown"
  ELSE IF empty_storage_region(left) \/ empty_storage_region(right) THEN "disjoint"
  ELSE IF left = right THEN "identical"
  ELSE IF left.dimensions # <<>> /\ DimensionsDisjoint(left.dimensions[1], right.dimensions[1])
  THEN "disjoint" ELSE "overlaps"

storage_region_relation(left, right) ==
  IF Incomparable(left, right) THEN "unknown"
  ELSE IF empty_storage_region(left) \/ empty_storage_region(right) THEN "disjoint"
  ELSE IF left = right THEN "identical"
  ELSE IF \E i \in DOMAIN left.dimensions :
            DimensionsDisjoint(left.dimensions[i], right.dimensions[i]) THEN "disjoint"
  ELSE "overlaps"

-----------------------------------------------------------------------------
(* What a region means: the set of the elements of the root it names, each *)
(* a tuple of subscripts.                                                  *)

Regions ==
  [kind : {"unknown", "rectangular", "linearized"}, root_shape : Seq(Size),
   dimensions : Seq(Dimensions)]

Rectangle(r) ==
  {e \in [DOMAIN r.dimensions -> Size] :
     \A i \in DOMAIN r.dimensions : e[i] \in Elements(r.dimensions[i])}

(* The elements before the first one with a subscript 1 on axis n + 1.     *)
Weight(shape) ==
  LET w[n \in 0 .. Len(shape)] == IF n = 0 THEN 1 ELSE w[n - 1] * shape[n]
  IN  w

(* The place of an element in column-major order.                          *)
Offset(shape, e) ==
  LET f[n \in 0 .. Len(shape)] ==
        IF n = 0 THEN 0 ELSE f[n - 1] + e[n] * Weight(shape)[n - 1]
  IN  f[Len(shape)]

Progression(r) ==
  {e \in Rectangle(full_storage_region(r.root_shape)) :
     Offset(r.root_shape, e) \in Elements(r.dimensions[1])}

Cells(r) == IF r.kind = "rectangular" THEN Rectangle(r) ELSE Progression(r)
=============================================================================
