----------------------------- MODULE ValueDomain -----------------------------
(***************************************************************************)
(* The value domain of control-flow joins                                  *)
(* (src/ir/control_value_join_internal.hpp): what is known of the type and *)
(* the shape of a value, and what is left of it where two values meet.     *)
(*                                                                         *)
(* A type is [kind, known, referent]: its kind, whether its value type is  *)
(* known, and for a reference the type referred to.  A shape is            *)
(* [extents, strides, layout, dynamic_rank].  Ids are positions in the     *)
(* tables p.types and p.shapes of a program p; 0 is the invalid id.        *)
(***************************************************************************)
EXTENDS Integers, Sequences

CONSTANT SizeMax   \* the largest std::size_t

ASSUME SizeAssumption == SizeMax \in Nat \ {0}

DynamicExtent == SizeMax

NoId == 0

(* The type an access through a reference sees; none if it is unknown.     *)
LogicalType(types, id) ==
  LET logical == IF id \in DOMAIN types /\ types[id].kind = "reference"
                 THEN types[id].referent ELSE id
  IN  IF logical \in DOMAIN types /\ types[logical].known THEN logical ELSE NoId

-----------------------------------------------------------------------------
(* Strides.                                                                *)

(* The axis visited at an offset, and the offset of an axis.               *)
Axis(rank, layout, offset) ==
  IF layout = "column_major" THEN offset ELSE rank - offset + 1

(* The product, or dynamic where it is unknown or does not fit.            *)
Scaled(stride, extent) ==
  IF \/ extent = DynamicExtent
     \/ stride = DynamicExtent
     \/ extent # 0 /\ stride > SizeMax \div extent
  THEN DynamicExtent ELSE stride * extent

RebuiltStrides(extents, layout) ==
  LET rank == Len(extents)
      stride[offset \in 1..rank] ==
        IF offset = 1 THEN 1
        ELSE Scaled(stride[offset - 1], extents[Axis(rank, layout, offset - 1)])
  IN  [axis \in 1..rank |-> stride[Axis(rank, layout, axis)]]

-----------------------------------------------------------------------------
(* Facts.  NoId as the type of a defined fact is the unknown type: any     *)
(* value, not the absence of one.                                          *)

Undefined ==
  [defined |-> FALSE, type |-> NoId,
   shape |-> [extents |-> <<>>, strides |-> <<>>, layout |-> "row_major",
              dynamic_rank |-> FALSE]]

DynamicRank ==
  [extents |-> <<>>, strides |-> <<>>, layout |-> "row_major", dynamic_rank |-> TRUE]

(* What a contract, a pair of ids, says of a value of the program p.       *)
FactOf(p, contract) ==
  IF contract.type \in DOMAIN p.types /\ contract.shape \in DOMAIN p.shapes
  THEN [defined |-> TRUE,
        type |-> IF LogicalType(p.types, contract.type) = NoId THEN NoId ELSE contract.type,
        shape |-> p.shapes[contract.shape]]
  ELSE Undefined

JoinTypes(types, s, t) ==
  IF s = t THEN s
  ELSE IF LogicalType(types, s) = LogicalType(types, t) THEN LogicalType(types, s)
  ELSE NoId

Comparable(s, t) ==
  /\ ~ s.dynamic_rank /\ ~ t.dynamic_rank
  /\ s.layout = t.layout
  /\ Len(s.extents) = Len(t.extents)

CommonExtents(s, t) ==
  [axis \in DOMAIN s.extents |->
     IF s.extents[axis] = t.extents[axis] THEN s.extents[axis] ELSE DynamicExtent]

JoinShapes(s, t) ==
  IF s = t THEN s
  ELSE IF ~ Comparable(s, t) THEN DynamicRank
  ELSE [s EXCEPT !.extents = CommonExtents(s, t),
                 !.strides = RebuiltStrides(CommonExtents(s, t), s.layout)]

Join(types, left, right) ==
  IF ~ left.defined THEN right
  ELSE IF ~ right.defined THEN left
  ELSE [defined |-> TRUE,
        type |-> JoinTypes(types, left.type, right.type),
        shape |-> JoinShapes(left.shape, right.shape)]
=============================================================================
