---------------------------- MODULE CompoundType ----------------------------
(***************************************************************************)
(* CompoundType: the layers of a nested type packed into an integer of     *)
(* Width bits, one bit per layer, with their number and the primitive type *)
(* inside.  It is Copy, compared and hashed by its three fields, so that   *)
(* equal types must have equal representations.                            *)
(*                                                                         *)
(* compound is the type that a caller builds with Type::array and Type::map *)
(* and takes apart with Type::next; type is the same type as the sequence  *)
(* of its layers from the outside, ended by its primitive type.            *)
(***************************************************************************)
EXTENDS Integers, Sequences

CONSTANT Width        \* 32 in the code

ASSUME WidthAssumption == Width \in Nat \ {0}

Pow2[n \in Nat] == IF n = 0 THEN 1 ELSE 2 * Pow2[n - 1]

Primitive == {"Bool", "Bytes", "Int", "Ip"}
Layer     == {"Array", "Map"}

VARIABLES
  compound,   \* [layers, len, primitive]
  type,       \* the type it stands for
  refused     \* whether the last push answered None, where from_type panics

typeVars == <<compound, type, refused>>

New(p) == [layers |-> 0, len |-> 0, primitive |-> p]

TypeInit ==
  /\ \E p \in Primitive : compound = New(p) /\ type = <<p>>
  /\ refused = FALSE

-----------------------------------------------------------------------------
Bit(layer) == IF layer = "Array" THEN 0 ELSE 1

\* push: whether it answers Some, and what: the shift drops the highest bit.
CanPushOneMore(c) == c.len <= Width    \* mutant of CanPush
CanPush(c) == c.len < Width
Pushed(c, layer) ==
  [layers |-> ((2 * c.layers) % Pow2[Width]) + Bit(layer),
   len |-> c.len + 1, primitive |-> c.primitive]

\* pop: what is left, and the layer.
CanPop(c) == c.len > 0
PoppedUnshifted(c) == [c EXCEPT !.len = @ - 1]    \* mutant of Popped
Popped(c) ==
  [layers |-> c.layers \div 2, len |-> c.len - 1, primitive |-> c.primitive]
TopLayer(c) == IF c.layers % 2 = 0 THEN "Array" ELSE "Map"

\* The n-th layer from the outside.
LayerAt(c, n) == IF (c.layers \div Pow2[n - 1]) % 2 = 0 THEN "Array" ELSE "Map"

\* Type::array, Type::map and from_type.
Push(layer) ==
  IF CanPush(compound)
  THEN /\ compound' = Pushed(compound, layer)
       /\ type' = <<layer>> \o type
       /\ refused' = FALSE
  ELSE /\ refused' = TRUE
       /\ UNCHANGED <<compound, type>>

\* into_type and Type::next.
Pop ==
  /\ CanPop(compound)
  /\ compound' = Popped(compound)
  /\ type' = Tail(type)
  /\ refused' = FALSE

TypeNext == (\E layer \in Layer : Push(layer)) \/ Pop
TypeSpec == TypeInit /\ [][TypeNext]_typeVars

-----------------------------------------------------------------------------
\* The representation stands for the type, whatever was pushed and popped: its
\* bits from the lowest are the layers from the outside (types.rs into_type).
Represents ==
  type = [n \in 1..compound.len |-> LayerAt(compound, n)] \o <<compound.primitive>>

\* No bit is set above the layers in use, so that the derived equality, order
\* and hash of two representations are those of the types (types.rs CompoundType).
Canonical == compound.layers < Pow2[compound.len]

\* A push that is not refused is undone by a pop: nothing is shifted out, also
\* at the last bit (types.rs push, pop).
PopUndoesPush ==
  \A layer \in Layer :
    CanPush(compound) =>
      /\ Popped(Pushed(compound, layer)) = compound
      /\ TopLayer(Pushed(compound, layer)) = layer
=============================================================================
