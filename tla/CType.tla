-------------------------------- MODULE CType --------------------------------
(***************************************************************************)
(* The type of a field as a C program describes it: CType, a struct of the *)
(* C interface that packs the layers of a nested type as CompoundType does *)
(* and that a program wraps in one layer after another before it declares  *)
(* a field or a list with it.  Declaring reads it into a Type.             *)
(*                                                                         *)
(* A Type is one layer around a CompoundType, so that it has at most       *)
(* Width + 1 of them; CType counts any number of them in a byte.  Reading a *)
(* CType of more panics, which is beyond the bound MaxLayers.              *)
(***************************************************************************)
EXTENDS CompoundType

CONSTANT MaxLayers    \* bound on the layers, where declaring still returns

ASSUME MaxLayersAssumption == MaxLayers \in 1..Width + 1

VARIABLES
  ctype,   \* the struct
  meant    \* the layers it was wrapped in, from the outside, and its primitive

ctypeVars == <<ctype, meant>>

CTypeStruct == [layers : Nat, len : Nat, primitive : Primitive]
Types       == {t \in Seq(Layer \cup Primitive) : t # << >>}

\* wirefilter_create_primitive_type.
CreatePrimitiveType(p) == [layers |-> 0, len |-> 0, primitive |-> p]

CTypeInit ==
  \E p \in Primitive : ctype = CreatePrimitiveType(p) /\ meant = <<p>>

-----------------------------------------------------------------------------
\* Mutant of CPush: each layer goes above the ones it is wrapped around.
CPushAbove(c, layer) ==
  [layers |-> (c.layers + Bit(layer) * Pow2[c.len]) % Pow2[Width],
   len |-> c.len + 1, primitive |-> c.primitive]

\* CType::push: the shift drops the highest bit, and nothing refuses it.
CPush(c, layer) ==
  [layers |-> ((2 * c.layers) % Pow2[Width]) + Bit(layer),
   len |-> c.len + 1, primitive |-> c.primitive]

\* CType::pop of a struct with layers.
CTopLayer(c) == IF c.layers % 2 = 0 THEN "Array" ELSE "Map"
CPopped(c) ==
  [layers |-> c.layers \div 2, len |-> c.len - 1, primitive |-> c.primitive]

\* From<CType> for Type.
TypeFrom[c \in CTypeStruct] ==
  IF c.len = 0 THEN <<c.primitive>>
  ELSE <<CTopLayer(c)>> \o TypeFrom[CPopped(c)]

\* From<Type> for CType.
CTypeFrom[t \in Types] ==
  IF Len(t) = 1 THEN CreatePrimitiveType(t[1])
  ELSE CPush(CTypeFrom[Tail(t)], Head(t))

\* wirefilter_create_array_type, wirefilter_create_map_type.
CreateType(layer) ==
  /\ ctype.len < MaxLayers
  /\ ctype' = CPush(ctype, layer)
  /\ meant' = <<layer>> \o meant

CTypeNext == \E layer \in Layer : CreateType(layer)
CTypeSpec == CTypeInit /\ [][CTypeNext]_ctypeVars

-----------------------------------------------------------------------------
\* A type of at most Width layers is declared as the C program wrapped it, and is
\* described to C as the program would describe it: the two packings, written
\* twice, agree on the order of the layers and on each bit.  Of a type with
\* one layer more only the innermost is lost (lib.rs CType).
TypesCrossC ==
  /\ ctype.len <= Width => TypeFrom[ctype] = meant /\ CTypeFrom[meant] = ctype
  /\ \A n \in 1..Width : n <= ctype.len => TypeFrom[ctype][n] = meant[n]
=============================================================================
