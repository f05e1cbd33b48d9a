---------------------------- MODULE MCLuaNumbers ----------------------------
(***************************************************************************)
(* The comparison bytecodes with an int32 operand: the int32 One32 holds   *)
(* 1, beside the integral doubles -1 .. 1, NaN, nil and a string.  The     *)
(* other LuaNumbers properties are checked in MCHelpers, on doubles.       *)
(***************************************************************************)
EXTENDS LuaNumbers

CONSTANTS Nil, Str, One32

MCInts == -1 .. 1
MCOthers == {Nil, Str}
MCInt32s == {One32}
MCInt32Payload == [i \in {One32} |-> 1]

=============================================================================
