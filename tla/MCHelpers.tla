------------------------------ MODULE MCHelpers ------------------------------
(***************************************************************************)
(* Five independent parts checked side by side in one run: the            *)
(* arithmetic and comparison bytecodes (LuaNumbers), hash_functions.h     *)
(* (Hashing), the variadic tail-call snippet (VariadicTailCall), the     *)
(* stencil creator's shared constant data objects                      *)
(* (StencilConstantData) and DesugarUpToExcluding (Desugaring).  They     *)
(* share no state, so instead of their product the run explores each      *)
(* from all of its initial states while the others stay in one fixed      *)
(* initial state: part says which one runs.                                *)
(*                                                                         *)
(* Hashing: keys among -1, -0, 0, 1 and NaN; up to three pieces of at    *)
(* most one byte over a two-letter alphabet, empty pieces included.      *)
(* VariadicTailCall: eight stack slots, up to two fixed arguments and     *)
(* three variadic results, every placement, overlapping the destination   *)
(* from below and from above included.                                     *)
(* StencilConstantData: up to three elements, bytes and pointers in any   *)
(* order; alignments 1, 2, 8 and 16, and the invalid 0 and unset.         *)
(* Desugaring: every DesugaringLevel as the target.                       *)
(* LuaNumbers: every bytecode on integral doubles from -4 to 4, NaN, nil  *)
(* and a string: every sign combination of operand, divisor and          *)
(* remainder, zero included.  Int32 operands are left to MCLuaNumbers.    *)
(***************************************************************************)
EXTENDS Integers, Sequences

CONSTANTS NegZero_, NaN_, Unset_, Nil_, Str_

VARIABLES
  part,
  keys, hashed, h, pieces, rest, pc, state, totalLength, result,
  layout, mem, ret, args, vrs,
  obj, out,
  target, lowered,
  op, lhs, rhs, res

hvars == <<keys, hashed, h, pieces, rest, pc, state, totalLength, result>>
vvars == <<layout, mem, ret, args, vrs>>
svars == <<obj, out>>
dvars == <<target, lowered>>
nvars == <<op, lhs, rhs, res>>

H == INSTANCE Hashing
       WITH Ints <- -1 .. 1, NegZero <- NegZero_, NaN <- NaN_,
            Chars <- {"a", "b"}, MaxPieces <- 3, MaxPieceLen <- 1

V == INSTANCE VariadicTailCall WITH MaxSlot <- 7, MaxArgs <- 2, MaxRets <- 3

S == INSTANCE StencilConstantData
       WITH MaxElems <- 3, Alignments <- {0, 1, 2, 8, 16}, Unset <- Unset_

D == INSTANCE Desugaring WITH result <- lowered

N == INSTANCE LuaNumbers
       WITH Ints <- -4 .. 4, NaN <- NaN_, Int32s <- {}, Int32Payload <- << >>,
            Others <- {Nil_, Str_}, out <- res

\* One fixed initial state of each helper, for when another one runs.
HashIdle ==
  /\ keys = <<0, 0>> /\ hashed = {} /\ h = [i \in 1 .. 2 |-> H!Xxh3(<< >>)]
  /\ pieces = << >> /\ rest = << >> /\ pc = "reset" /\ state = << >>
  /\ totalLength = 0 /\ result = [m_length |-> 0, m_hashValue |-> H!Xxh3(<< >>)]
CopyIdle ==
  /\ layout = [stackBase |-> 0, totalNumArgs |-> 0, vrStart |-> 0, num |-> 0,
               alreadyMoved |-> FALSE]
  /\ mem = [a \in V!Addr |-> a] /\ ret = -1 /\ args = << >> /\ vrs = << >>
StencilIdle == obj = [valueDefs |-> << >>, alignment |-> 1] /\ out = [st |-> "idle"]
DesugarIdle == target = D!Bottom /\ lowered = [st |-> "idle"]
NumbersIdle == op = "Add" /\ lhs = 0 /\ rhs = 0 /\ res = [kind |-> "pending"]

Init ==
  \/ part = "hash" /\ H!Init /\ CopyIdle /\ StencilIdle /\ DesugarIdle /\ NumbersIdle
  \/ part = "copy" /\ V!Init /\ HashIdle /\ StencilIdle /\ DesugarIdle /\ NumbersIdle
  \/ part = "stencil" /\ S!Init /\ HashIdle /\ CopyIdle /\ DesugarIdle /\ NumbersIdle
  \/ part = "desugar" /\ D!Init /\ HashIdle /\ CopyIdle /\ StencilIdle /\ NumbersIdle
  \/ part = "numbers" /\ N!Init /\ HashIdle /\ CopyIdle /\ StencilIdle /\ DesugarIdle

Next ==
  \/ part = "hash" /\ H!Next /\ UNCHANGED <<part, vvars, svars, dvars, nvars>>
  \/ part = "copy" /\ V!Next /\ UNCHANGED <<part, hvars, svars, dvars, nvars>>
  \/ part = "stencil" /\ S!Next /\ UNCHANGED <<part, hvars, vvars, dvars, nvars>>
  \/ part = "desugar" /\ D!Next /\ UNCHANGED <<part, hvars, vvars, svars, nvars>>
  \/ part = "numbers" /\ N!Next /\ UNCHANGED <<part, hvars, vvars, svars, dvars>>

Spec == Init /\ [][Next]_<<part, hvars, vvars, svars, dvars, nvars>>

\* The helpers' properties, stated in their modules: BcMod is Lua's
\* floored modulo a - floor(a/b)*b; doubles equal under
\* == hash equal; a string hashed in pieces gets the length and hash of
\* the whole; the tail-call argument list is the fixed arguments followed
\* by the variadic results; a shared constant data object is padded to
\* the least multiple of its alignment.
ModMatchesFlooredDefinition == N!ModMatchesFlooredDefinition
EqualKeysHashEqual == H!EqualKeysHashEqual
PiecewiseMatchesWhole == H!PiecewiseMatchesWhole
ArgumentListIsArgsThenVarRets == V!ArgumentListIsArgsThenVarRets
PaddingMinimal == S!PaddingMinimal

=============================================================================
