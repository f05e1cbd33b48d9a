----------------------------- MODULE LuaNumbers -----------------------------
(***************************************************************************)
(* The arithmetic and comparison bytecodes of src/toylang/bytecode.h       *)
(* (BcAdd, BcSub, BcMul, BcMod, BcIsLT, BcIsNLT, BcIsLE, BcIsNLE, BcIsEQ,  *)
(* BcIsNEQ), each run once on two operands.                                *)
(*                                                                         *)
(* A TValue is a double, an int32 (TValue::CreateInt32; a model value of  *)
(* Int32s whose payload is Int32Payload) or another value (nil, an        *)
(* interned string, a table), a model value.                               *)
(* Doubles are the integers of Ints, which a double holds exactly, and     *)
(* NaN.  On two doubles the handler computes or compares; on anything else *)
(* it reaches assert(false && "unimplemented") (IsEQ/IsNEQ compare the raw *)
(* 64-bit words instead).  BcDiv is left out: its quotients leave Ints.    *)
(* UnsafeFloatEqual (common_utils, not in the repository) is taken to be   *)
(* the IEEE ==.                                                            *)
(***************************************************************************)
EXTENDS Integers

CONSTANTS
  Ints,      \* doubles with integral values
  NaN,       \* the quiet NaN
  Int32s,    \* int32 TValues
  Int32Payload, \* the integer each of them holds
  Others     \* nil, strings, tables: compared by identity

Dbl == Ints \cup {NaN}
TValues == Dbl \cup Int32s \cup Others
IsDouble(v) == v \in Dbl
Arith == {"Add", "Sub", "Mul", "Mod"}
Compare == {"IsLT", "IsNLT", "IsLE", "IsNLE", "IsEQ", "IsNEQ"}

\* IEEE comparisons on doubles: false whenever NaN is involved.
FLt(a, b) == a # NaN /\ b # NaN /\ a < b
FLe(a, b) == a # NaN /\ b # NaN /\ a <= b
FEq(a, b) == a # NaN /\ b # NaN /\ a = b
FOp(f(_, _), a, b) == IF a = NaN \/ b = NaN THEN NaN ELSE f(a, b)
AbsVal(a) == IF a < 0 THEN -a ELSE a

\* C fmod: the remainder of the quotient truncated toward zero, NaN for a
\* zero divisor.
Fmod(a, b) ==
  IF a = NaN \/ b = NaN \/ b = 0 THEN NaN
  ELSE LET q == AbsVal(a) \div AbsVal(b)
           tq == IF (a < 0) = (b < 0) THEN q ELSE -q
       IN a - tq * b

\* Faulty variant: the correction is applied whenever m and b differ in
\* sign, zero remainders included.
ModulusNoZeroCheck(a, b) ==
  LET m == Fmod(a, b) IN
  IF m # NaN /\ ((m >= 0) # (b > 0)) THEN m + b ELSE m

\* BcMod::ModulusWithLuaSemantics: fmod, then add b when the remainder is
\* non-zero and its sign differs from b's.
ModulusWithLuaSemantics(a, b) ==
  LET m == Fmod(a, b) IN
  IF m # NaN /\ (IF m > 0 THEN b < 0 ELSE m < 0 /\ b > 0) THEN m + b ELSE m

\* The result a handler stores in m_result.
ArithResult(op, a, b) ==
  CASE op = "Add" -> FOp(LAMBDA x, y : x + y, a, b)
    [] op = "Sub" -> FOp(LAMBDA x, y : x - y, a, b)
    [] op = "Mul" -> FOp(LAMBDA x, y : x * y, a, b)
    [] op = "Mod" -> ModulusWithLuaSemantics(a, b)

\* The double path of BcIsNLT: branch when !(lhs < rhs).
BcIsNLTCond(a, b) == ~FLt(a, b)

\* Whether the double path of a comparison handler takes its jump.
DoubleBranch(op, a, b) ==
  CASE op = "IsLT"  -> FLt(a, b)
    [] op = "IsNLT" -> BcIsNLTCond(a, b)
    [] op = "IsLE"  -> FLe(a, b)
    [] op = "IsNLE" -> ~FLe(a, b)
    [] op = "IsEQ"  -> FEq(a, b)
    [] op = "IsNEQ" -> ~FEq(a, b)

VARIABLES op, lhs, rhs, out

vars == <<op, lhs, rhs, out>>

Init ==
  /\ op \in Arith \cup Compare
  /\ lhs \in TValues
  /\ rhs \in TValues
  /\ out = [kind |-> "pending"]

\* An arithmetic handler on two doubles: the result is stored, and the
\* interpreter dispatches to the next bytecode.
ArithDouble ==
  /\ out.kind = "pending" /\ op \in Arith
  /\ IsDouble(lhs) /\ IsDouble(rhs)
  /\ out' = [kind |-> "value", value |-> ArithResult(op, lhs, rhs)]
  /\ UNCHANGED <<op, lhs, rhs>>

\* A handler whose operands are not both doubles, and which has no raw
\* fallback: assert(false && "unimplemented").
Unimplemented ==
  /\ out.kind = "pending" /\ op \in (Arith \cup Compare) \ {"IsEQ", "IsNEQ"}
  /\ ~(IsDouble(lhs) /\ IsDouble(rhs))
  /\ out' = [kind |-> "unimplemented"]
  /\ UNCHANGED <<op, lhs, rhs>>

\* A comparison handler on two doubles: jump to bcu + m_offset when its
\* condition holds, else dispatch to the next bytecode.
CompareDouble ==
  /\ out.kind = "pending" /\ op \in Compare
  /\ IsDouble(lhs) /\ IsDouble(rhs)
  /\ out' = [kind |-> "branch", taken |-> DoubleBranch(op, lhs, rhs)]
  /\ UNCHANGED <<op, lhs, rhs>>

\* BcIsEQ / BcIsNEQ when an operand is not a double: the raw words are
\* compared (lhs.m_value == rhs.m_value).
CompareRaw ==
  /\ out.kind = "pending" /\ op \in {"IsEQ", "IsNEQ"}
  /\ ~(IsDouble(lhs) /\ IsDouble(rhs))
  /\ out' = [kind |-> "branch", taken |-> IF op = "IsEQ" THEN lhs = rhs ELSE lhs # rhs]
  /\ UNCHANGED <<op, lhs, rhs>>

\* The bytecode has run.
Finished == out.kind # "pending" /\ UNCHANGED vars

Next == ArithDouble \/ Unimplemented \/ CompareDouble \/ CompareRaw \/ Finished

Spec == Init /\ [][Next]_vars

----------------------------------------------------------------------------
\* Reference definitions from the Lua manual.  Numbers are doubles and
\* int32s alike; a % b == a - floor(a/b)*b, with floor(a/b) the q for which
\* q*b <= a < (q+1)*b (b > 0) or q*b >= a > (q+1)*b (b < 0).
IsNumber(v) == v \in Dbl \cup Int32s
NumOf(v) == IF v \in Dbl THEN v ELSE Int32Payload[v]
FloorQuot(a, b) ==
  CHOOSE q \in -AbsVal(a) - 1 .. AbsVal(a) + 1 :
    IF b > 0 THEN q * b <= a /\ a < (q + 1) * b ELSE q * b >= a /\ a > (q + 1) * b
LuaMod(a, b) == IF a = NaN \/ b = NaN \/ b = 0 THEN NaN ELSE a - FloorQuot(a, b) * b
LuaRawEqual(x, y) ==
  IF IsNumber(x) /\ IsNumber(y) THEN FEq(NumOf(x), NumOf(y)) ELSE x = y
LuaCondition(o, x, y) ==
  CASE o = "IsLT"  -> FLt(NumOf(x), NumOf(y))
    [] o = "IsNLT" -> ~FLt(NumOf(x), NumOf(y))
    [] o = "IsLE"  -> FLe(NumOf(x), NumOf(y))
    [] o = "IsNLE" -> ~FLe(NumOf(x), NumOf(y))
    [] o = "IsEQ"  -> LuaRawEqual(x, y)
    [] o = "IsNEQ" -> ~LuaRawEqual(x, y)

\* BcMod computes Lua's floored modulo: fmod plus the sign correction of
\* ModulusWithLuaSemantics gives a - floor(a/b)*b for every pair of
\* integral doubles, negative and zero operands and divisors included.
ModMatchesFlooredDefinition ==
  out.kind = "value" /\ op = "Mod" => out.value = LuaMod(lhs, rhs)

\* Every comparison bytecode that branches (IsLT .. IsNEQ, double or raw
\* path) jumps exactly when the Lua condition it encodes holds: the
\* negated forms branch on NaN, the plain ones do not, and equality is
\* Lua's raw equality of the two values, under which the int32 1 and the
\* double 1.0 are the same number.
BranchMatchesLua ==
  out.kind = "branch" => (out.taken <=> LuaCondition(op, lhs, rhs))

=============================================================================
