----------------------------- MODULE NumericFor -----------------------------
(***************************************************************************)
(* BcForLoopInit and BcForLoopStep (src/toylang/bytecode.h) running one    *)
(* numeric for loop.  The frontend places start, limit and step in locals *)
(* base .. base+2 and the visible loop variable in base+3; slot[i] is      *)
(* local base+i.  The loop body between the two bytecodes is abstracted   *)
(* to one optional assignment of the visible variable (the frontend gives *)
(* the body no access to base .. base+2).                                  *)
(*                                                                         *)
(* pc: "init" at BcForLoopInit, "body" in the loop body, "step" at         *)
(* BcForLoopStep, "exit" past the loop, "abort" at the ReleaseAssert of a  *)
(* range that is not a number.                                             *)
(***************************************************************************)
EXTENDS Integers

CONSTANTS Ints, NaN, NumStrs, StrNum, Others, Nil, BodyValues

Dbl == Ints \cup {NaN}
TValues == Dbl \cup NumStrs \cup Others
Gt(a, b) == a # NaN /\ b # NaN /\ a > b
Le(a, b) == a # NaN /\ b # NaN /\ a <= b
Ge(a, b) == a # NaN /\ b # NaN /\ a >= b
Plus(a, b) == IF a = NaN \/ b = NaN THEN NaN ELSE a + b

\* The range operands as doubles: a double as is, a string through
\* TryConvertStringToDoubleWithLuaSemantics; anything else fails.
Convertible(x) == x \in Dbl \cup NumStrs
ToDouble(x) == IF x \in Dbl THEN x ELSE StrNum[x]

\* Faulty variant: a strict comparison against the limit.
LoopCondStrict(var, limit, step) ==
  (Gt(step, 0) /\ var # NaN /\ limit # NaN /\ var < limit) \/
  (Le(step, 0) /\ var # NaN /\ limit # NaN /\ var > limit)

\* loopConditionSatisfied, the same expression in both handlers.
LoopCond(var, limit, step) == (Gt(step, 0) /\ Le(var, limit)) \/ (Le(step, 0) /\ Ge(var, limit))

\* Faulty variant: the step reads the visible variable as the index.
StepValsFromVisible(s) == [i \in 0 .. 2 |-> IF i = 0 THEN s[3] ELSE s[i]]

\* BcForLoopStep's reads: vals[i] = addr[i].AsDouble().
StepVals(s) == [i \in 0 .. 2 |-> s[i]]

VARIABLES pc, slot

vars == <<pc, slot>>

Init ==
  /\ pc = "init"
  /\ slot \in {s \in [0 .. 3 -> TValues] : s[3] = Nil}

\* BcForLoopInit when all three operands convert: strings are replaced by
\* their doubles in place, then the loop is entered (visible variable set
\* to the start) or skipped (jump to bcu + m_offset).
ForLoopInit ==
  LET vals == [i \in 0 .. 2 |-> ToDouble(slot[i])]
      go == LoopCond(vals[0], vals[1], vals[2])
  IN /\ pc = "init"
     /\ \A i \in 0 .. 2 : Convertible(slot[i])
     /\ slot' = [i \in 0 .. 3 |-> IF i < 3 THEN vals[i] ELSE IF go THEN vals[0] ELSE slot[3]]
     /\ pc' = IF go THEN "body" ELSE "exit"

\* BcForLoopInit reaching an operand that does not convert: the operands
\* before it have already been written back, then ReleaseAssert.
ForLoopInitBadRange ==
  LET k == CHOOSE j \in 0 .. 2 : ~Convertible(slot[j]) /\ \A i \in 0 .. j - 1 : Convertible(slot[i])
  IN /\ pc = "init"
     /\ \E j \in 0 .. 2 : ~Convertible(slot[j])
     /\ slot' = [i \in 0 .. 3 |-> IF i < k THEN ToDouble(slot[i]) ELSE slot[i]]
     /\ pc' = "abort"

\* The loop body assigns the visible variable, or leaves it alone.
BodyAssign(x) == pc = "body" /\ slot' = [slot EXCEPT ![3] = x] /\ pc' = "step"
BodyEnd == pc = "body" /\ pc' = "step" /\ UNCHANGED slot

\* BcForLoopStep: index += step; if the loop goes on, the index and the
\* visible variable get the new value and control jumps back to the body;
\* else it falls through past the loop.
ForLoopStep ==
  LET vals == StepVals(slot)
      var == Plus(vals[0], vals[2])
  IN /\ pc = "step"
     /\ IF LoopCond(var, vals[1], vals[2])
        THEN slot' = [slot EXCEPT ![0] = var, ![3] = var] /\ pc' = "body"
        ELSE pc' = "exit" /\ UNCHANGED slot

\* Past the loop, or aborted.
Stopped == pc \in {"exit", "abort"} /\ UNCHANGED vars

Next ==
  \/ ForLoopInit
  \/ ForLoopInitBadRange
  \/ \E x \in BodyValues : BodyAssign(x)
  \/ BodyEnd
  \/ ForLoopStep
  \/ Stopped

\* The interpreter thread keeps dispatching, and the body (abstracted to a
\* single step) always reaches the step bytecode.
Spec == Init /\ [][Next]_vars /\ WF_vars(Next)

----------------------------------------------------------------------------
\* The Lua-level view: before and during the loop e is what the three
\* locals hold; after an abort it is tonumber of each (nil where it fails).
LuaToNumber(x) == IF Convertible(x) THEN ToDouble(x) ELSE Nil
AbsLpc == CASE pc = "init" -> "start"
            [] pc \in {"body", "step"} -> "body"
            [] pc = "exit" -> "exit"
            [] pc = "abort" -> "error"
AbsE == [i \in 0 .. 2 |-> IF pc = "abort" THEN LuaToNumber(slot[i]) ELSE slot[i]]

Lua == INSTANCE LuaForLoop WITH lpc <- AbsLpc, e <- AbsE, v <- slot[3]

\* BcForLoopInit and BcForLoopStep implement the for statement of the Lua
\* manual: the visible variable takes exactly the values start, start +
\* step, ... while the limit test holds, whatever the body assigns to it,
\* with string operands converted and non-numbers rejected.
ForLoopMatchesLua == Lua!Spec

\* A loop whose step is a non-zero number ends: the index advances
\* monotonically towards the limit whatever the body does.
LoopTerminates == (pc = "body" /\ slot[2] # 0) ~> (pc = "exit")

=============================================================================
