----------------------------- MODULE LuaForLoop -----------------------------
(***************************************************************************)
(* The numeric for statement as the Lua 5.1 reference manual defines it:   *)
(*                                                                         *)
(*   for v = e1, e2, e3 do block end                                       *)
(*                                                                         *)
(* is equivalent to                                                        *)
(*                                                                         *)
(*   local var, limit, step = tonumber(e1), tonumber(e2), tonumber(e3)     *)
(*   if not (var and limit and step) then error() end                      *)
(*   while (step > 0 and var <= limit) or (step <= 0 and var >= limit) do  *)
(*     local v = var; block; var = var + step                              *)
(*   end                                                                   *)
(*                                                                         *)
(* e holds e1..e3 and then var, limit, step; v is the visible variable,    *)
(* which the block may assign without changing the iteration.  After the  *)
(* loop ends, var is out of scope and left as it was.                      *)
(* NumericFor.tla (BcForLoopInit / BcForLoopStep) refines this module.     *)
(***************************************************************************)
EXTENDS Integers

CONSTANTS
  Ints,        \* integral doubles
  NaN,         \* the quiet NaN
  NumStrs,     \* strings tonumber converts
  StrNum,      \* the number each of them converts to
  Others,      \* values tonumber rejects: nil, other strings
  Nil,         \* the nil value (a member of Others)
  BodyValues   \* values the block may assign to v

Dbl == Ints \cup {NaN}
TValues == Dbl \cup NumStrs \cup Others
ToNumber(x) == IF x \in Dbl THEN x ELSE IF x \in NumStrs THEN StrNum[x] ELSE Nil
Gt(a, b) == a # NaN /\ b # NaN /\ a > b
Le(a, b) == a # NaN /\ b # NaN /\ a <= b
Ge(a, b) == a # NaN /\ b # NaN /\ a >= b
Plus(a, b) == IF a = NaN \/ b = NaN THEN NaN ELSE a + b
Continue(var, limit, step) == (Gt(step, 0) /\ Le(var, limit)) \/ (Le(step, 0) /\ Ge(var, limit))

VARIABLES lpc, e, v

avars == <<lpc, e, v>>

Init ==
  /\ lpc = "start"
  /\ e \in [0 .. 2 -> TValues]
  /\ v = Nil

\* The three expressions are converted; an error if one is not a number.
Start ==
  LET n == [i \in 0 .. 2 |-> ToNumber(e[i])] IN
  /\ lpc = "start"
  /\ e' = n
  /\ \/ \E i \in 0 .. 2 : n[i] = Nil
        /\ lpc' = "error" /\ UNCHANGED v
     \/ \A i \in 0 .. 2 : n[i] # Nil
        /\ IF Continue(n[0], n[1], n[2])
           THEN lpc' = "body" /\ v' = n[0]
           ELSE lpc' = "exit" /\ UNCHANGED v

\* The block assigns the visible variable.
Assign(x) ==
  /\ lpc = "body"
  /\ v' = x
  /\ UNCHANGED <<lpc, e>>

\* End of the block: var advances by step, and the loop goes round again
\* with a fresh v or ends.
EndIteration ==
  LET var == Plus(e[0], e[2]) IN
  /\ lpc = "body"
  /\ IF Continue(var, e[1], e[2])
     THEN /\ e' = [e EXCEPT ![0] = var] /\ v' = var /\ UNCHANGED lpc
     ELSE /\ lpc' = "exit" /\ UNCHANGED <<e, v>>

Next ==
  \/ Start
  \/ \E x \in BodyValues : Assign(x)
  \/ EndIteration

Spec == Init /\ [][Next]_avars

=============================================================================
