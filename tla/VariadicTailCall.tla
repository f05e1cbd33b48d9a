-------------------------- MODULE VariadicTailCall --------------------------
(***************************************************************************)
(* DeegenSnippet_CopyVariadicResultsToArgumentsForVariadicNotInPlaceTail-  *)
(* Call (src/annotated/deegen_common_snippets/copy_variadic_results_to_    *)
(* arguments_for_variadic_notinplace_tailcall.cpp): a tail call that      *)
(* passes the variadic results of the previous call as its last           *)
(* arguments appends them, m_numVariadicRets of them starting at           *)
(* m_variadicRetStart, after the totalNumArgs arguments already placed at *)
(* stackBase, and returns the new argument count.                          *)
(*                                                                         *)
(* mem[a] is stack slot a.  Slots start out holding their own address, so *)
(* a value read anywhere tells which slot it came from.  The caller has    *)
(* placed the fixed arguments at stackBase .. stackBase+totalNumArgs-1     *)
(* without overwriting the variadic results, or, with alreadyMoved, has    *)
(* also placed the variadic results right after them.                      *)
(***************************************************************************)
EXTENDS Integers, Sequences

CONSTANTS
  MaxSlot,     \* last stack slot of the model
  MaxArgs,     \* the most fixed arguments
  MaxRets      \* the most variadic results

Addr == 0 .. MaxSlot
Slice(m, a, n) == [i \in 1 .. n |-> m[a + i - 1]]
Span(a, n) == a .. a + n - 1

\* Faulty variant: a forward word-by-word copy (memcpy on overlapping
\* ranges), each read after the writes before it.
RECURSIVE CopyForward(_, _, _, _)
CopyForward(m, dst, src, n) ==
  IF n = 0 THEN m
  ELSE CopyForward([m EXCEPT ![dst] = m[src]], dst + 1, src + 1, n - 1)

\* memmove(dst, src, 8 * n): every slot read before any is written.
Memmove(m, dst, src, n) ==
  [a \in Addr |-> IF a \in Span(dst, n) THEN m[src + a - dst] ELSE m[a]]

\* The states the caller can hand the snippet: fixed arguments (values
\* FixedArg) in place, the variadic results (VarRet) at vrStart, outside
\* the fixed arguments, or already moved after them.
Layouts ==
  {l \in [stackBase : Addr, totalNumArgs : 0 .. MaxArgs, vrStart : Addr,
          num : 0 .. MaxRets, alreadyMoved : BOOLEAN] :
     /\ l.stackBase + l.totalNumArgs + l.num - 1 <= MaxSlot
     /\ l.vrStart + l.num - 1 <= MaxSlot
     /\ l.alreadyMoved => l.vrStart = l.stackBase + l.totalNumArgs
     /\ Span(l.vrStart, l.num) \cap Span(l.stackBase, l.totalNumArgs) = {}}

VARIABLES
  layout,    \* the snippet's arguments and the context it reads
  mem,
  ret,       \* the new total number of arguments, -1 before the return
  args, vrs  \* ghost: the fixed arguments and the variadic results

vars == <<layout, mem, ret, args, vrs>>

Init ==
  /\ layout \in Layouts
  /\ mem = [a \in Addr |-> a]
  /\ ret = -1
  /\ args = Slice(mem, layout.stackBase, layout.totalNumArgs)
  /\ vrs = Slice(mem, layout.vrStart, layout.num)

\* The snippet: unless alreadyMoved, memmove the variadic results to
\* stackBase + totalNumArgs; return totalNumArgs + num.
CopyVariadicResults ==
  LET l == layout IN
  /\ ret = -1
  /\ mem' = IF l.alreadyMoved THEN mem
            ELSE Memmove(mem, l.stackBase + l.totalNumArgs, l.vrStart, l.num)
  /\ ret' = l.totalNumArgs + l.num
  /\ UNCHANGED <<layout, args, vrs>>

\* The tail call goes on with the argument list.
Returned == ret # -1 /\ UNCHANGED vars

Next == CopyVariadicResults \/ Returned

Spec == Init /\ [][Next]_vars

----------------------------------------------------------------------------
\* After the snippet the callee's argument list, the returned count of
\* slots from stackBase, is the fixed arguments followed by the variadic
\* results, whichever way the results' slots overlap their destination.
ArgumentListIsArgsThenVarRets ==
  ret # -1 => Slice(mem, layout.stackBase, ret) = args \o vrs

=============================================================================
