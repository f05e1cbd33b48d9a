---------------------------- MODULE TierUpCounter ----------------------------
(***************************************************************************)
(* The interpreter's tier-up counter on branches: the common snippet       *)
(* UpdateInterpreterTierUpCounterForBranch, which the branch lowering of   *)
(* the generated interpreter calls on every taken branch, run over a small *)
(* bytecode stream.                                                        *)
(*                                                                         *)
(* A bytecode is a plain operation (falls through), an unconditional jump  *)
(* (BcUnconditionalJump: bcu + m_offset) or a conditional branch (taken or *)
(* not).  Bytecodes lie back to back; index i starts at byte Pos(i).       *)
(* Running off the end is a return.  The counter, a signed field of the    *)
(* CodeBlock, starts at InitCounter; when it drops below zero the function *)
(* tiers up and the interpreter stops running it.                          *)
(***************************************************************************)
EXTENDS Integers, Sequences

CONSTANTS
  NumBytecodes,   \* bytecodes in the stream
  Lengths,        \* byte lengths a bytecode may have
  InitCounter,    \* m_interpreterTierUpCounter when the function starts
  None            \* no earlier visit

Idx == 1 .. NumBytecodes
Kinds == {"op", "jmp", "br"}
Bytecode == [kind : Kinds, len : Lengths, target : Idx]

VARIABLES
  prog,       \* the bytecode stream
  pc,         \* index of the bytecode being executed
  counter,    \* CodeBlock::m_interpreterTierUpCounter
  lastAt,     \* history: counter at the last arrival at each index
  backSince   \* history: a backward branch was taken since that arrival

vars == <<prog, pc, counter, lastAt, backSince>>

RECURSIVE PosOf(_, _)
PosOf(p, i) == IF i = 1 THEN 0 ELSE PosOf(p, i - 1) + p[i - 1].len
Pos(i) == PosOf(prog, i)
Running == pc \in Idx /\ counter >= 0

\* DeegenSnippet_UpdateInterpreterTierUpCounterForBranch with tier-up
\* allowed: counter -= curBytecode - dstBytecode.
UpdateTierUpCounterForBranch(c, cur, dst) == c - (cur - dst)

Init ==
  /\ prog \in [Idx -> Bytecode]
  /\ pc = 1
  /\ counter = InitCounter
  /\ lastAt = [i \in Idx |-> IF i = 1 THEN InitCounter ELSE None]
  /\ backSince = [i \in Idx |-> FALSE]

\* Arrive at bytecode `to` with counter value c; `back` says the step was
\* a backward branch.
Arrive(to, c, back) ==
  /\ pc' = to
  /\ counter' = c
  /\ lastAt' = IF to \in Idx THEN [lastAt EXCEPT ![to] = c] ELSE lastAt
  /\ backSince' = [i \in Idx |-> IF i = to THEN FALSE ELSE backSince[i] \/ back]
  /\ UNCHANGED prog

\* A bytecode that does not branch, or a branch that is not taken: the
\* next bytecode follows, the counter is not touched.
FallThrough ==
  /\ Running
  /\ prog[pc].kind \in {"op", "br"}
  /\ Arrive(pc + 1, counter, FALSE)

\* A taken jump or branch: dispatch to the target, counter updated.
Branch ==
  /\ Running
  /\ prog[pc].kind \in {"jmp", "br"}
  /\ LET to == prog[pc].target IN
     Arrive(to, UpdateTierUpCounterForBranch(counter, Pos(pc), Pos(to)), Pos(to) < Pos(pc))

\* Returned, or tiered up: the interpreter no longer runs this function.
Stopped == ~Running /\ UNCHANGED vars

Next == FallThrough \/ Branch \/ Stopped

Spec == Init /\ [][Next]_vars

----------------------------------------------------------------------------
\* Spec property 7 (tier-up counter monotonicity): along any cycle through
\* a backward branch the counter deltas sum to a negative number, so a loop
\* that keeps running eventually tiers up.  Stated on the step that closes
\* the cycle: arriving again at a bytecode after a backward branch leaves
\* the counter strictly below its value at the previous arrival.
CycleDecreasesCounter ==
  [][ (pc' \in Idx /\ lastAt[pc'] # None /\ (backSince[pc'] \/ Pos(pc') < Pos(pc)))
      => counter' < lastAt[pc'] ]_vars

=============================================================================
