----------------------------- MODULE Desugaring -----------------------------
(***************************************************************************)
(* DesugaringLevel and DesugarUpToExcluding (src/deegen/                  *)
(* deegen_desugaring_level.h), with the ReleaseAssert on Bottom and Top. *)
(* The passes that consume a level (AddLLVMInliningAttributesFor-        *)
(* DesugaringLevel) are not in the repository, so nothing here states    *)
(* what a level lets them inline; the module runs beside the other       *)
(* helpers in MCHelpers.                                                  *)
(***************************************************************************)
EXTENDS Integers

\* enum class DesugaringLevel, in declaration order.
Bottom == 0
AlwaysInline == 1
GeneralFunctions == 2
TypeSpecialization == 3
Top == 4
Levels == Bottom .. Top

\* static_cast<DesugaringLevel>(static_cast<int>(target) - 1).
DesugarUpToExcluding(target) == target - 1

VARIABLES target, result

vars == <<target, result>>

Init == target \in Levels /\ result = [st |-> "idle"]

\* A pass calls DesugarUpToExcluding(target); the ReleaseAssert rejects
\* Bottom and Top.
Desugar ==
  /\ result.st = "idle"
  /\ target \notin {Bottom, Top}
  /\ result' = [st |-> "done", level |-> DesugarUpToExcluding(target)]
  /\ UNCHANGED target

DesugarAbort ==
  /\ result.st = "idle"
  /\ target \in {Bottom, Top}
  /\ result' = [st |-> "abort"]
  /\ UNCHANGED target

Finished == result.st # "idle" /\ UNCHANGED vars

Next == Desugar \/ DesugarAbort \/ Finished

Spec == Init /\ [][Next]_vars

=============================================================================
