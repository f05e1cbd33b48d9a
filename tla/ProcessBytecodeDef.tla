------------------------- MODULE ProcessBytecodeDef -------------------------
(***************************************************************************)
(* The process-bytecode-def step of the build pipeline,                    *)
(* FPS_ProcessBytecodeDefinitionForInterpreter in                          *)
(* src/deegen/fps_process_bytecode_definition_for_interpreter.cpp, run    *)
(* once on one translation unit.                                           *)
(*                                                                         *)
(* Every output is written through a TransactionalOutputFile: a scratch   *)
(* file that Commit() renames into place; a file never committed is never *)
(* published (transactional_output_file.h is not in the repository; this  *)
(* is its documented contract).  disk[f] is "old" while f still holds the *)
(* previous build's content and "new" once this run has committed it.     *)
(* Every error path is a ReleaseAssert or abort(): the process ends there.*)
(*                                                                         *)
(* Inputs: irOk says the bitcode parses and the front end                  *)
(* (ProcessBytecodeDefinitionForInterpreter) returns; srcNameSet says     *)
(* cl_curSrcFileName is non-empty; audits is result.m_auditFiles in       *)
(* iteration order.                                                        *)
(***************************************************************************)
EXTENDS Naturals, Sequences, FiniteSets

CONSTANTS AuditNames   \* names of the audit files a unit may produce

Outputs == {"hdr", "json", "pred"} \cup AuditNames

\* The audit-file lists the front end can return: distinct names.
AuditLists == {s \in UNION {[1 .. n -> AuditNames] : n \in 0 .. Cardinality(AuditNames)} :
                 \A i, j \in DOMAIN s : i # j => s[i] # s[j]}

VARIABLES
  pc,          \* "start", "emit", "audit", "commit", "done", "aborted"
  irOk, srcNameSet, audits,
  next,        \* index into audits of the next audit file
  scratch,     \* outputs written but not committed
  disk         \* disk[f]: "old" or "new"

vars == <<pc, irOk, srcNameSet, audits, next, scratch, disk>>

Init ==
  /\ pc = "start"
  /\ irOk \in BOOLEAN /\ srcNameSet \in BOOLEAN
  /\ audits \in AuditLists
  /\ next = 1
  /\ scratch = {}
  /\ disk = [f \in Outputs |-> "old"]

\* Lines 20-31: the input file name is checked, the bitcode parsed (abort()
\* when it cannot be) and the front end run; nothing is written yet.
Start ==
  /\ pc = "start"
  /\ pc' = IF irOk THEN "emit" ELSE "aborted"
  /\ UNCHANGED <<irOk, srcNameSet, audits, next, scratch, disk>>

\* Faulty variant: the header committed as soon as it is written.
EmitCommittingHeader ==
  /\ pc = "emit"
  /\ scratch' = {"json"}
  /\ disk' = [disk EXCEPT !["hdr"] = "new"]
  /\ pc' = "audit"
  /\ UNCHANGED <<irOk, srcNameSet, audits, next>>

\* Lines 33-58: the header and the JSON are written to their scratch files.
Emit ==
  /\ pc = "emit"
  /\ scratch' = {"hdr", "json"}
  /\ pc' = "audit"
  /\ UNCHANGED <<irOk, srcNameSet, audits, next, disk>>

\* Lines 60-67: each audit file is written and committed in its own
\* TransactionalOutputFile.
CommitAudit ==
  /\ pc = "audit" /\ next <= Len(audits)
  /\ disk' = [disk EXCEPT ![audits[next]] = "new"]
  /\ next' = next + 1
  /\ UNCHANGED <<pc, irOk, srcNameSet, audits, scratch>>

\* Lines 69-82: ReleaseAssert(cl_curSrcFileName != ""), then the prediction
\* propagation audit file is written and committed.
PredictionAudit ==
  /\ pc = "audit" /\ next > Len(audits)
  /\ IF srcNameSet
     THEN pc' = "commit" /\ disk' = [disk EXCEPT !["pred"] = "new"]
     ELSE pc' = "aborted" /\ UNCHANGED disk
  /\ UNCHANGED <<irOk, srcNameSet, audits, next, scratch>>

\* Lines 84-85: the header and the JSON are committed.
Commit ==
  /\ pc = "commit"
  /\ disk' = [f \in Outputs |-> IF f \in scratch THEN "new" ELSE disk[f]]
  /\ scratch' = {}
  /\ pc' = "done"
  /\ UNCHANGED <<irOk, srcNameSet, audits, next>>

\* The process has exited.
Ended == pc \in {"done", "aborted"} /\ UNCHANGED vars

Next == Start \/ Emit \/ CommitAudit \/ PredictionAudit \/ Commit \/ Ended

Spec == Init /\ [][Next]_vars

----------------------------------------------------------------------------
\* The header and the JSON that describes it always come from the same
\* run: the bytecode-builder step (generate-builder-api) includes the
\* header named in the JSON, so a new header beside an old JSON, or the
\* reverse, would build against mismatched declarations.  Holds whichever
\* check aborts the process between the writes (lines 33-85).
HeaderJsonPaired == disk["hdr"] = disk["json"]

=============================================================================
