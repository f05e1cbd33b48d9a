--------------------------- MODULE MCBuildPipeline ---------------------------
(***************************************************************************)
(* The two build steps of fps_process_bytecode_definition_for_interpreter  *)
(* .cpp in the order the build runs them: process-bytecode-def on a unit,  *)
(* then, once it has exited successfully (its JSON is generate-builder-    *)
(* api's input), generate-builder-api over the unit JSONs.  Each step      *)
(* keeps its own variables; a failed first step stops the build.           *)
(*                                                                         *)
(* Units: up to two drawn from well-formed units (one with two classes,   *)
(* one with a two-variant class, one with a class of no variant) and      *)
(* units that break one check each: a class declared twice, mismatched     *)
(* array lengths, a class without the builder prefix, a symbol without    *)
(* the interpreter-op prefix, and malformed arrays.  The first step's     *)
(* unit produces up to three audit files, in every order.                  *)
(***************************************************************************)
EXTENDS Naturals, Sequences

MCAuditNames == {"audit_a", "audit_b", "audit_c"}

OK(cs, ds) == [namesOk |-> TRUE, cdeclsOk |-> TRUE, classes |-> cs, cdecls |-> ds]

MCUnits ==
  { OK(<<"BB_Add">>, << <<"op_Add_0", "op_Add_1">> >>),
    OK(<<"BB_Mov", "BB_Ret">>, << <<"op_Mov_0">>, <<"op_Ret_0", "op_Ret_1">> >>),
    OK(<<"BB_Nop">>, << <<>> >>),
    OK(<<"BB_Add">>, << <<"op_Add_0">> >>),
    OK(<<"BB_Mov">>, <<>>),
    OK(<<"Mov">>, << <<"op_Mov_0">> >>),
    OK(<<"BB_Call">>, << <<"Call_0">> >>),
    [namesOk |-> FALSE, cdeclsOk |-> TRUE, classes |-> <<>>, cdecls |-> <<>>],
    [namesOk |-> TRUE, cdeclsOk |-> FALSE, classes |-> <<"BB_Call">>, cdecls |-> << <<"op_Call_0">> >>] }

MCBuilderClasses == {"BB_Add", "BB_Mov", "BB_Ret", "BB_Nop", "BB_Call"}

MCOpSymbols == {"op_Add_0", "op_Add_1", "op_Mov_0", "op_Ret_0", "op_Ret_1", "op_Call_0"}

MCStrip == [s \in MCOpSymbols |-> "name_" \o s]

VARIABLES
  ppc, irOk, srcNameSet, audits, next, pscratch, pdisk,
  bpc, jlist, bscratch, bdisk, classList, dispSize, dispBlocks, nameSize, nameBlocks

pvars == <<ppc, irOk, srcNameSet, audits, next, pscratch, pdisk>>
bvars == <<bpc, jlist, bscratch, bdisk, classList, dispSize, dispBlocks, nameSize, nameBlocks>>

P == INSTANCE ProcessBytecodeDef
       WITH AuditNames <- MCAuditNames, pc <- ppc, scratch <- pscratch, disk <- pdisk

B == INSTANCE BuilderAPI
       WITH Units <- MCUnits, MaxUnits <- 2, BuilderClasses <- MCBuilderClasses,
            OpSymbols <- MCOpSymbols, Strip <- MCStrip,
            pc <- bpc, scratch <- bscratch, disk <- bdisk

Init == P!Init /\ B!Init

\* The second step runs only after the first has exited successfully.
Next ==
  \/ P!Next /\ UNCHANGED bvars
  \/ ppc = "done" /\ B!Next /\ UNCHANGED pvars

Spec == Init /\ [][Next]_<<pvars, bvars>>

\* The properties of the two steps (stated in ProcessBytecodeDef and
\* BuilderAPI): the header and JSON of process-bytecode-def are published
\* together; the three outputs of generate-builder-api are published
\* together; its published tables evaluate and agree entry by entry.
HeaderJsonPaired == P!HeaderJsonPaired
OutputsAllOrNothing == B!OutputsAllOrNothing
GeneratedTablesConsistent == B!GeneratedTablesConsistent

=============================================================================
