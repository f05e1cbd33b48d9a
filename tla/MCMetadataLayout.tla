-------------------------- MODULE MCMetadataLayout --------------------------
(* Two metadata kinds with alignments 1, 4 or 8 and sizes of one or three   *)
(* alignment units, up to two structs of each, bytecode lengths 0 to 9 (so  *)
(* the 8-byte padding of the bytecode room takes every value), and the      *)
(* inputs of scenario S6 (sizes 12 and 4, alignment 4, counts 2 and 3,      *)
(* length 24).                                                              *)
EXTENDS MetadataLayout

MCBytecodeLens == (0 .. 9) \cup {24}

=============================================================================
