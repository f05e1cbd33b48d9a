-------------------------- MODULE MCTierUpCounter --------------------------
(* Every stream of two bytecodes of 1 or 5 bytes (5 is sizeof              *)
(* BcUnconditionalJump) with every kind and branch target.                 *)
EXTENDS TierUpCounter

=============================================================================
