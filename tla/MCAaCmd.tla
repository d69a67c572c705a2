------------------------------ MODULE MCAaCmd ------------------------------
(* AaCmd for model checking: the constants get their values in the cfg.     *)
EXTENDS AaCmd
=============================================================================
