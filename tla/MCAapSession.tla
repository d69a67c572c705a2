---------------------------- MODULE MCAapSession ----------------------------
(* AapSession for model checking; the constants get their values in the cfg. *)
EXTENDS AapSession
=============================================================================
