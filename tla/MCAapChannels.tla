---------------------------- MODULE MCAapChannels ----------------------------
(* AapChannels for model checking; the constants get their values in the cfg. *)
EXTENDS AapChannels
=============================================================================
