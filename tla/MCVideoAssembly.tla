-------------------------- MODULE MCVideoAssembly --------------------------
(* VideoAssembly for model checking.                                        *)
EXTENDS VideoAssembly

(* Messages of other channels in one piece, with other numbers than video's. *)
WholeMessages == [flags : {11}, msg_type : {0, 2}]

(* Messages of other channels in one piece or in several.                   *)
FragmentedMessages == [flags : 8..11, msg_type : {0, 2}]
=============================================================================
