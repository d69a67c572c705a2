----------------------------- MODULE MCVideoPath -----------------------------
(* VideoPath for model checking.                                            *)
EXTENDS VideoPath

(* Messages of other channels in one piece, with other numbers than video's. *)
WholeMessages == [flags : {11}, msg_type : {0, 2}]

AllUnits == {Whole(u, n) : u \in 1..MaxUnits, n \in 1..MaxFrags}

(* The units of the most fragments do not fit a slot.                       *)
LargeUnits == {f \in AllUnits : Len(f) = MaxFrags}
=============================================================================
