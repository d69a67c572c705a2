--------------------------- MODULE MCAlinqBrowser ---------------------------
(* AlinqBrowser for model checking: a browser and one other thread, two groups
   and two indices.                                                          *)
EXTENDS AlinqBrowser

CONSTANTS artists, all, player, i1, i2

TheGroups == {artists, all}

TheArgs == TheGroups \cup Items \cup (TheGroups \X Items)

(* Calls of a player: one of each shape.                                   *)
PlayerCalls == [op : {"ReadStatus", "OpenTrack"}, arg : {all}]
=============================================================================
