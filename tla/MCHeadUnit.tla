----------------------------- MODULE MCHeadUnit -----------------------------
(* HeadUnit on a panel of two places and a buffer of a few bytes.           *)
EXTENDS HeadUnit

ThePlaces == {[x |-> 0, y |-> 0], [x |-> 255, y |-> 100]}

ReadResults == {-1, 0, 2}
=============================================================================
