------------------------------- MODULE AapLink -------------------------------
(***************************************************************************)
(* What the caller of jni_aa_cmd is promised of the Android Auto session:  *)
(* it is down, being brought up or up; bringing it up takes four plaintext *)
(* messages to the phone, in order and on one connection; it may be lost at*)
(* any time, and after that only a new start brings it up again.           *)
(***************************************************************************)
EXTENDS Naturals

VARIABLES
  phase,     \* "down", "connecting" or "up"
  progress   \* messages of the start-up the phone has been sent

linkVars == <<phase, progress>>

LinkInit == phase = "down" /\ progress = 0

Connect == phase = "down" /\ phase' = "connecting" /\ progress' = 0

Advance ==
  /\ phase = "connecting" /\ progress < 3
  /\ progress' = progress + 1
  /\ UNCHANGED phase

(* Auth Complete is the fourth message; the session is up when it is sent. *)
Establish ==
  /\ phase = "connecting" /\ progress = 3
  /\ phase' = "up" /\ progress' = 4

Lose == phase # "down" /\ phase' = "down" /\ progress' = 0

LinkNext == Connect \/ Advance \/ Establish \/ Lose

LinkSpec == LinkInit /\ [][LinkNext]_linkVars
=============================================================================
