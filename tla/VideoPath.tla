------------------------------ MODULE VideoPath ------------------------------
(***************************************************************************)
(* The way of the video from the messages of the phone to the application: *)
(* VideoAssembly puts the units together, iaap_video_decode queues each of *)
(* them in the video ring of MediaRing, and jni_aa_cmd takes them out.     *)
(*                                                                         *)
(* assy takes units of up to 1 MB, a slot of the ring 256 KB of them.  How *)
(* polls and reads alternate is the matter of AaCmd; here they come in any *)
(* order.                                                                  *)
(***************************************************************************)
EXTENDS VideoAssembly, MediaRing

(* What the ring is used for: the units of the phone.                      *)
ASSUME UnitsAssumption ==
  Frames = {Whole(u, n) : u \in 1..MaxUnits, n \in 1..MaxFrags}

assembly == <<phone, assy, video>>
pathVars == <<assembly, ringVars>>

PathTypeOK == TypeOK /\ RingTypeOK

PathInit == Init /\ RingInit

(* iaap_video_decode of a unit that was just completed.                    *)
Decode(f) == Write(f) \/ Drop(f)

(* A message of the phone; two units in succession always differ.          *)
PathVideo ==
  /\ VideoMessage
  /\ IF video' = video THEN UNCHANGED ringVars ELSE Decode(video')

PathOther == (Begin \/ OtherMessage) /\ UNCHANGED ringVars

(* jni_aa_cmd takes what is at the head of the ring.                       *)
PathRead == (Read \/ ReadNothing) /\ UNCHANGED assembly

PathNext == PathVideo \/ PathOther \/ PathRead

PathSpec == PathInit /\ [][PathNext]_pathVars

-----------------------------------------------------------------------------
(* What waits for the application are whole units in the order in which the
   phone sent them, whatever was dropped between them and however often the
   session was lost: no unit is queued twice and none in parts.               *)
QueuedInOrder ==
  /\ \A i \in 1..Bufs : Queued[i] = Whole(Queued[i][1].unit, Len(Queued[i]))
  /\ \A i, j \in 1..Bufs : i < j => Queued[i][1].unit < Queued[j][1].unit
=============================================================================
