------------------------------ MODULE HeadUnit ------------------------------
(***************************************************************************)
(* The application of the head unit (main_auto.cpp and AndroidAuto.cpp):   *)
(* the loop of ticks, each of which asks the panel (TouchInput) and the    *)
(* microphone (MicCapture) for a message and passes it to jni_aa_cmd; the  *)
(* codec, which the main thread fills and the display thread empties; and  *)
(* the end, by a signal or by an error of a call.                          *)
(*                                                                         *)
(* jni_aa_cmd is a choice of its results (AaCmd has its inside); the codec *)
(* is a store of frames that takes a few, and may fail for good.           *)
(***************************************************************************)
EXTENDS TouchInput, MicCapture

CONSTANTS
  MicData,    \* a microphone message
  NumBuffers, \* frames the codec takes until one is rendered
  MaxInputs   \* reports of the panel and captures, a bound of the model

ASSUME HeadAssumption ==
  /\ MicData \notin [action : {"DOWN", "UP", "MOVE"}, X : Nat, Y : Nat] \cup {None}
  /\ NumBuffers \in Nat \ {0}
  /\ MaxInputs \in Nat

VARIABLES
  step,       \* of the main thread: "init", "loop", "mic", "call", "decode", "byebye", "join", "over"
  cmd,        \* the message in cmd_buf: a touch message, MicData or None
  seen,       \* what the phone has seen of the finger
  lost,       \* the session is down: it did not start, or a call has lost or ended it
  gMicOn, gQuit, gStopDisplayThread,
  display,    \* the display thread: "none", "running", "render" or "ended"
  codec,      \* gCodec: "none", "started", "failed" or "released"
  frames      \* the frames in it that are not rendered

mainVars == <<step, cmd, seen, lost, gMicOn>>
flags == <<gQuit, gStopDisplayThread>>
codecVars == <<codec, frames>>
vars == <<touchVars, micVars, mainVars, flags, display, codecVars>>

TypeOK ==
  /\ TouchTypeOK /\ MicTypeOK
  /\ step \in {"init", "loop", "mic", "call", "decode", "byebye", "join", "over"}
  /\ cmd \in [action : {"DOWN", "UP", "MOVE"}, X : 0..800, Y : 0..480] \cup {MicData, None}
  /\ seen \in [down : BOOLEAN, X : 0..800, Y : 0..480]
  /\ {lost, gMicOn, gQuit, gStopDisplayThread} \subseteq BOOLEAN
  /\ display \in {"none", "running", "render", "ended"}
  /\ codec \in {"none", "started", "failed", "released"}
  /\ frames \in 0..NumBuffers

Init ==
  /\ TouchInit /\ MicInit
  /\ step = "init" /\ cmd = None
  /\ seen = [down |-> FALSE, X |-> 0, Y |-> 0]
  /\ lost = FALSE /\ gMicOn = FALSE /\ gQuit = FALSE /\ gStopDisplayThread = FALSE
  /\ display = "none"
  /\ codec = "none" /\ frames = 0

-----------------------------------------------------------------------------
(* AUTO_init: an error ends the program without AUTO_exit; the result of the start
   of the session is not one, it is not looked at.                            *)
InitOk ==
  /\ step = "init" /\ step' = "loop"
  /\ lost' \in {lost, TRUE}
  /\ codec' = "started" /\ display' = "running"
  /\ UNCHANGED <<touchVars, micVars, cmd, seen, gMicOn, flags, frames>>

InitFails ==
  /\ step = "init" /\ step' = "over"
  /\ UNCHANGED <<touchVars, micVars, cmd, seen, lost, gMicOn, flags, display, codecVars>>

-----------------------------------------------------------------------------
(* AUTO_tick                                                               *)

(* Mutant: the microphone is asked even if there is a touch message.       *)
AsksMicAlways(m) == gMicOn

(* A touch message goes before the microphone.                             *)
AsksMic(m) == gMicOn /\ m = None

AsksTouch ==
  /\ step = "loop" /\ ~gQuit
  /\ \E m \in {None, Message(event)} : GetAction(m) /\ cmd' = m
  /\ step' = IF AsksMic(cmd') THEN "mic" ELSE "call"
  /\ UNCHANGED <<micVars, seen, lost, gMicOn, flags, display, codecVars>>

(* MIC_getData, which returns with the capture or with nothing.            *)
TakesCapture ==
  /\ step = "mic"
  /\ \/ NoData /\ cmd' = None /\ step' = "call"
     \/ (HasData \/ Copies) /\ UNCHANGED <<cmd, step>>
     \/ Subtracts /\ cmd' = MicData /\ step' = "call"
  /\ UNCHANGED <<touchVars, seen, lost, gMicOn, flags, display, codecVars>>

IsTouch(m) == m \notin {MicData, None}

(* What the phone makes of a touch message.                                *)
Sees(m) ==
  [down |-> IF m.action = "MOVE" THEN seen.down ELSE m.action = "DOWN", X |-> m.X, Y |-> m.Y]

(* jni_aa_cmd, which may lose the session and still return no error: the result of
   the transfer of a message is discarded, and it may have failed before or after
   the message arrived.  On a session that is down a message is an error, and a
   poll without error has only returned media that were queued.
   0 and 3 to 5 change nothing; audio goes to the AudioTrack.                 *)
Calls ==
  /\ step = "call"
  /\ lost => cmd = None
  /\ lost' \in {lost, TRUE}
  /\ IF IsTouch(cmd)
     THEN seen' \in (IF lost' THEN {seen} ELSE {}) \cup {Sees(cmd)}
     ELSE UNCHANGED seen
  /\ cmd' = None
  /\ \/ gMicOn' \in (IF lost THEN {gMicOn} ELSE BOOLEAN) /\ step' = "loop"
     \/ UNCHANGED gMicOn /\ step' = "decode"
  /\ UNCHANGED <<touchVars, micVars, flags, display, codecVars>>

(* Every error return has stopped the session, or found it stopped.         *)
CallFails ==
  /\ step = "call" /\ step' = "byebye"
  /\ cmd' = None /\ lost' = TRUE
  /\ UNCHANGED <<touchVars, micVars, seen, gMicOn, flags, display, codecVars>>

(* decodeHwFrame asks for an input buffer until it gets one.               *)
Decode ==
  /\ step = "decode" /\ codec = "started" /\ frames < NumBuffers
  /\ frames' = frames + 1
  /\ step' = "loop"
  /\ UNCHANGED <<touchVars, micVars, cmd, seen, lost, gMicOn, flags, display, codec>>

-----------------------------------------------------------------------------
(* The end of main, and AUTO_exit.                                         *)
Quits ==
  /\ step = "loop" /\ gQuit
  /\ step' = "byebye"
  /\ UNCHANGED <<touchVars, micVars, cmd, seen, lost, gMicOn, flags, display, codecVars>>

Byebye ==
  /\ step = "byebye" /\ step' = "join"
  /\ lost' = TRUE /\ gStopDisplayThread' = TRUE
  /\ UNCHANGED <<touchVars, micVars, cmd, seen, gMicOn, gQuit, display, codecVars>>

(* The call has no buffer for a result: media that is queued is copied to NULL. *)
ByebyeCrashes ==
  /\ step = "byebye" /\ step' = "over"
  /\ lost' = TRUE /\ display' = "none"
  /\ UNCHANGED <<touchVars, micVars, cmd, seen, gMicOn, flags, codecVars>>

(* Mutant: the codec is stopped as soon as the display thread was told.     *)
JoinedEarly == gStopDisplayThread

Joined == display = "ended"

Joins ==
  /\ step = "join" /\ Joined
  /\ codec' = "released"
  /\ step' = "over"
  /\ UNCHANGED <<touchVars, micVars, cmd, seen, lost, gMicOn, flags, display, frames>>

got_signal ==
  /\ step # "over"
  /\ gQuit' = TRUE
  /\ UNCHANGED <<touchVars, micVars, mainVars, gStopDisplayThread, display, codecVars>>

-----------------------------------------------------------------------------
(* displayThread                                                           *)

(* Mutant: the flag is not looked at again.                                *)
NeverStops == FALSE

Stops == gStopDisplayThread

DequeuesOutput ==
  /\ display = "running" /\ ~Stops
  /\ codec = "started" /\ frames > 0
  /\ display' = "render"
  /\ UNCHANGED <<touchVars, micVars, mainVars, flags, codecVars>>

Renders ==
  /\ display = "render"
  /\ display' = "running"
  /\ frames' = IF codec = "started" THEN frames - 1 ELSE frames
  /\ UNCHANGED <<touchVars, micVars, mainVars, flags, codec>>

DisplayEnds ==
  /\ display = "running" /\ Stops
  /\ display' = "ended"
  /\ UNCHANGED <<touchVars, micVars, mainVars, flags, codecVars>>

-----------------------------------------------------------------------------
(* No frame goes in or out any more.                                       *)
CodecFails ==
  /\ step # "over" /\ codec = "started"
  /\ codec' = "failed"
  /\ UNCHANGED <<touchVars, micVars, mainVars, flags, display, frames>>

Main ==
  \/ InitOk \/ InitFails \/ AsksTouch \/ TakesCapture \/ Calls \/ CallFails \/ Decode
  \/ Quits \/ Byebye \/ ByebyeCrashes \/ Joins

Display == DequeuesOutput \/ Renders \/ DisplayEnds

Outside ==
  \/ /\ step # "over" /\ reports + captured < MaxInputs
     /\ Touched /\ UNCHANGED <<event, micVars, mainVars, flags, display, codecVars>>
  \/ /\ step \notin {"init", "over"}
     /\ writer = "wait" => reports + captured < MaxInputs
     /\ Capture /\ UNCHANGED <<touchVars, mainVars, flags, display, codecVars>>
  \/ got_signal \/ CodecFails

Next == Main \/ Display \/ Outside

Spec == Init /\ [][Next]_vars

(* The scheduler runs both threads, a codec that has not failed decodes, and all
   calls of jni_aa_cmd come back.                                             *)
FairSpec == Spec /\ WF_vars(Main) /\ WF_vars(Display)

-----------------------------------------------------------------------------
(* The finger that the phone has seen last is that on the panel.           *)
Shown ==
  /\ finger.down <=> seen.down
  /\ finger.down => seen.X = Scaled(finger.at.x, 800) /\ seen.Y = Scaled(finger.at.y, 480)

(* At every moment at which no event waits and no message is under way, the phone
   sees the finger as it is: whatever was folded over many ticks has been told,
   and no tick that was given to the microphone or to video has taken the place
   of a message, as long as the kernel has dropped nothing and the session is up.
   A message that is lost with the session is told by no later one: hu_aap_enc_send
   discards the result of hu_aap_tra_send, and the next message fails.        *)
Settled ==
  /\ kernel = <<>> /\ ~dropped /\ ~lost
  /\ step \in {"init", "loop", "mic", "call", "decode"}
  /\ ~(step = "call" /\ IsTouch(cmd))
  => Shown

(* Once the finger rests, or has left, the phone sees it as it is, although an
   event is read per tick only, ticks are spent on the microphone and on video,
   and reports come in pieces: as long as the kernel has dropped nothing and the
   session is up.                                                             *)
CaughtUp ==
  /\ <>[][FALSE]_finger
  /\ [](~dropped /\ ~lost /\ step \notin {"byebye", "over"} /\ codec # "failed")
  => <>[]Shown

(* The phone sees gestures: in what a session sends to it a finger goes down that is up,
   and leaves that is down, although an event is read per tick only, a report
   comes in pieces and the kernel may have dropped events of it, KEYs too.  It
   moves only while it is down, if none were dropped.                         *)
Gestures ==
  step = "call" /\ IsTouch(cmd) /\ ~lost =>
    /\ cmd.action = "DOWN" => ~seen.down
    /\ cmd.action = "UP" => seen.down
    /\ cmd.action = "MOVE" => seen.down \/ dropped

(* The codec is not released while the display thread uses it, whichever of the
   two ways the program ends.                                                 *)
CodecInUse == display = "render" => codec # "released"

(* After a signal the program ends, although the loop looks at it once a tick and
   a frame of video is tried until the codec takes it: unless the codec failed.  *)
Exits == gQuit ~> step = "over" \/ codec = "failed"
=============================================================================
