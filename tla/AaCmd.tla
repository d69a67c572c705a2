-------------------------------- MODULE AaCmd --------------------------------
(***************************************************************************)
(* jni_aa_cmd (hu.c): the one call through which the application drives    *)
(* the Android Auto session and gets back what the phone sent.  A call     *)
(* starts the session, sends a message or polls; then it returns at most   *)
(* one thing: a notification, or a buffer of the audio or video ring.      *)
(*                                                                         *)
(* The session is reduced to up and down (AapSession has its inside), the  *)
(* rings to their indices (MediaRing has their contents).  A call is a few *)
(* steps, because a poll handles the messages of one read one by one.      *)
(***************************************************************************)
EXTENDS Integers, FiniteSets

CONSTANTS
  NumBufs,       \* slots of each ring, 16 in hu_uti.c
  Chans,         \* audio output channels: {3, 4, 5}, the results that report them
  MsgsPerRead,   \* messages one read may bring, a bound of the model
  MaxEmpty       \* audio buffers without audio that wait at once, a bound of the model

ASSUME CmdAssumption ==
  /\ NumBufs \in Nat \ {0, 1}
  /\ \E k \in 1..NumBufs : NumBufs = 2 ^ k
  /\ Chans \subseteq 3..5
  /\ MsgsPerRead \in Nat \ {0}
  /\ MaxEmpty \in Nat

VARIABLES
  session,            \* "up" or "down"
  vid_buf_buf_tail, vid_buf_buf_head,
  aud_buf_buf_tail, aud_buf_buf_head,
  aud_empty,          \* the queued audio buffers whose aud_buf_lens is 0
  mic_change_status,  \* 0 = no change, 1 = stop, 2 = start
  out_stopped,        \* the channels whose out_state_* is 1
  vid_bufs,           \* local of the call: the queued video it saw when it began
  msgs,               \* messages of the running read still to be handled
  pc,                 \* "idle", "recv" (in hu_aap_recv_process), "result"
  res                 \* the result of the last call

rings == <<vid_buf_buf_tail, vid_buf_buf_head, aud_buf_buf_tail, aud_buf_buf_head, aud_empty>>
latches == <<mic_change_status, out_stopped>>
vars == <<session, rings, latches, vid_bufs, msgs, pc, res>>

Vid == INSTANCE MediaRing WITH buf_tail <- vid_buf_buf_tail, buf_head <- vid_buf_buf_head,
         buf_bufs <- "any", ret <- "any", Frames <- {}, TooBig <- {},
         Nothing <- "NULL", Stored <- "slot", Refused <- "NULL"

Aud == INSTANCE MediaRing WITH buf_tail <- aud_buf_buf_tail, buf_head <- aud_buf_buf_head,
         buf_bufs <- "any", ret <- "any", Frames <- {}, TooBig <- {},
         Nothing <- "NULL", Stored <- "slot", Refused <- "NULL"

(* The results that are a number: an error, nothing, and the notifications 1..5.
   The length of a buffer is reduced to which ring the buffer is from.        *)
Failed == -1
Nothing == 0
AudioData == 6
VideoData == 7
Results == Failed..VideoData

TypeOK ==
  /\ session \in {"up", "down"}
  /\ {vid_buf_buf_tail, vid_buf_buf_head, aud_buf_buf_tail, aud_buf_buf_head}
       \subseteq 0..(NumBufs - 1)
  /\ aud_empty \subseteq 0..(NumBufs - 1)
  /\ mic_change_status \in 0..2
  /\ out_stopped \subseteq Chans
  /\ vid_bufs \in (1 - NumBufs)..(NumBufs - 1)
  /\ msgs \in 0..MsgsPerRead
  /\ pc \in {"idle", "recv", "result"}
  /\ res \in Results

Init ==
  /\ session = "down"
  /\ vid_buf_buf_tail = 0 /\ vid_buf_buf_head = 0
  /\ aud_buf_buf_tail = 0 /\ aud_buf_buf_head = 0 /\ aud_empty = {}
  /\ mic_change_status = 0 /\ out_stopped = {}
  /\ vid_bufs = 0 /\ msgs = 0
  /\ pc = "idle"
  /\ res = Nothing

-----------------------------------------------------------------------------
(* The four kinds of call.                                                 *)

(* The locals of the call: both counts are made of the indices of the video
   ring, and the difference is not wrapped.                                   *)
Begins == pc = "idle" /\ vid_bufs' = vid_buf_buf_tail - vid_buf_buf_head

Error == pc' = "idle" /\ res' = Failed /\ UNCHANGED <<rings, latches, msgs>>

Goes(where) == pc' = where /\ UNCHANGED <<rings, latches, msgs, res>>

Start ==
  /\ Begins
  /\ \/ session' = "up" /\ Goes("result")
     \/ session = "down" /\ session' = "down" /\ Error

(* hu_aap_enc_send reports success although the transport failed.          *)
Send ==
  /\ Begins
  /\ \/ session = "up" /\ session' \in {"up", "down"} /\ Goes("result")
     \/ session' = "down" /\ Error

(* The result is that of hu_aap_stop.                                      *)
Byebye ==
  /\ Begins
  /\ session' = "down"
  /\ Goes("result")

(* Mutant: with nothing queued the poll does not look at the session.      *)
PollIdles ==
  /\ Begins
  /\ Goes("result")
  /\ UNCHANGED session

Poll ==
  /\ Begins
  /\ \/ vid_bufs' > 0 /\ UNCHANGED session /\ Goes("result")
     \/ vid_bufs' <= 0 /\ session = "down" /\ UNCHANGED session /\ Error
     \/ /\ vid_bufs' <= 0 /\ session = "up"
        /\ msgs' \in 0..MsgsPerRead
        /\ pc' = "recv"
        /\ UNCHANGED <<session, rings, latches, res>>

-----------------------------------------------------------------------------
(* hu_aap_recv_process: the messages that leave something for the caller.  *)

(* Mutant: one message more is handled than the read brought.              *)
MessageTooMany ==
  /\ pc = "recv"
  /\ msgs' = msgs - 1
  /\ session' \in {session, "down"}
  /\ UNCHANGED <<vid_bufs, pc, res>>

(* A message is answered, and the send may bring the session down; what the
   message brought is kept all the same.                                      *)
Message ==
  /\ pc = "recv" /\ msgs > 0
  /\ msgs' = msgs - 1
  /\ session' \in {session, "down"}
  /\ UNCHANGED <<vid_bufs, pc, res>>

RecvVideo ==
  /\ Message
  /\ vid_buf_buf_tail' = IF Vid!HasRoom THEN Vid!Step(vid_buf_buf_tail) ELSE vid_buf_buf_tail
  /\ UNCHANGED <<vid_buf_buf_head, aud_buf_buf_tail, aud_buf_buf_head, aud_empty, latches>>

(* The audio of a message is what comes after its ten bytes of header, if any. *)
RecvAudio ==
  /\ Message
  /\ IF Aud!HasRoom
     THEN /\ aud_buf_buf_tail' = Aud!Step(aud_buf_buf_tail)
          /\ \/ UNCHANGED aud_empty
             \/ Cardinality(aud_empty) < MaxEmpty /\ aud_empty' = aud_empty \cup {aud_buf_buf_tail'}
     ELSE UNCHANGED <<aud_buf_buf_tail, aud_empty>>
  /\ UNCHANGED <<vid_buf_buf_tail, vid_buf_buf_head, aud_buf_buf_head, latches>>

RecvMic ==
  /\ Message
  /\ mic_change_status' \in {1, 2}
  /\ UNCHANGED <<rings, out_stopped>>

RecvAudioStop ==
  /\ Message
  /\ \E c \in Chans : out_stopped' = out_stopped \cup {c}
  /\ UNCHANGED <<rings, mic_change_status>>

RecvOther == Message /\ UNCHANGED <<rings, latches>>

RecvEnds ==
  /\ pc = "recv" /\ msgs = 0
  /\ pc' = "result"
  /\ UNCHANGED <<session, rings, latches, vid_bufs, msgs, res>>

RecvFails ==
  /\ pc = "recv"
  /\ session' = "down"
  /\ msgs' = 0
  /\ pc' = "idle"
  /\ res' = Failed
  /\ UNCHANGED <<rings, latches, vid_bufs>>

-----------------------------------------------------------------------------
(* The result of a call that did not fail.                                 *)

Returns(r) == pc = "result" /\ pc' = "idle" /\ res' = r /\ UNCHANGED <<session, vid_bufs, msgs>>

(* Mutant: an empty ring is taken for one with video.                      *)
QueuedOffByOne == vid_bufs < 0

NothingQueued == vid_bufs <= 0

NotifyMic ==
  /\ NothingQueued /\ mic_change_status # 0
  /\ Returns(mic_change_status)
  /\ mic_change_status' = 0
  /\ UNCHANGED <<rings, out_stopped>>

(* Mutant: asking a channel resets the others too.                         *)
NotifyOutResetsAll ==
  /\ NothingQueued /\ mic_change_status = 0
  /\ \E c \in out_stopped :
       /\ \A d \in out_stopped : c <= d
       /\ Returns(c)
  /\ out_stopped' = {}
  /\ UNCHANGED <<rings, mic_change_status>>

(* The channels are asked in order, and the asking of one resets it.       *)
NotifyOut ==
  /\ NothingQueued /\ mic_change_status = 0
  /\ \E c \in out_stopped :
       /\ \A d \in out_stopped : c <= d
       /\ Returns(c)
       /\ out_stopped' = out_stopped \ {c}
  /\ UNCHANGED <<rings, mic_change_status>>

NoNotification == ~NothingQueued \/ (mic_change_status = 0 /\ out_stopped = {})

(* The result is the length of the buffer: an empty one is taken and nothing
   returned, although more may be queued.                                     *)
Length == IF aud_buf_buf_head' \in aud_empty THEN Nothing ELSE AudioData

DeliverAudio ==
  /\ NoNotification
  /\ Aud!Bufs > 0
  /\ aud_buf_buf_head' = Aud!Step(aud_buf_buf_head)
  /\ aud_empty' = aud_empty \ {aud_buf_buf_head'}
  /\ Returns(Length)
  /\ UNCHANGED <<aud_buf_buf_tail, vid_buf_buf_tail, vid_buf_buf_head, latches>>

DeliverVideo ==
  /\ NoNotification
  /\ Aud!Bufs <= 0 /\ Vid!Bufs > 0
  /\ Returns(VideoData)
  /\ vid_buf_buf_head' = Vid!Step(vid_buf_buf_head)
  /\ UNCHANGED <<vid_buf_buf_tail, aud_buf_buf_tail, aud_buf_buf_head, aud_empty, latches>>

DeliverNothing ==
  /\ NoNotification
  /\ Aud!Bufs <= 0 /\ Vid!Bufs <= 0
  /\ Returns(Nothing)
  /\ UNCHANGED <<rings, latches>>

-----------------------------------------------------------------------------
Tick == Send \/ Poll

RecvStep ==
  \/ RecvVideo \/ RecvAudio \/ RecvMic \/ RecvAudioStop \/ RecvOther
  \/ RecvEnds \/ RecvFails

ResultStep == NotifyMic \/ NotifyOut \/ DeliverAudio \/ DeliverVideo \/ DeliverNothing

Next == Start \/ Byebye \/ Tick \/ RecvStep \/ ResultStep

Spec == Init /\ [][Next]_vars

(* main (main_auto.cpp) calls AUTO_tick in a loop until it returns an error; the
   start and the Byebye are made once, so they do not keep ticks from happening.
   The code of a call has no unbounded loop.                                  *)
FairSpec == Spec /\ SF_vars(res # Failed /\ Tick) /\ WF_vars(RecvStep) /\ WF_vars(ResultStep)

-----------------------------------------------------------------------------
(* Properties.                                                             *)

(* hu_aap_mic_get and hu_aap_out_get reset what they return, and a buffer is
   gone from its ring once it was asked for: whatever a call takes away it also
   returns to its caller, but for an audio buffer without audio.  And the result
   Nothing is the truth, but for such a buffer: a call that skips the notifications,
   because of the video it saw when it began, has video to return at its end.  *)
NothingSwallowed ==
  [][/\ mic_change_status' = 0 => mic_change_status \in {0, res'}
     /\ out_stopped \ out_stopped' \subseteq {res'}
     /\ vid_buf_buf_head' # vid_buf_buf_head => res' = VideoData
     /\ aud_buf_buf_head' # aud_buf_buf_head =>
          res' = AudioData \/ aud_buf_buf_head' \in aud_empty
     /\ pc = "result" /\ res' = Nothing /\ aud_buf_buf_head' = aud_buf_buf_head =>
          Vid!Bufs = 0 /\ Aud!Bufs = 0 /\ mic_change_status = 0 /\ out_stopped = {}]_vars

(* While the session is up, the application learns that the phone started or
   stopped the microphone, even if the phone never stops sending media.       *)
MicTold ==
  <>[](session = "up") => (mic_change_status # 0 ~> mic_change_status = 0)

(* While the session is up and the phone is silent, the application gets all
   that was received: the checks of jni_aa_cmd never leave a buffer or a
   notification behind for good.                                              *)
Drained ==
  <>[](session = "up") /\ <>[][msgs' = msgs]_vars
    => <>[](Vid!Bufs = 0 /\ Aud!Bufs = 0 /\ mic_change_status = 0 /\ out_stopped = {})

(* The application is told that the session is lost by the error of a call,
   although calls that only empty the rings do not look at the session.       *)
LossReported == session = "down" ~> res = Failed \/ session = "up"

(* "If any queue audio or video... Do nothing (don't wait for recv
   iaap_tra_recv_tmo)" (hu.c:88): a poll reads only when both rings are empty. *)
ReceivesOnlyWhenEmpty ==
  [][pc = "idle" /\ pc' = "recv" => Vid!Bufs = 0 /\ Aud!Bufs = 0]_vars
=============================================================================
