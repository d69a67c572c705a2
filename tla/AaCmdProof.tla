----------------------------- MODULE AaCmdProof -----------------------------
(***************************************************************************)
(* jni_aa_cmd for every size of the rings and any number of messages in a  *)
(* read: the indices stay in the rings, and what a call takes away it      *)
(* returns.                                                                *)
(***************************************************************************)
EXTENDS AaCmd, TLAPS

Indices == 0..(NumBufs - 1)

LEMMA StepIn ==
  \A i \in Indices : Vid!Step(i) \in Indices /\ Aud!Step(i) \in Indices
BY CmdAssumption DEF CmdAssumption, Indices, Vid!Step, Aud!Step

(* There are two slots at least.                                           *)
LEMMA StepMoves == \A i \in Indices : Aud!Step(i) # i
BY CmdAssumption DEF CmdAssumption, Indices, Aud!Step

RingsOK ==
  /\ {vid_buf_buf_tail, vid_buf_buf_head, aud_buf_buf_tail, aud_buf_buf_head} \subseteq Indices
  /\ aud_empty \subseteq Indices

CallOK ==
  /\ session \in {"up", "down"}
  /\ mic_change_status \in 0..2
  /\ out_stopped \subseteq Chans
  /\ vid_bufs \in (1 - NumBufs)..(NumBufs - 1)
  /\ msgs \in 0..MsgsPerRead
  /\ pc \in {"idle", "recv", "result"}
  /\ res \in Results

LEMMA TypeParts == TypeOK <=> RingsOK /\ CallOK
BY DEF TypeOK, RingsOK, CallOK, Indices

LEMMA InitTyped == Init => TypeOK
<1> SUFFICES ASSUME Init PROVE RingsOK /\ CallOK
  BY TypeParts
<1>1. NumBufs \in Nat /\ NumBufs > 0 /\ MsgsPerRead \in Nat
  BY CmdAssumption DEF CmdAssumption
<1> QED BY <1>1 DEF Init, RingsOK, CallOK, Indices, Results, Nothing, Failed, VideoData

(* Only a message and a delivery move an index, by one Step.               *)
LEMMA RingsTyped == ASSUME RingsOK, [Next]_vars PROVE RingsOK'
<1>1. CASE UNCHANGED rings
  BY <1>1 DEF rings, RingsOK
<1>2. CASE RecvVideo \/ RecvAudio \/ DeliverAudio \/ DeliverVideo
  BY <1>2, StepIn DEF RecvVideo, RecvAudio, DeliverAudio, DeliverVideo, RingsOK
<1> QED BY <1>1, <1>2
        DEF Next, Start, Byebye, Tick, Send, Poll, RecvStep, ResultStep, Error, Goes, RecvMic, RecvAudioStop,
            RecvOther, RecvEnds, RecvFails, NotifyMic, NotifyOut, DeliverNothing, vars

(* The results of a call.                                                  *)
LEMMA ResultRange ==
  /\ {Failed, Nothing, AudioData, VideoData} \subseteq Results
  /\ 0..2 \subseteq Results
  /\ Chans \subseteq Results
BY CmdAssumption DEF CmdAssumption, Results, Failed, Nothing, AudioData, VideoData

LEMMA BeginsTyped ==
  ASSUME RingsOK, Begins
  PROVE  vid_bufs' \in (1 - NumBufs)..(NumBufs - 1)
BY CmdAssumption DEF CmdAssumption, RingsOK, Indices, Begins

LEMMA CallTyped == ASSUME RingsOK, CallOK, [Next]_vars PROVE CallOK'
<1> USE DEF CallOK
<1>0. MsgsPerRead \in Nat
  BY CmdAssumption DEF CmdAssumption
<1>1. CASE Start \/ Send \/ Byebye \/ Poll
  <2>1. vid_bufs' \in (1 - NumBufs)..(NumBufs - 1)
    BY <1>1, BeginsTyped DEF Start, Send, Byebye, Poll
  <2>2. msgs' \in 0..MsgsPerRead
    BY <1>1 DEF Start, Send, Byebye, Poll, Error, Goes
  <2>3. res' \in Results
    BY <1>1, ResultRange DEF Start, Send, Byebye, Poll, Error, Goes
  <2>4. session' \in {"up", "down"} /\ pc' \in {"idle", "recv", "result"}
    BY <1>1 DEF Start, Send, Byebye, Poll, Error, Goes
  <2>5. UNCHANGED latches
    BY <1>1 DEF Start, Send, Byebye, Poll, Error, Goes
  <2> QED BY <2>1, <2>2, <2>3, <2>4, <2>5 DEF latches
<1>2. CASE RecvVideo \/ RecvAudio \/ RecvMic \/ RecvOther
  BY <1>0, <1>2 DEF RecvVideo, RecvAudio, RecvMic, RecvOther, Message, latches
<1>3. CASE RecvAudioStop
  <2>1. out_stopped' \subseteq Chans
    BY <1>3 DEF RecvAudioStop
  <2> QED BY <1>0, <1>3, <2>1 DEF RecvAudioStop, Message
<1>4. CASE RecvEnds \/ RecvFails
  <2>1. msgs' \in 0..MsgsPerRead /\ res' \in Results
    BY <1>0, <1>4, ResultRange DEF RecvEnds, RecvFails
  <2> QED BY <1>4, <2>1 DEF RecvEnds, RecvFails, latches
<1>5. CASE NotifyMic \/ DeliverAudio \/ DeliverVideo \/ DeliverNothing
  <2>1. res' \in Results
    BY <1>5, ResultRange DEF NotifyMic, DeliverAudio, DeliverVideo, DeliverNothing, Returns, Length
  <2>2. mic_change_status' \in 0..2 /\ out_stopped' \subseteq Chans
    BY <1>5 DEF NotifyMic, DeliverAudio, DeliverVideo, DeliverNothing, latches
  <2> QED BY <1>5, <2>1, <2>2 DEF NotifyMic, DeliverAudio, DeliverVideo, DeliverNothing, Returns
<1>6. CASE NotifyOut
  BY <1>6, ResultRange DEF NotifyOut, Returns
<1>7. CASE UNCHANGED vars
  BY <1>7 DEF vars, latches
<1> QED BY <1>1, <1>2, <1>3, <1>4, <1>5, <1>6, <1>7 DEF Next, Tick, RecvStep, ResultStep

(* The indices of both rings stay inside them, the results are those jni_aa_cmd
   is documented to have, and the count of a call stays within the ring although
   it is a difference that is not wrapped.                                    *)
THEOREM TypeCorrect == Spec => []TypeOK
<1>1. TypeOK /\ [Next]_vars => TypeOK'
  <2> SUFFICES ASSUME TypeOK, [Next]_vars PROVE TypeOK'
    OBVIOUS
  <2>1. RingsOK' /\ CallOK'
    BY TypeParts, RingsTyped, CallTyped
  <2> QED BY <2>1 DEF TypeOK, RingsOK, CallOK, Indices
<1> QED BY InitTyped, <1>1, PTL DEF Spec

(* The video that a call has seen at its beginning is still there at its end,
   and a call that reads has seen none.                                       *)
SeenQueued ==
  /\ pc = "recv" => vid_bufs <= 0
  /\ pc = "result" /\ vid_bufs > 0 => Vid!Bufs > 0

LEMMA BeginsSeen ==
  ASSUME RingsOK, Begins, UNCHANGED rings
  PROVE  vid_bufs' > 0 => Vid!Bufs' > 0
BY CmdAssumption DEF CmdAssumption, RingsOK, Indices, Begins, rings, Vid!Bufs

LEMMA SeenStep == ASSUME TypeOK, SeenQueued, [Next]_vars PROVE SeenQueued'
<1>0. RingsOK
  BY TypeParts
<1>1. CASE Start \/ Send \/ Byebye \/ Poll
  <2>1. Begins /\ UNCHANGED rings /\ (pc' = "recv" => vid_bufs' <= 0)
    BY <1>1 DEF Start, Send, Byebye, Poll, Error, Goes
  <2> QED BY <1>0, <2>1, BeginsSeen DEF SeenQueued
<1>2. CASE RecvStep
  <2>1. vid_bufs' <= 0
    BY <1>2 DEF SeenQueued, RecvStep, RecvVideo, RecvAudio, RecvMic, RecvAudioStop, RecvOther, Message,
                RecvEnds, RecvFails
  <2>2. vid_bufs' \in Int
    BY <1>2 DEF TypeOK, RecvStep, RecvVideo, RecvAudio, RecvMic, RecvAudioStop, RecvOther, Message,
                RecvEnds, RecvFails
  <2> QED BY <2>1, <2>2 DEF SeenQueued
<1>3. CASE ResultStep
  BY <1>3 DEF SeenQueued, ResultStep, NotifyMic, NotifyOut, DeliverAudio, DeliverVideo, DeliverNothing, Returns
<1>4. CASE UNCHANGED vars
  BY <1>4 DEF vars, rings, SeenQueued, Vid!Bufs
<1> QED BY <1>1, <1>2, <1>3, <1>4 DEF Next, Tick

LEMMA SeenAlways == Spec => []SeenQueued
<1>1. Init => SeenQueued
  BY DEF Init, SeenQueued
<1>2. TypeOK /\ SeenQueued /\ [Next]_vars => SeenQueued'
  BY SeenStep
<1> QED BY <1>1, <1>2, TypeCorrect, PTL DEF Spec

(* What a step takes from the latches and the rings is its result.         *)
Swallows ==
  /\ mic_change_status' = 0 => mic_change_status \in {0, res'}
  /\ out_stopped \ out_stopped' \subseteq {res'}
  /\ vid_buf_buf_head' # vid_buf_buf_head => res' = VideoData
  /\ aud_buf_buf_head' # aud_buf_buf_head =>
       res' = AudioData \/ aud_buf_buf_head' \in aud_empty

NothingMeansEmpty ==
  pc = "result" /\ res' = Nothing /\ aud_buf_buf_head' = aud_buf_buf_head =>
    Vid!Bufs = 0 /\ Aud!Bufs = 0 /\ mic_change_status = 0 /\ out_stopped = {}

LEMMA NextSwallows == Next => Swallows
<1> SUFFICES ASSUME Next PROVE Swallows
  OBVIOUS
<1> USE DEF Swallows
<1>1. CASE UNCHANGED latches /\ UNCHANGED <<vid_buf_buf_head, aud_buf_buf_head>>
  BY <1>1 DEF latches
<1>2. CASE RecvMic
  BY <1>2 DEF RecvMic, rings
<1>3. CASE RecvAudioStop
  BY <1>3 DEF RecvAudioStop, rings
<1>4. CASE NotifyMic
  BY <1>4 DEF NotifyMic, Returns, rings
<1>5. CASE NotifyOut
  BY <1>5 DEF NotifyOut, Returns, rings
<1>6. CASE DeliverAudio
  BY <1>6 DEF DeliverAudio, Returns, Length, latches
<1>7. CASE DeliverVideo
  BY <1>7 DEF DeliverVideo, Returns, latches
<1> QED BY <1>1, <1>2, <1>3, <1>4, <1>5, <1>6, <1>7
        DEF Next, Start, Byebye, Tick, Send, Poll, RecvStep, ResultStep, Error, Goes, RecvVideo, RecvAudio,
            RecvOther, RecvEnds, RecvFails, DeliverNothing, rings

(* The counts of the rings are what they should be: no less than none.     *)
LEMMA BufsNat == ASSUME RingsOK PROVE Vid!Bufs \in Nat /\ Aud!Bufs \in Nat
BY CmdAssumption DEF CmdAssumption, RingsOK, Indices, Vid!Bufs, Aud!Bufs

LEMMA NothingStep == ASSUME TypeOK, SeenQueued, Next PROVE NothingMeansEmpty
<1> SUFFICES ASSUME pc = "result", res' = Nothing, aud_buf_buf_head' = aud_buf_buf_head
             PROVE  Vid!Bufs = 0 /\ Aud!Bufs = 0 /\ mic_change_status = 0 /\ out_stopped = {}
  BY DEF NothingMeansEmpty
<1>1. ResultStep
  BY DEF Next, Start, Byebye, Tick, Send, Poll, Begins, RecvStep, RecvVideo, RecvAudio, RecvMic,
         RecvAudioStop, RecvOther, Message, RecvEnds, RecvFails
<1>2. DeliverNothing
  <2>1. ~NotifyMic /\ ~DeliverAudio /\ ~DeliverVideo
    <3>1. Aud!Step(aud_buf_buf_head) # aud_buf_buf_head
      BY StepMoves, TypeParts DEF RingsOK
    <3> QED BY <3>1 DEF NotifyMic, DeliverAudio, DeliverVideo, Returns, Nothing, VideoData
  <2>2. ~NotifyOut
    <3>1. 0 \notin out_stopped
      BY CmdAssumption DEF CmdAssumption, TypeOK
    <3> QED BY <3>1 DEF NotifyOut, Returns, Nothing
  <2> QED BY <1>1, <2>1, <2>2 DEF ResultStep
<1>3. Vid!Bufs = 0 /\ Aud!Bufs = 0
  BY <1>2, BufsNat, TypeParts DEF DeliverNothing
<1>4. NothingQueued
  BY <1>3 DEF SeenQueued, NothingQueued, TypeOK
<1> QED BY <1>2, <1>3, <1>4 DEF DeliverNothing, NoNotification

(* Whatever a call takes away it returns, and if it returns nothing there is
   nothing, but for an audio buffer without audio, for every size of the rings and
   any number of channels and of messages between two calls.                  *)
THEOREM NothingSwallowedHolds == Spec => NothingSwallowed
<1>1. TypeOK /\ SeenQueued /\ [Next]_vars => [Swallows /\ NothingMeansEmpty]_vars
  BY NextSwallows, NothingStep
<1> QED BY <1>1, SeenAlways, TypeCorrect, PTL DEF Spec, NothingSwallowed, Swallows, NothingMeansEmpty

(* How many steps a call may still take.                                   *)
StepsLeft == CASE pc = "idle" -> 0 [] pc = "recv" -> msgs + 2 [] pc = "result" -> 1

(* A call ends, however many messages a read brings and whatever they change
   while the call is under way: every step of it takes off a number that is not
   negative.  A new call begins only when the last one has ended.             *)
CallEnds == [][pc # "idle" => StepsLeft \in Nat /\ StepsLeft' < StepsLeft]_vars

THEOREM CallEndsHolds == Spec => CallEnds
<1>1. ASSUME TypeOK, Next, pc # "idle" PROVE StepsLeft \in Nat /\ StepsLeft' < StepsLeft
  <2> USE DEF TypeOK, StepsLeft
  <2>1. msgs \in Nat
    BY <1>1, CmdAssumption DEF CmdAssumption
  <2>2. CASE RecvStep
    BY <1>1, <2>1, <2>2 DEF RecvStep, RecvVideo, RecvAudio, RecvMic, RecvAudioStop, RecvOther, Message,
                      RecvEnds, RecvFails
  <2>3. CASE ResultStep
    BY <1>1, <2>3 DEF ResultStep, NotifyMic, NotifyOut, DeliverAudio, DeliverVideo, DeliverNothing, Returns
  <2> QED BY <1>1, <2>2, <2>3 DEF Next, Start, Byebye, Tick, Send, Poll, Begins
<1>2. TypeOK /\ [Next]_vars => [pc # "idle" => StepsLeft \in Nat /\ StepsLeft' < StepsLeft]_vars
  BY <1>1
<1> QED BY <1>2, TypeCorrect, PTL DEF Spec, CallEnds
=============================================================================
