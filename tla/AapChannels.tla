----------------------------- MODULE AapChannels -----------------------------
(***************************************************************************)
(* The messages of a started session: the phone opens the channels of the  *)
(* head unit, sets the streams up, starts and stops them and sends media,  *)
(* and the handlers of aa_type_array (hu_aap.c) answer.                    *)
(*                                                                         *)
(* Every step is one of AapSession, which says how reads and sends go;     *)
(* here it is known which messages they carry.  The phone is external: it  *)
(* keeps to the order of a stream, has one request per channel under way,  *)
(* and at most one media message without an acknowledgement, as the        *)
(* MAX_UNACK of the head unit tells it.  Messages of several fragments are *)
(* the matter of VideoAssembly.                                            *)
(***************************************************************************)
EXTENDS AapSession, Sequences, FiniteSets

CONSTANTS
  Chans,      \* channels the phone uses
  Asked,      \* numbers of the control requests it makes
  Sids,       \* ids the phone gives its audio streams
  MaxQueue,   \* messages the phone is ahead of the head unit, a bound of the model
  MaxOpen     \* channels open at once besides the control channel, a bound of the model

Audio == {"AUD", "AU1", "AU2"}
Sinks == Audio \cup {"VID"}

ASSUME ChannelAssumption ==
  /\ Chans \subseteq Sinks \cup {"CTR", "SEN", "TOU", "MIC"}
  /\ "CTR" \in Chans
  /\ Asked \subseteq {5, 11, 13, 18}
  /\ Sids \subseteq 0..127       \* they fill one byte of a message
  /\ MaxQueue \in Nat /\ MaxOpen \in Nat

VARIABLES
  ack_val,   \* ack_val_aud, ack_val_au1 and ack_val_au2
  queue,     \* messages of the phone that no handler has had; the first of them have been read
  todo,      \* what the running handler still has to send
  phase,     \* per channel, for the phone: "closed", "open", "ready", "playing" or "leaving"
  sid,       \* the id the phone gave the stream of an audio channel
  due        \* the answer the phone waits for on a channel

phone == <<phase, sid, due>>
chanVars == <<ack_val, queue, todo, phone>>
allVars == <<vars, chanVars>>

-----------------------------------------------------------------------------
(* Messages by channel, number and value.  On most channels the numbers from
   0x8000 mean something of their own.                                        *)
Msg(c, n, v) == [chan |-> c, type |-> n, val |-> v]

NoAnswer == Msg("none", 0, 0)

Media == 0
SvcDiscReq == 5
OpenReq == 7
OpenRsp == 8
PingReq == 11
NavFocusReq == 13
ByebyeReq == 15
VoiceSession == 17
AudioFocusReq == 18
SetupReq == 32768      \* to a sink
StartReq == 32769      \* to a sink or a sensor
StopReq == 32770       \* to a sink
SensorRsp == 32770
BindReq == 32770       \* to the touch screen
Config == 32771        \* of a sink, of the touch screen, and the driving status
Ack == 32772
MicReq == 32773
VideoFocus == 32776

(* Requests on the control channel that are answered, each with the next number. *)
CtrReqs == {SvcDiscReq, PingReq, NavFocusReq, AudioFocusReq, ByebyeReq}

(* Which messages of the phone are answered.                               *)
IsRequest(m) ==
  \/ m.type \in CtrReqs \cup {OpenReq, SetupReq, Media}
  \/ m.type = StartReq /\ m.chan = "SEN"
  \/ m.type = BindReq /\ m.chan = "TOU"

Unsolicited == {Msg("SEN", Config, 0), Msg("VID", VideoFocus, 1)}

Numbers == {Media, VoiceSession, OpenReq, OpenRsp, SetupReq, StartReq, StopReq, Config, Ack, MicReq,
            VideoFocus} \cup CtrReqs \cup {n + 1 : n \in CtrReqs}

AnyMsg == [chan : Chans, type : Numbers, val : Nat]

ChanTypeOK ==
  /\ TypeOK
  /\ ack_val \in [Audio -> Nat]
  /\ queue \in Seq(AnyMsg)
  /\ todo \in Seq(AnyMsg)
  /\ phase \in [Chans -> {"closed", "open", "ready", "playing", "leaving"}]
  /\ sid \in [Chans -> Nat]
  /\ due \in [Chans -> AnyMsg \cup {NoAnswer}]

Closed == [c \in Chans |-> IF c = "CTR" THEN "open" ELSE "closed"]

ChanInit ==
  /\ Init
  /\ ack_val = [c \in Audio |-> 0]
  /\ queue = << >> /\ todo = << >>
  /\ phase = Closed
  /\ sid = [c \in Chans |-> 0]
  /\ due = [c \in Chans |-> NoAnswer]

-----------------------------------------------------------------------------
(* The phone.                                                              *)

(* How many messages at the head of the queue are in the buffer of the read. *)
Received == IF pc = "reply" THEN packets - 1 ELSE packets

(* The phone forgets a session that ends: what it has sent and was not read is
   lost with the connection.                                                  *)
PhoneSeesSession ==
  IF iaap_state' = "Started"
  THEN UNCHANGED <<queue, phone>>
  ELSE /\ queue' = IF pc' = "idle" THEN << >> ELSE SubSeq(queue, 1, Received)
       /\ phase' = Closed
       /\ sid' = [c \in Chans |-> 0]
       /\ due' = [c \in Chans |-> NoAnswer]

(* It sends between two calls of the application: what comes during a call is
   read by the next one at the earliest.                                      *)
Sends(m, answer) ==
  /\ pc = "idle" /\ iaap_state = "Started"
  /\ phase["CTR"] # "leaving"
  /\ due[m.chan] = NoAnswer
  /\ Len(queue) < MaxQueue
  /\ queue' = Append(queue, m)
  /\ due' = [due EXCEPT ![m.chan] = answer]
  /\ UNCHANGED <<vars, ack_val, todo>>

Asks(c, n, v, r, w) == Sends(Msg(c, n, v), Msg(c, r, w)) /\ UNCHANGED <<phase, sid>>

(* Control requests: number, value and the value of the answer, which for a ping
   is its own; of the audio focus 1 is a gain, 4 a release and 3 its loss.     *)
CtrAsks == {<<PingReq, v, v>> : v \in Sids} \cup
  {<<SvcDiscReq, 0, 0>>, <<NavFocusReq, 1, 2>>, <<AudioFocusReq, 1, 1>>, <<AudioFocusReq, 4, 3>>}

PhoneAsks ==
  \/ \E a \in CtrAsks : a[1] \in Asked /\ Asks("CTR", a[1], a[2], a[1] + 1, a[3])
  \/ \E c \in Chans \cap {"SEN"} : phase[c] = "open" /\ Asks(c, StartReq, 0, SensorRsp, 0)
  \/ \E c \in Chans \cap {"TOU"} : phase[c] = "open" /\ Asks(c, BindReq, 0, Config, 0)

(* What has no answer.                                                     *)
PhoneTells ==
  /\ \/ Sends(Msg("CTR", VoiceSession, 1), NoAnswer)
     \/ \E c \in Chans \cap {"MIC"}, v \in {0, 1} :
          phase[c] = "open" /\ Sends(Msg(c, MicReq, v), NoAnswer)
  /\ UNCHANGED <<phase, sid>>

PhoneLeaves ==
  /\ Sends(Msg("CTR", ByebyeReq, 0), Msg("CTR", ByebyeReq + 1, 0))
  /\ phase' = [phase EXCEPT !["CTR"] = "leaving"]
  /\ UNCHANGED sid

InUse == {c \in Chans \ {"CTR"} : phase[c] # "closed" \/ due[c] # NoAnswer}

PhoneOpens(c) ==
  phase[c] = "closed" /\ Cardinality(InUse) < MaxOpen /\ Asks(c, OpenReq, 0, OpenRsp, 0)

PhoneSetsUp(c) == c \in Sinks /\ phase[c] = "open" /\ Asks(c, SetupReq, 0, Config, 2)

(* A video stream has the id 0, the only one that vid_ack can acknowledge. *)
PhoneStarts(c) ==
  /\ phase[c] = "ready"
  /\ \E s \in IF c \in Audio THEN Sids ELSE {0} :
       /\ Sends(Msg(c, StartReq, s), NoAnswer)
       /\ sid' = [sid EXCEPT ![c] = s]
  /\ phase' = [phase EXCEPT ![c] = "playing"]

PhonePlays(c) == phase[c] = "playing" /\ Asks(c, Media, 0, Ack, sid[c])

PhoneStops(c) ==
  /\ phase[c] = "playing"
  /\ Sends(Msg(c, StopReq, 0), NoAnswer)
  /\ phase' = [phase EXCEPT ![c] = "ready"]
  /\ UNCHANGED sid

Phone ==
  \/ PhoneAsks \/ PhoneTells \/ PhoneLeaves
  \/ \E c \in Chans : PhoneOpens(c) \/ PhoneSetsUp(c) \/ PhoneStarts(c) \/ PhonePlays(c) \/ PhoneStops(c)

-----------------------------------------------------------------------------
(* The handlers.  Each is where aa_type_array, or the branches for media before
   it, has it; its answers go out one by one.                                 *)
Got(c, n) == queue # << >> /\ Head(queue).chan = c /\ Head(queue).type = n

(* Mutant: the rest of the read is dropped with the message.               *)
HandleDropsRest(answers, kind) ==
  /\ RxMessage(Len(answers), kind)
  /\ todo' = answers
  /\ queue' = SubSeq(queue, packets + 1, Len(queue))
  /\ UNCHANGED phone

Handle(answers, kind) ==
  /\ RxMessage(Len(answers), kind)
  /\ todo' = answers
  /\ queue' = Tail(queue)
  /\ UNCHANGED phone

Answers(answers) == Handle(answers, "other") /\ UNCHANGED ack_val

iaap_audio_process ==
  \E c \in Chans \cap Audio : Got(c, Media) /\ Answers(<<Msg(c, Ack, ack_val[c])>>)

iaap_video_process ==
  \E c \in Chans \cap {"VID"} : Got(c, Media) /\ Answers(<<Msg(c, Ack, 0)>>)

(* The value of the answer to request n with value v.                      *)
CtrValue(n, v) ==
  IF n = PingReq THEN v
  ELSE IF n = NavFocusReq THEN 2
  ELSE IF n = AudioFocusReq THEN (IF v = 4 THEN 3 ELSE 1)
  ELSE 0

aa_pro_ctr ==
  \E n \in CtrReqs \ {ByebyeReq} :
    Got("CTR", n) /\ Answers(<<Msg("CTR", n + 1, CtrValue(n, Head(queue).val))>>)

aa_pro_ctr_a0f ==
  /\ Got("CTR", ByebyeReq)
  /\ Handle(<<Msg("CTR", ByebyeReq + 1, 0)>>, "byebye")
  /\ UNCHANGED ack_val

aa_pro_all_a07 ==
  \E c \in Chans :
    Got(c, OpenReq) /\ Answers(IF c = "SEN" THEN <<Msg(c, OpenRsp, 0), Msg(c, Config, 0)>>
                               ELSE <<Msg(c, OpenRsp, 0)>>)

aa_pro_snk_b00 ==
  \E c \in Chans \cap Sinks :
    Got(c, SetupReq) /\ Answers(IF c = "VID" THEN <<Msg(c, Config, 2), Msg(c, VideoFocus, 1)>>
                                ELSE <<Msg(c, Config, 2)>>)

(* Mutant: the id of the first start is kept.                              *)
SaveFirst(c) == ack_val' = IF ack_val[c] = 0 THEN [ack_val EXCEPT ![c] = Head(queue).val] ELSE ack_val

Save(c) == ack_val' = [ack_val EXCEPT ![c] = Head(queue).val]

aa_pro_aud_b01 ==
  \E c \in Chans \cap Audio : Got(c, StartReq) /\ Handle(<< >>, "other") /\ Save(c)

aa_pro_sen_b01 ==
  \E c \in Chans \cap {"SEN"} : Got(c, StartReq) /\ Answers(<<Msg(c, SensorRsp, 0)>>)

aa_pro_tou_b02 ==
  \E c \in Chans \cap {"TOU"} : Got(c, BindReq) /\ Answers(<<Msg(c, Config, 0)>>)

(* Handlers that only set a latch (AaCmd) or log, and the stop of a video stream,
   for which the table has no function.                                       *)
NoAnswers ==
  /\ \/ Got("CTR", VoiceSession) \/ Got("MIC", MicReq) \/ Got("VID", StartReq)
     \/ \E c \in Sinks : Got(c, StopReq)
  /\ Answers(<< >>)

Handler ==
  \/ iaap_audio_process \/ iaap_video_process
  \/ aa_pro_ctr \/ aa_pro_ctr_a0f \/ aa_pro_all_a07 \/ aa_pro_snk_b00 \/ aa_pro_aud_b01
  \/ aa_pro_sen_b01 \/ aa_pro_tou_b02 \/ NoAnswers

-----------------------------------------------------------------------------
(* The sends of a handler, and the rest of the session.                    *)

(* What the phone makes of an answer.                                      *)
PhoneGets(a) ==
  /\ due' = [due EXCEPT ![a.chan] = IF @ = a THEN NoAnswer ELSE @]
  /\ phase' = [phase EXCEPT ![a.chan] =
                 IF due[a.chan] # a THEN @
                 ELSE IF a.type = OpenRsp THEN "open"
                 ELSE IF a.type = Config /\ a.chan \in Sinks THEN "ready"
                 ELSE @]
  /\ UNCHANGED <<queue, sid>>

(* A send that succeeds leaves the session up, any other brings it down.   *)
ChanReply ==
  /\ Reply
  /\ todo' = IF replies' = 0 THEN << >> ELSE Tail(todo)
  /\ IF iaap_state' = "Started" THEN PhoneGets(Head(todo)) ELSE PhoneSeesSession
  /\ UNCHANGED ack_val

Plain == PhoneSeesSession /\ UNCHANGED <<ack_val, todo>>

(* A read gets the messages that are there, and times out if there are none. *)
ChanGets == PollGets /\ packets' <= Len(queue) /\ Plain

ChanTimesOut == PollTimesOut /\ queue = << >> /\ Plain

ChanStart == StartStep /\ Plain

ChanRx == Handler \/ ChanReply \/ (RxFails /\ Plain) \/ (HandlerReturns /\ Plain) \/ (RxDone /\ Plain)

ChanCall ==
  \/ ChanGets \/ ChanTimesOut
  \/ /\ StartAgain \/ StartWifi \/ StartUsb \/ PollRefused \/ PollFails \/ AppSend \/ AppByebye
     /\ Plain

ChanBye == ByebyeStops /\ Plain

ChanNext == Phone \/ ChanStart \/ ChanCall \/ ChanRx \/ (RxCompletes /\ Plain) \/ ChanBye

ChanSpec == ChanInit /\ [][ChanNext]_allVars

(* The last packet of the read is not complete, and its rest is read without a
   time limit (hu_aap.c:1346).                                                *)
WaitsForRest == pc = "rx" /\ packets = 1 /\ tail = "partial"

(* Every other libusb call of a start, a poll or a send has a limit between 150
   and 2000 ms, so the thread always gets to its next step.                   *)
ChanFairSpec ==
  /\ ChanSpec
  /\ WF_allVars(ChanStart) /\ WF_allVars(~WaitsForRest /\ ChanRx) /\ WF_allVars(ChanBye)

-----------------------------------------------------------------------------
(* Properties.                                                             *)

(* The phone is sent nothing that it does not wait for, but the two notifications
   that come by themselves: the answer is of the request under way on that
   channel, and an acknowledgement has the id with which the phone started this
   stream on this connection, although ack_val_* is kept over stops, starts of
   other channels and lost sessions, and requests of all channels are handled in
   one buffer.                                                                *)
AnswersAwaited ==
  iaap_state = "Started" =>
    \A k \in 1..Len(todo) : todo[k] \in Unsolicited \/ due[todo[k].chan] = todo[k]

(* Nothing is left behind between the reads, the handlers and their sends: an
   answer that the phone waits for is about to be sent, or its request is still
   to be handled, or the session is lost, although a handler gives up after its
   first failed send, and one call handles several messages and drops the rest
   of a read that fails.                                                      *)
NothingForgotten ==
  iaap_state = "Started" =>
    \A c \in Chans : due[c] # NoAnswer =>
      \/ \E k \in 1..Len(todo) : todo[k] = due[c]
      \/ \E k \in 1..Len(queue) : queue[k].chan = c /\ IsRequest(queue[k])

(* Every call comes back, with the session up or down, however often the phone
   re-enumerates or falls silent during a start and however the sends of handlers
   fail: unless the phone stops inside a packet.                              *)
CallsReturn == pc # "idle" ~> pc = "idle" \/ WaitsForRest
=============================================================================
