-------------------------- MODULE AapChannelsProof --------------------------
(***************************************************************************)
(* Proofs about AapChannels, for any channels, ids of streams, messages in *)
(* a read and messages the phone is ahead.                                 *)
(***************************************************************************)
EXTENDS AapChannels, AapSessionProof, SequenceTheorems

-----------------------------------------------------------------------------
(* Every step is one of the session, so what is proved of the session holds
   with the handlers in place.                                                *)
LEMMA ShortAnswers ==
  \A a, b : Len(<< >>) = 0 /\ Len(<<a>>) = 1 /\ Len(<<a, b>>) = 2
OBVIOUS

LEMMA HandlerIsRx == Handler => RxOther \/ RxByebye
<1> SUFFICES ASSUME Handler PROVE RxOther \/ RxByebye
  OBVIOUS
<1>1. ASSUME NEW n \in 0..2, RxMessage(n, "other") PROVE RxOther
  BY <1>1 DEF RxOther
<1>2. CASE \E a : Handle(<< >>, "other") \/ Handle(<<a>>, "other")
  BY <1>1, <1>2, ShortAnswers DEF Handle
<1>3. CASE \E a, b : Handle(<<a, b>>, "other")
  BY <1>1, <1>3, ShortAnswers DEF Handle
<1>4. CASE \E a : Handle(<<a>>, "byebye")
  BY <1>4, ShortAnswers DEF Handle, RxByebye
<1>5. CASE aa_pro_all_a07 \/ aa_pro_snk_b00
  BY <1>2, <1>3, <1>5 DEF aa_pro_all_a07, aa_pro_snk_b00, Answers
<1>6. CASE iaap_audio_process \/ iaap_video_process \/ aa_pro_ctr \/ aa_pro_aud_b01
           \/ aa_pro_sen_b01 \/ aa_pro_tou_b02 \/ NoAnswers
  BY <1>2, <1>6 DEF iaap_audio_process, iaap_video_process, aa_pro_ctr, aa_pro_aud_b01,
     aa_pro_sen_b01, aa_pro_tou_b02, NoAnswers, Answers
<1>7. CASE aa_pro_ctr_a0f
  BY <1>4, <1>7 DEF aa_pro_ctr_a0f
<1> QED BY <1>5, <1>6, <1>7 DEF Handler

LEMMA PhoneOutside == Phone => UNCHANGED <<vars, ack_val, todo>>
BY Zenon DEF Phone, PhoneAsks, PhoneTells, PhoneLeaves, PhoneOpens, PhoneSetsUp, PhoneStarts, PhonePlays,
   PhoneStops, Asks, Sends

LEMMA StepIsSession == [ChanNext]_allVars => [Next]_vars
<1>1. Handler => Next
  BY HandlerIsRx DEF Next, RxStep
<1>2. Phone => UNCHANGED vars
  BY PhoneOutside
<1>3. ChanStart \/ ChanCall \/ ChanBye \/ (RxCompletes /\ Plain) => Next
  BY DEF ChanStart, ChanCall, ChanBye, ChanGets, ChanTimesOut, Next, CallStep, RxStep
<1>4. ChanRx => Next
  BY <1>1 DEF ChanRx, ChanReply, Next, RxStep
<1>5. UNCHANGED allVars => UNCHANGED vars
  BY DEF allVars
<1> QED BY <1>1, <1>2, <1>3, <1>4, <1>5 DEF ChanNext

(* The session with the messages of aa_type_array in place is the session of
   AapSession, so every theorem about that one is about this one too.         *)
THEOREM ChannelsRefineSession == ChanSpec => Spec
<1>1. ChanInit => Init
  BY DEF ChanInit
<1> QED BY <1>1, StepIsSession, PTL DEF ChanSpec, Spec

-----------------------------------------------------------------------------
(* The invariant.                                                          *)

ChanTypes ==
  /\ ack_val \in [Audio -> Nat]
  /\ queue \in Seq(AnyMsg)
  /\ todo \in Seq(AnyMsg)
  /\ phase \in [Chans -> {"closed", "open", "ready", "playing", "leaving"}]
  /\ sid \in [Chans -> Nat]
  /\ due \in [Chans -> AnyMsg \cup {NoAnswer}]

(* What has been read is at the head of the queue, and the answers of the
   running handler are those that the session counts.                         *)
ReadShape ==
  /\ IF pc \in {"rx", "reply"} THEN Received \in 0..Len(queue) ELSE packets = 0
  /\ IF pc = "reply" THEN Len(todo) = replies ELSE todo = << >>

(* A phone without a session waits for nothing.                            *)
DownShape ==
  iaap_state # "Started" =>
    /\ phase = Closed
    /\ \A c \in Chans : due[c] = NoAnswer
    /\ pc \notin {"rx", "reply"} => queue = << >>

(* The answer to request m on a stream with id i.                          *)
AnswerTo(m, i) ==
  IF m.chan = "CTR" THEN Msg("CTR", m.type + 1, CtrValue(m.type, m.val))
  ELSE IF m.type = OpenReq THEN Msg(m.chan, OpenRsp, 0)
  ELSE IF m.type = SetupReq THEN Msg(m.chan, Config, 2)
  ELSE IF m.type = Media THEN Msg(m.chan, Ack, i)
  ELSE IF m.chan = "SEN" THEN Msg(m.chan, SensorRsp, 0)
  ELSE Msg(m.chan, Config, 0)

(* A request is the last message of its channel, and the phone waits for its
   answer.                                                                    *)
RequestAt(k) ==
  LET m == queue[k] IN
  /\ due[m.chan] = AnswerTo(m, sid[m.chan])
  /\ \A j \in (k + 1)..Len(queue) : queue[j].chan # m.chan
  /\ \A j \in 1..Len(todo) : todo[j] \in Unsolicited \/ todo[j].chan # m.chan
  /\ m.type = Media => phase[m.chan] = "playing"

Requests ==
  \A k \in 1..Len(queue) :
    /\ IsRequest(queue[k]) => RequestAt(k)
    /\ queue[k].chan = "CTR" => queue[k].type \in CtrReqs \cup {VoiceSession}

(* Only the first answer of a handler can be awaited.                      *)
FirstAwaited ==
  \A k \in 1..Len(todo) : todo[k] \in Unsolicited \/ (k = 1 /\ due[todo[k].chan] = todo[k])

DueShape == \A c \in Chans : due[c] # NoAnswer => due[c].chan = c /\ due[c] \notin Unsolicited

(* The id of a stream that plays is that of its last start in the queue, or,
   if all of them have been handled, the one saved.                           *)
StartAt(k, c) == queue[k].chan = c /\ queue[k].type = StartReq

IdOf(c) ==
  /\ (\A k \in 1..Len(queue) : ~StartAt(k, c)) => ack_val[c] = sid[c]
  /\ \A k \in 1..Len(queue) :
       StartAt(k, c) /\ (\A j \in (k + 1)..Len(queue) : ~StartAt(j, c)) => queue[k].val = sid[c]

StreamIds == \A c \in Chans \cap Audio : phase[c] = "playing" => IdOf(c)

(* Only a sink has streams, the video stream has no id, and the control channel
   is always open.                                                            *)
PhoneShape ==
  /\ \A c \in Chans : phase[c] \in {"ready", "playing"} => c \in Sinks
  /\ phase["CTR"] \in {"open", "leaving"}
  /\ "VID" \in Chans => sid["VID"] = 0

Talk == iaap_state = "Started" => Requests /\ FirstAwaited /\ DueShape /\ StreamIds /\ NothingForgotten

CInv == ChanTypes /\ ReadShape /\ DownShape /\ PhoneShape /\ Talk

-----------------------------------------------------------------------------
LEMMA NoneIsNoChannel == "none" \notin Chans /\ "CTR" \in Chans
BY ChannelAssumption DEF Sinks, Audio

LEMMA InitCInv == ChanInit => CInv
<1> SUFFICES ASSUME ChanInit PROVE CInv
  OBVIOUS
<1>1. queue = << >> /\ todo = << >> /\ Len(queue) = 0 /\ pc = "idle" /\ packets = 0
  BY DEF ChanInit, Init
<1>2. ChanTypes
  BY <1>1, EmptySeq DEF ChanTypes, ChanInit, Closed
<1>3. ReadShape
  BY <1>1 DEF ReadShape
<1>4. DownShape /\ Talk
  BY <1>1 DEF DownShape, Talk, ChanInit, Init
<1>5. PhoneShape
  BY NoneIsNoChannel DEF PhoneShape, ChanInit, Closed
<1> QED BY <1>2, <1>3, <1>4, <1>5 DEF CInv

-----------------------------------------------------------------------------
(* Steps without a message of the channels.                                *)

PlainStep ==
  \/ StartStep \/ StartAgain \/ StartWifi \/ StartUsb \/ PollRefused \/ PollFails \/ AppSend \/ AppByebye
  \/ PollTimesOut \/ (PollGets /\ packets' <= Len(queue))
  \/ RxFails \/ HandlerReturns \/ RxDone \/ RxCompletes \/ ByebyeStops

PlainShape ==
  /\ pc' # "reply" /\ todo = << >>
  /\ IF pc' = "rx" THEN packets' \in 0..Len(queue) ELSE packets' = 0
  /\ iaap_state' # "Started" => IF pc' = "rx" THEN packets' = Received ELSE pc' = "idle" \/ Received = 0
  /\ iaap_state' = "Started" => iaap_state = "Started" \/ pc \notin {"rx", "reply"}

LEMMA PlainIsShaped == IInv /\ CInv /\ PlainStep => PlainShape
<1> SUFFICES ASSUME IInv, CInv, PlainStep PROVE PlainShape
  OBVIOUS
<1>1. packets \in Nat /\ Len(queue) \in Nat /\ replies \in 0..2 /\ pc \in Pcs
  BY BoundsAssumption DEF IInv, TypeOK, CInv, ChanTypes
<1>2. pc = "reply" /\ replies = 0 => todo = << >>
  BY EmptySeq DEF CInv, ChanTypes, ReadShape
<1>3. pc # "reply" => todo = << >>
  BY DEF CInv, ReadShape
<1>4. /\ pc = "rx" => packets \in 0..Len(queue)
      /\ pc = "reply" => packets - 1 \in 0..Len(queue)
      /\ pc \notin {"rx", "reply"} => packets = 0
  BY DEF CInv, ReadShape, Received
<1> USE <1>1, <1>3, <1>4 DEF PlainShape, Returns, Received, rxVars, callVars
<1>5. CASE UsbInitFails \/ UsbOpens \/ OapStarts \/ OapFails \/ UsbGivesUp
  BY <1>5 DEF UsbInitFails, UsbOpens, OapStarts, OapFails, UsbGivesUp, UsbStartFails
<1>6. CASE VersSend \/ VersRecv \/ HsInit \/ HsSend \/ HsRecv \/ AuthSend
  BY <1>6 DEF VersSend, VersRecv, HsInit, HsSend, HsRecv, AuthSend, StartFails
<1>7. CASE StartAgain \/ StartWifi \/ StartUsb \/ PollRefused \/ PollFails \/ PollTimesOut
  BY <1>7 DEF StartAgain, StartWifi, StartUsb, PollRefused, PollFails, PollTimesOut
<1>8. CASE AppSend \/ AppByebye \/ ByebyeStops
  BY <1>8 DEF AppSend, AppByebye, ByebyeStops
<1>9. CASE PollGets /\ packets' <= Len(queue)
  <2>1. iaap_state = "Started" /\ iaap_state' = iaap_state
    BY <1>9 DEF PollGets, IInv, PcInv, Up, Down, TransportUp, Live
  <2> QED BY <1>9, <2>1, BoundsAssumption DEF PollGets
<1>10. CASE RxFails \/ RxDone \/ RxCompletes
  BY <1>10 DEF RxFails, RxDone, RxCompletes, AapStop, Live
<1>11. CASE HandlerReturns
  <2>1. packets > 0 /\ pc = "reply" /\ replies = 0 /\ packets' = packets - 1 /\ pc' = "rx"
    BY <1>11 DEF HandlerReturns, IInv
  <2>2. iaap_state' = "Started" => iaap_state = "Started"
    BY <1>11 DEF HandlerReturns, AapStop
  <2> QED BY <1>2, <2>1, <2>2
<1> QED BY <1>5, <1>6, <1>7, <1>8, <1>9, <1>10, <1>11 DEF PlainStep, StartStep

LEMMA PlainCInv == IInv /\ CInv /\ PlainStep /\ Plain => CInv'
<1> SUFFICES ASSUME IInv, CInv, PlainStep, Plain PROVE CInv'
  OBVIOUS
<1>1. PlainShape
  BY PlainIsShaped
<1>2. UNCHANGED <<ack_val, todo>> /\ todo = << >> /\ Len(todo) = 0
  BY <1>1 DEF Plain, PlainShape
<1>3. packets \in Nat /\ Len(queue) \in Nat /\ queue \in Seq(AnyMsg)
  BY BoundsAssumption DEF IInv, TypeOK, CInv, ChanTypes
<1>4. CASE iaap_state' = "Started"
  <2>1. UNCHANGED <<queue, phase, sid, due>>
    BY <1>4 DEF Plain, PhoneSeesSession, phone
  <2>2. ChanTypes' /\ PhoneShape'
    BY <1>2, <2>1 DEF CInv, ChanTypes, PhoneShape
  <2>3. ReadShape'
    BY <1>1, <1>2, <2>1 DEF ReadShape, PlainShape, Received
  <2>4. DownShape'
    BY <1>4 DEF DownShape
  <2>5. CASE iaap_state = "Started"
    BY <1>2, <1>4, <2>1, <2>2, <2>3, <2>4, <2>5 DEF CInv, Talk, Requests, RequestAt, FirstAwaited, DueShape,
       StreamIds, IdOf, StartAt, NothingForgotten
  <2>6. CASE iaap_state # "Started"
    <3>1. Len(queue') = 0 /\ phase' = Closed /\ \A c \in Chans : due'[c] = NoAnswer
      BY <1>1, <1>4, <2>1, <2>6 DEF CInv, DownShape, PlainShape
    <3>2. Talk'
      BY <1>2, <3>1 DEF Talk, Requests, FirstAwaited, DueShape, StreamIds, Closed, NothingForgotten
    <3> QED BY <2>2, <2>3, <2>4, <3>2 DEF CInv
  <2> QED BY <2>5, <2>6
<1>5. CASE iaap_state' # "Started"
  <2>1. /\ queue' = IF pc' = "idle" THEN << >> ELSE SubSeq(queue, 1, Received)
        /\ phase' = Closed /\ sid' = [c \in Chans |-> 0] /\ due' = [c \in Chans |-> NoAnswer]
    BY <1>5 DEF Plain, PhoneSeesSession
  <2>2. Received \in 0..Len(queue)
    BY <1>3 DEF CInv, ReadShape, Received
  <2>3. SubSeq(queue, 1, Received) \in Seq(AnyMsg) /\ Len(SubSeq(queue, 1, Received)) = Received
    BY <1>3, <2>2, SubSeqProperties, ElementOfSeq
  <2>4. Received = 0 => SubSeq(queue, 1, Received) = << >>
    BY <2>2, SubSeqEmpty
  <2>5. ChanTypes'
    BY <1>2, <2>1, <2>3, EmptySeq DEF CInv, ChanTypes, Closed
  <2>6. ReadShape'
    <3>1. pc' = "rx" => packets' = Received /\ Len(queue') = Received
      BY <1>1, <1>5, <2>1, <2>3 DEF PlainShape
    <3>2. pc' # "reply" /\ todo' = << >> /\ (pc' # "rx" => packets' = 0)
      BY <1>1, <1>2 DEF PlainShape
    <3>3. pc' = "rx" => packets' \in 0..Len(queue')
      BY <2>2, <3>1
    <3> QED BY <3>2, <3>3 DEF ReadShape, Received
  <2>7. DownShape'
    BY <1>1, <2>1, <2>4 DEF DownShape, PlainShape
  <2>8. PhoneShape' /\ Talk'
    BY <1>5, <2>1, NoneIsNoChannel DEF PhoneShape, Closed, Talk
  <2> QED BY <2>5, <2>6, <2>7, <2>8 DEF CInv
<1> QED BY <1>4, <1>5

-----------------------------------------------------------------------------
(* Steps of the phone.                                                     *)

LEMMA MsgIs == \A c, n, v : Msg(c, n, v).chan = c /\ Msg(c, n, v).type = n /\ Msg(c, n, v).val = v
BY DEF Msg

LEMMA MsgTyped == \A c \in Chans, n \in Numbers, v \in Nat : Msg(c, n, v) \in AnyMsg
BY DEF Msg, AnyMsg

LEMMA NumbersAre ==
  /\ {Media, VoiceSession, OpenReq, OpenRsp, SetupReq, StartReq, StopReq, SensorRsp, BindReq, Config, Ack,
      MicReq, VideoFocus} \subseteq Numbers
  /\ CtrReqs \subseteq Numbers
  /\ \A n \in CtrReqs : n + 1 \in Numbers
BY DEF Numbers, StopReq, SensorRsp, BindReq

LEMMA AnswerShape ==
  ASSUME NEW m \in AnyMsg, NEW i \in Nat, m.chan = "CTR" => m.type \in CtrReqs
  PROVE  /\ AnswerTo(m, i) \in AnyMsg
         /\ AnswerTo(m, i).chan = m.chan
         /\ AnswerTo(m, i) # NoAnswer
         /\ AnswerTo(m, i) \notin Unsolicited
<1>1. m.chan \in Chans /\ m.type \in Numbers /\ m.val \in Nat
  BY DEF AnyMsg
<1>2. CtrValue(m.type, m.val) \in Nat
  BY <1>1 DEF CtrValue
<1>3. AnswerTo(m, i) \in AnyMsg
  BY <1>1, <1>2, MsgTyped, NumbersAre, Zenon DEF AnswerTo
<1>4. AnswerTo(m, i).chan = m.chan
  BY MsgIs DEF AnswerTo
<1>5. AnswerTo(m, i) # NoAnswer
  BY <1>1, <1>4, NoneIsNoChannel, MsgIs DEF NoAnswer
<1>6. m.chan = "SEN" => AnswerTo(m, i).type # Config \/ AnswerTo(m, i).val # 0
  BY MsgIs DEF AnswerTo, OpenRsp, Config, Ack, SensorRsp
<1>7. m.chan = "VID" => AnswerTo(m, i).type # VideoFocus
  BY MsgIs DEF AnswerTo, OpenRsp, Config, Ack, VideoFocus
<1>8. AnswerTo(m, i) \notin Unsolicited
  BY <1>4, <1>6, <1>7, MsgIs DEF Unsolicited
<1> QED BY <1>3, <1>4, <1>5, <1>8

(* What a send of the phone leaves of the queue.                           *)
LEMMA SendShape ==
  ASSUME CInv, NEW m \in AnyMsg, NEW a, Sends(m, a)
  PROVE  /\ pc = "idle" /\ iaap_state = "Started" /\ due[m.chan] = NoAnswer
         /\ due' = [due EXCEPT ![m.chan] = a]
         /\ UNCHANGED <<vars, ack_val, todo>> /\ todo = << >> /\ Len(todo) = 0
         /\ queue' \in Seq(AnyMsg) /\ Len(queue) \in Nat /\ Len(queue') = Len(queue) + 1
         /\ \A k \in 1..Len(queue) : queue'[k] = queue[k] /\ queue[k] \in AnyMsg
         /\ queue'[Len(queue) + 1] = m
<1>1. queue \in Seq(AnyMsg)
  BY DEF CInv, ChanTypes
<1>2. queue' = Append(queue, m)
  BY DEF Sends
<1>3. pc = "idle" /\ todo = << >>
  BY DEF Sends, CInv, ReadShape
<1>4. /\ queue' \in Seq(AnyMsg) /\ Len(queue) \in Nat /\ Len(queue') = Len(queue) + 1
      /\ \A k \in 1..Len(queue) : queue'[k] = queue[k] /\ queue[k] \in AnyMsg
      /\ queue'[Len(queue) + 1] = m
  BY <1>1, <1>2, AppendProperties, ElementOfSeq
<1> QED BY <1>3, <1>4 DEF Sends

(* A channel on which a request is queued has an answer due.               *)
LEMMA RequestIsDue ==
  ASSUME CInv, iaap_state = "Started", NEW k \in 1..Len(queue), IsRequest(queue[k])
  PROVE  due[queue[k].chan] # NoAnswer
<1>1. queue[k] \in AnyMsg /\ RequestAt(k) /\ (queue[k].chan = "CTR" => queue[k].type \in CtrReqs \cup {VoiceSession})
  BY ElementOfSeq DEF CInv, ChanTypes, Talk, Requests
<1>2. sid[queue[k].chan] \in Nat
  BY <1>1 DEF CInv, ChanTypes, AnyMsg
<1>3. VoiceSession \notin CtrReqs \cup {OpenReq, SetupReq, Media, StartReq, BindReq}
  BY DEF VoiceSession, CtrReqs, OpenReq, SetupReq, Media, StartReq, BindReq, SvcDiscReq, PingReq, NavFocusReq,
     AudioFocusReq, ByebyeReq
<1>4. queue[k].chan = "CTR" => queue[k].type \in CtrReqs
  BY <1>1, <1>3 DEF IsRequest
<1> QED BY <1>1, <1>2, <1>4, AnswerShape DEF RequestAt

LEMMA RequestSent ==
  ASSUME CInv, NEW m \in AnyMsg, Sends(m, AnswerTo(m, sid[m.chan])), IsRequest(m), UNCHANGED sid,
         phase' = phase \/ phase' = [phase EXCEPT !["CTR"] = "leaving"],
         m.chan = "CTR" => m.type \in CtrReqs, m.type = Media => phase[m.chan] = "playing" /\ m.chan # "CTR",
         ~(m.type = StartReq /\ m.chan \in Audio)
  PROVE  CInv'
<1> DEFINE a == AnswerTo(m, sid[m.chan])
           L == Len(queue)
<1>1. m.chan \in Chans /\ sid[m.chan] \in Nat
  BY DEF AnyMsg, CInv, ChanTypes
<1>2. a \in AnyMsg /\ a.chan = m.chan /\ a # NoAnswer /\ a \notin Unsolicited
  BY <1>1, AnswerShape
<1>3. /\ pc = "idle" /\ iaap_state = "Started" /\ due[m.chan] = NoAnswer
      /\ due' = [due EXCEPT ![m.chan] = a]
      /\ UNCHANGED <<vars, ack_val, todo>> /\ todo = << >> /\ Len(todo) = 0
      /\ queue' \in Seq(AnyMsg) /\ L \in Nat /\ Len(queue') = L + 1
      /\ \A k \in 1..L : queue'[k] = queue[k] /\ queue[k] \in AnyMsg
      /\ queue'[L + 1] = m
  BY SendShape
<1>4. UNCHANGED <<pc, iaap_state, packets, replies>>
  BY <1>3 DEF vars
<1> HIDE DEF a, L
<1>5. ChanTypes'
  BY <1>1, <1>2, <1>3 DEF CInv, ChanTypes
<1>6. ReadShape' /\ DownShape'
  BY <1>3, <1>4 DEF CInv, ReadShape, DownShape
<1>7. \A c \in Chans : c # "CTR" => phase'[c] = phase[c]
  BY DEF CInv, ChanTypes
<1>8. \A c \in Chans : due'[c] = IF c = m.chan THEN a ELSE due[c]
  BY <1>1, <1>3 DEF CInv, ChanTypes
<1>9. Requests'
  <2> SUFFICES ASSUME NEW k \in 1..(L + 1)
               PROVE  /\ IsRequest(queue'[k]) => RequestAt(k)'
                      /\ queue'[k].chan = "CTR" => queue'[k].type \in CtrReqs \cup {VoiceSession}
    BY <1>3 DEF Requests, IsRequest
  <2>1. CASE k = L + 1
    BY <2>1, <1>1, <1>3, <1>7, <1>8 DEF RequestAt, a
  <2>2. CASE k # L + 1
    <3>1. k \in 1..L /\ queue'[k] = queue[k] /\ queue[k].chan \in Chans
      BY <2>2, <1>3 DEF AnyMsg
    <3>2. queue[k].chan = "CTR" => queue[k].type \in CtrReqs \cup {VoiceSession}
      BY <3>1, <1>3 DEF CInv, Talk, Requests, L
    <3>3. ASSUME IsRequest(queue[k]) PROVE RequestAt(k)'
      <4>1. RequestAt(k) /\ queue[k].chan # m.chan
        BY <3>1, <3>3, <1>3, RequestIsDue DEF CInv, Talk, Requests, L
      <4>2. due'[queue[k].chan] = AnswerTo(queue[k], sid[queue[k].chan])
        BY <4>1, <3>1, <1>8 DEF RequestAt
      <4>3. ASSUME NEW j \in (k + 1)..(L + 1) PROVE queue'[j].chan # queue[k].chan
        <5>1. \A i \in (k + 1)..L : queue[i].chan # queue[k].chan
          BY <4>1 DEF RequestAt, L
        <5>2. CASE j = L + 1
          BY <5>2, <4>1, <1>3
        <5>3. CASE j # L + 1
          BY <5>1, <5>3, <3>1, <1>3
        <5> QED BY <5>2, <5>3
      <4>4. queue[k].type = Media => phase'[queue[k].chan] = "playing"
        <5>1. CtrReqs \cup {VoiceSession} \subseteq {5, 11, 13, 15, 18, 17}
          BY DEF CtrReqs, VoiceSession, SvcDiscReq, PingReq, NavFocusReq, AudioFocusReq, ByebyeReq
        <5>2. queue[k].type = Media => queue[k].chan # "CTR"
          BY <5>1, <3>2 DEF Media
        <5> QED BY <5>2, <4>1, <3>1, <1>7 DEF RequestAt
      <4> QED BY <4>2, <4>3, <4>4, <3>1, <1>3 DEF RequestAt
    <3> QED BY <3>1, <3>2, <3>3
  <2> QED BY <2>1, <2>2
<1>10. FirstAwaited' /\ DueShape'
  BY <1>2, <1>3, <1>8 DEF CInv, Talk, FirstAwaited, DueShape
<1>11. StreamIds'
  <2> SUFFICES ASSUME NEW c \in Chans \cap Audio, phase'[c] = "playing" PROVE IdOf(c)'
    BY DEF StreamIds
  <2>1. phase[c] = "playing" /\ IdOf(c)
    BY <1>3, <1>7 DEF CInv, Talk, StreamIds, Audio
  <2> DEFINE After(k) == queue'[k].chan = c /\ queue'[k].type = StartReq
  <2>2. \A k \in 1..L : After(k) <=> StartAt(k, c)
    BY <1>3 DEF StartAt
  <2>3. ~After(L + 1)
    BY <1>3
  <2>4. Len(queue') = L + 1 /\ Len(queue) = L /\ L \in Nat /\ ack_val' = ack_val /\ sid' = sid
        /\ \A k \in 1..L : queue'[k] = queue[k]
    BY <1>3 DEF L
  <2> HIDE DEF After
  <2>5. (\A k \in 1..(L + 1) : ~After(k)) => ack_val'[c] = sid'[c]
    BY <2>1, <2>2, <2>4 DEF IdOf
  <2>6. ASSUME NEW k \in 1..(L + 1), After(k), \A j \in (k + 1)..(L + 1) : ~After(j)
        PROVE  queue'[k].val = sid'[c]
    <3>1. k \in 1..L
      BY <2>3, <2>4, <2>6
    <3>2. StartAt(k, c) /\ \A j \in (k + 1)..L : ~StartAt(j, c)
      BY <3>1, <2>2, <2>4, <2>6
    <3> QED BY <3>1, <3>2, <2>1, <2>4 DEF IdOf
  <2> QED BY <2>4, <2>5, <2>6 DEF IdOf, StartAt, After
<1>12. NothingForgotten'
  <2> SUFFICES ASSUME NEW c \in Chans, due'[c] # NoAnswer
               PROVE  \E k \in 1..(L + 1) : queue'[k].chan = c /\ IsRequest(queue'[k])
    BY <1>3 DEF NothingForgotten, IsRequest
  <2>1. CASE c = m.chan
    BY <2>1, <1>3
  <2>2. CASE c # m.chan
    BY <2>2, <1>3, <1>8 DEF CInv, Talk, NothingForgotten, L
  <2> QED BY <2>1, <2>2
<1>13. PhoneShape'
  BY <1>7, NoneIsNoChannel DEF CInv, PhoneShape, ChanTypes
<1> QED BY <1>5, <1>6, <1>9, <1>10, <1>11, <1>12, <1>13 DEF CInv, Talk

LEMMA ToldSent ==
  ASSUME CInv, NEW m \in AnyMsg, Sends(m, NoAnswer), ~IsRequest(m),
         m.chan = "CTR" => m.type = VoiceSession,
         phase' \in [Chans -> {"closed", "open", "ready", "playing", "leaving"}], sid' \in [Chans -> Nat],
         \A c \in Chans \ {m.chan} : phase'[c] = phase[c] /\ sid'[c] = sid[c],
         IF m.type = StartReq THEN sid'[m.chan] = m.val
         ELSE sid'[m.chan] = sid[m.chan] /\ (phase'[m.chan] = "playing" => phase[m.chan] = "playing"),
         PhoneShape'
  PROVE  CInv'
<1> DEFINE L == Len(queue)
<1>1. m.chan \in Chans
  BY DEF AnyMsg
<1>2. /\ pc = "idle" /\ iaap_state = "Started" /\ due[m.chan] = NoAnswer
      /\ due' = [due EXCEPT ![m.chan] = NoAnswer]
      /\ UNCHANGED <<vars, ack_val, todo>> /\ todo = << >> /\ Len(todo) = 0
      /\ queue' \in Seq(AnyMsg) /\ L \in Nat /\ Len(queue') = L + 1
      /\ \A k \in 1..L : queue'[k] = queue[k] /\ queue[k] \in AnyMsg
      /\ queue'[L + 1] = m
  BY SendShape
<1>3. UNCHANGED <<pc, iaap_state, packets, replies>>
  BY <1>2 DEF vars
<1> HIDE DEF L
<1>4. due' = due
  BY <1>1, <1>2 DEF CInv, ChanTypes
<1>5. ChanTypes'
  BY <1>2, <1>4 DEF CInv, ChanTypes
<1>6. ReadShape' /\ DownShape'
  BY <1>2, <1>3 DEF CInv, ReadShape, DownShape
<1>7. Requests'
  <2> SUFFICES ASSUME NEW k \in 1..(L + 1)
               PROVE  /\ IsRequest(queue'[k]) => RequestAt(k)'
                      /\ queue'[k].chan = "CTR" => queue'[k].type \in CtrReqs \cup {VoiceSession}
    BY <1>2 DEF Requests, IsRequest
  <2>1. CASE k = L + 1
    BY <2>1, <1>2
  <2>2. CASE k # L + 1
    <3>1. k \in 1..L /\ queue'[k] = queue[k] /\ queue[k].chan \in Chans
      BY <2>2, <1>2 DEF AnyMsg
    <3>2. queue[k].chan = "CTR" => queue[k].type \in CtrReqs \cup {VoiceSession}
      BY <3>1, <1>2 DEF CInv, Talk, Requests, L
    <3>3. ASSUME IsRequest(queue[k]) PROVE RequestAt(k)'
      <4>1. RequestAt(k) /\ queue[k].chan # m.chan
        BY <3>1, <3>3, <1>2, RequestIsDue DEF CInv, Talk, Requests, L
      <4>2. sid'[queue[k].chan] = sid[queue[k].chan] /\ phase'[queue[k].chan] = phase[queue[k].chan]
        BY <4>1, <3>1
      <4>3. ASSUME NEW j \in (k + 1)..(L + 1) PROVE queue'[j].chan # queue[k].chan
        <5>1. \A i \in (k + 1)..L : queue[i].chan # queue[k].chan
          BY <4>1 DEF RequestAt, L
        <5>2. CASE j = L + 1
          BY <5>2, <4>1, <1>2
        <5>3. CASE j # L + 1
          BY <5>1, <5>3, <3>1, <1>2
        <5> QED BY <5>2, <5>3
      <4> QED BY <4>1, <4>2, <4>3, <3>1, <1>2, <1>4 DEF RequestAt
    <3> QED BY <3>1, <3>2, <3>3
  <2> QED BY <2>1, <2>2
<1>8. FirstAwaited' /\ DueShape'
  BY <1>2, <1>4 DEF CInv, Talk, FirstAwaited, DueShape
<1>9. StreamIds'
  <2> SUFFICES ASSUME NEW c \in Chans \cap Audio, phase'[c] = "playing" PROVE IdOf(c)'
    BY DEF StreamIds
  <2> DEFINE After(k) == queue'[k].chan = c /\ queue'[k].type = StartReq
  <2>1. \A k \in 1..L : After(k) <=> StartAt(k, c)
    BY <1>2 DEF StartAt
  <2>2. After(L + 1) <=> c = m.chan /\ m.type = StartReq
    BY <1>2
  <2>3. Len(queue') = L + 1 /\ Len(queue) = L /\ L \in Nat /\ ack_val' = ack_val
        /\ \A k \in 1..L : queue'[k] = queue[k]
    BY <1>2 DEF L
  <2> HIDE DEF After
  <2>4. CASE After(L + 1)
    <3>1. queue'[L + 1].val = sid'[c]
      BY <1>2, <2>2, <2>4
    <3>2. ASSUME NEW k \in 1..(L + 1), \A j \in (k + 1)..(L + 1) : ~After(j) PROVE k = L + 1
      BY <2>3, <2>4, <3>2
    <3> QED BY <2>3, <2>4, <3>1, <3>2 DEF IdOf, StartAt, After
  <2>5. CASE ~After(L + 1)
    <3>1. phase[c] = "playing" /\ sid'[c] = sid[c]
      BY <2>2, <2>5
    <3>2. IdOf(c)
      BY <1>2, <3>1 DEF CInv, Talk, StreamIds
    <3>3. (\A k \in 1..(L + 1) : ~After(k)) => ack_val'[c] = sid'[c]
      BY <2>1, <2>3, <3>1, <3>2 DEF IdOf
    <3>4. ASSUME NEW k \in 1..(L + 1), After(k), \A j \in (k + 1)..(L + 1) : ~After(j)
          PROVE  queue'[k].val = sid'[c]
      <4>1. k \in 1..L
        BY <2>3, <2>5, <3>4
      <4>2. StartAt(k, c) /\ \A j \in (k + 1)..L : ~StartAt(j, c)
        BY <4>1, <2>1, <2>3, <3>4
      <4> QED BY <4>1, <4>2, <3>1, <3>2, <2>3 DEF IdOf
    <3> QED BY <2>3, <3>3, <3>4 DEF IdOf, StartAt, After
  <2> QED BY <2>4, <2>5
<1>10. NothingForgotten'
  <2> SUFFICES ASSUME NEW c \in Chans, due[c] # NoAnswer
               PROVE  \E k \in 1..(L + 1) : queue'[k].chan = c /\ IsRequest(queue'[k])
    BY <1>2, <1>4 DEF NothingForgotten, IsRequest
  <2> QED BY <1>2 DEF CInv, Talk, NothingForgotten, L
<1> QED BY <1>5, <1>6, <1>7, <1>8, <1>9, <1>10 DEF CInv, Talk

LEMMA PhoneCInv == CInv /\ Phone => CInv'
<1> SUFFICES ASSUME CInv, Phone PROVE CInv'
  OBVIOUS
<1>1. /\ sid \in [Chans -> Nat] /\ Sids \subseteq Nat /\ 0 \in Nat
      /\ phase \in [Chans -> {"closed", "open", "ready", "playing", "leaving"}]
  BY ChannelAssumption DEF CInv, ChanTypes
<1>2. /\ Media = 0 /\ SvcDiscReq = 5 /\ OpenReq = 7 /\ PingReq = 11 /\ NavFocusReq = 13 /\ ByebyeReq = 15
      /\ VoiceSession = 17 /\ AudioFocusReq = 18 /\ SetupReq = 32768 /\ StartReq = 32769 /\ StopReq = 32770
      /\ BindReq = 32770 /\ MicReq = 32773
  BY DEF Media, SvcDiscReq, OpenReq, PingReq, NavFocusReq, ByebyeReq, VoiceSession, AudioFocusReq, SetupReq,
     StartReq, StopReq, BindReq, MicReq
<1>3. /\ CtrReqs = {5, 11, 13, 18, 15}
      /\ "CTR" \notin Sinks /\ "SEN" \notin Sinks /\ "TOU" \notin Sinks /\ "MIC" \notin Sinks
      /\ Sinks = {"AUD", "AU1", "AU2", "VID"} /\ Audio = {"AUD", "AU1", "AU2"}
  BY <1>2 DEF CtrReqs, Sinks, Audio
<1>4. ASSUME NEW a \in CtrAsks, Asks("CTR", a[1], a[2], a[1] + 1, a[3]) PROVE CInv'
  <2> DEFINE m == Msg("CTR", a[1], a[2])
  <2>1. a[1] \in CtrReqs /\ a[2] \in Nat /\ a[3] = CtrValue(a[1], a[2])
    BY <1>1, <1>2, <1>3 DEF CtrAsks, CtrValue
  <2>2. m \in AnyMsg /\ m.chan = "CTR" /\ m.type = a[1] /\ m.val = a[2]
    BY <2>1, NumbersAre, NoneIsNoChannel, MsgTyped, MsgIs
  <2>3. Sends(m, AnswerTo(m, sid[m.chan])) /\ UNCHANGED <<phase, sid>>
    BY <1>4, <2>1, <2>2 DEF Asks, AnswerTo
  <2>4. IsRequest(m) /\ m.type # Media /\ m.type # StartReq
    BY <2>1, <2>2, <1>2, <1>3 DEF IsRequest
  <2> HIDE DEF m
  <2> QED BY <2>1, <2>2, <2>3, <2>4, RequestSent
<1>5. CASE PhoneLeaves
  <2> DEFINE m == Msg("CTR", ByebyeReq, 0)
  <2>1. m \in AnyMsg /\ m.chan = "CTR" /\ m.type = ByebyeReq /\ m.val = 0
    BY <1>1, NumbersAre, NoneIsNoChannel, MsgTyped, MsgIs, <1>3, <1>2
  <2>2. CtrValue(ByebyeReq, 0) = 0
    BY <1>2 DEF CtrValue
  <2>3. Sends(m, AnswerTo(m, sid[m.chan])) /\ phase' = [phase EXCEPT !["CTR"] = "leaving"] /\ UNCHANGED sid
    BY <1>5, <2>1, <2>2 DEF PhoneLeaves, AnswerTo
  <2>4. IsRequest(m) /\ m.type \in CtrReqs /\ m.type # Media /\ m.type # StartReq
    BY <2>1, <1>2, <1>3 DEF IsRequest
  <2> HIDE DEF m
  <2> QED BY <2>1, <2>3, <2>4, RequestSent
<1>6. ASSUME NEW c \in Chans \cap {"SEN"}, Asks(c, StartReq, 0, SensorRsp, 0) PROVE CInv'
  <2> DEFINE m == Msg(c, StartReq, 0)
  <2>1. m \in AnyMsg /\ m.chan = "SEN" /\ m.type = StartReq /\ m.val = 0 /\ c = "SEN"
    BY <1>1, <1>6, NumbersAre, MsgTyped, MsgIs
  <2>2. Sends(m, AnswerTo(m, sid[m.chan])) /\ UNCHANGED <<phase, sid>>
    BY <1>2, <1>6, <2>1 DEF Asks, AnswerTo
  <2>3. IsRequest(m) /\ m.type # Media /\ m.chan \notin Audio
    BY <2>1, <1>2, <1>3 DEF IsRequest
  <2> HIDE DEF m
  <2> QED BY <2>1, <2>2, <2>3, RequestSent
<1>7. ASSUME NEW c \in Chans \cap {"TOU"}, Asks(c, BindReq, 0, Config, 0) PROVE CInv'
  <2> DEFINE m == Msg(c, BindReq, 0)
  <2>1. m \in AnyMsg /\ m.chan = "TOU" /\ m.type = BindReq /\ m.val = 0 /\ c = "TOU"
    BY <1>1, <1>7, NumbersAre, MsgTyped, MsgIs
  <2>2. Sends(m, AnswerTo(m, sid[m.chan])) /\ UNCHANGED <<phase, sid>>
    BY <1>2, <1>7, <2>1 DEF Asks, AnswerTo
  <2>3. IsRequest(m) /\ m.type # Media /\ m.chan \notin Audio
    BY <2>1, <1>2, <1>3 DEF IsRequest
  <2> HIDE DEF m
  <2> QED BY <2>1, <2>2, <2>3, RequestSent
<1>8. ASSUME NEW c \in Chans, PhoneOpens(c) PROVE CInv'
  <2> DEFINE m == Msg(c, OpenReq, 0)
  <2>1. c # "CTR"
    BY <1>8 DEF PhoneOpens, CInv, PhoneShape
  <2>2. m \in AnyMsg /\ m.chan = c /\ m.type = OpenReq
    BY <1>1, NumbersAre, MsgTyped, MsgIs
  <2>3. Sends(m, AnswerTo(m, sid[m.chan])) /\ UNCHANGED <<phase, sid>>
    BY <1>8, <2>1, <2>2 DEF PhoneOpens, Asks, AnswerTo
  <2>4. IsRequest(m) /\ m.type # Media /\ m.type # StartReq
    BY <2>2, <1>2 DEF IsRequest
  <2> HIDE DEF m
  <2> QED BY <2>1, <2>2, <2>3, <2>4, RequestSent
<1>9. ASSUME NEW c \in Chans, PhoneSetsUp(c) PROVE CInv'
  <2> DEFINE m == Msg(c, SetupReq, 0)
  <2>1. c \in Sinks /\ c # "CTR"
    BY <1>3, <1>9 DEF PhoneSetsUp
  <2>2. m \in AnyMsg /\ m.chan = c /\ m.type = SetupReq
    BY <1>1, NumbersAre, MsgTyped, MsgIs
  <2>3. Sends(m, AnswerTo(m, sid[m.chan])) /\ UNCHANGED <<phase, sid>>
    BY <1>2, <1>9, <2>1, <2>2 DEF PhoneSetsUp, Asks, AnswerTo
  <2>4. IsRequest(m) /\ m.type # Media /\ m.type # StartReq
    BY <2>2, <1>2 DEF IsRequest
  <2> HIDE DEF m
  <2> QED BY <2>1, <2>2, <2>3, <2>4, RequestSent
<1>10. ASSUME NEW c \in Chans, PhonePlays(c) PROVE CInv'
  <2> DEFINE m == Msg(c, Media, 0)
  <2>1. c # "CTR" /\ phase[c] = "playing"
    BY <1>3, <1>10 DEF PhonePlays, CInv, PhoneShape
  <2>2. m \in AnyMsg /\ m.chan = c /\ m.type = Media
    BY <1>1, NumbersAre, MsgTyped, MsgIs
  <2>3. Sends(m, AnswerTo(m, sid[m.chan])) /\ UNCHANGED <<phase, sid>>
    BY <1>2, <1>10, <2>1, <2>2 DEF PhonePlays, Asks, AnswerTo
  <2>4. IsRequest(m) /\ m.type # StartReq
    BY <2>2, <1>2 DEF IsRequest
  <2> HIDE DEF m
  <2> QED BY <2>1, <2>2, <2>3, <2>4, RequestSent
<1>11. CASE PhoneTells
  <2>1. PICK m \in {Msg("CTR", VoiceSession, 1)} \cup {Msg(c, MicReq, v) : c \in Chans \cap {"MIC"}, v \in {0, 1}} :
          Sends(m, NoAnswer)
    BY <1>11 DEF PhoneTells
  <2>2. UNCHANGED <<phase, sid>>
    BY <1>11 DEF PhoneTells
  <2>3. m \in AnyMsg /\ (m.type = VoiceSession \/ (m.type = MicReq /\ m.chan = "MIC"))
    BY NumbersAre, NoneIsNoChannel, MsgTyped, MsgIs
  <2>4. ~IsRequest(m) /\ (m.chan = "CTR" => m.type = VoiceSession) /\ m.type # StartReq
    BY <2>3, <1>2, <1>3 DEF IsRequest
  <2>5. PhoneShape'
    BY <2>2 DEF CInv, PhoneShape
  <2> QED BY <1>1, <2>1, <2>2, <2>3, <2>4, <2>5, ToldSent
<1>12. ASSUME NEW c \in Chans, PhoneStarts(c) PROVE CInv'
  <2>1. phase[c] = "ready" /\ phase' = [phase EXCEPT ![c] = "playing"]
    BY <1>12 DEF PhoneStarts
  <2>2. PICK s \in IF c \in Audio THEN Sids ELSE {0} :
          Sends(Msg(c, StartReq, s), NoAnswer) /\ sid' = [sid EXCEPT ![c] = s]
    BY <1>12 DEF PhoneStarts
  <2> DEFINE m == Msg(c, StartReq, s)
  <2>3. s \in Nat /\ (c = "VID" => s = 0)
    BY <1>1, <1>3, <2>2
  <2>4. m \in AnyMsg /\ m.chan = c /\ m.type = StartReq /\ m.val = s
    BY <2>3, NumbersAre, MsgTyped, MsgIs
  <2>5. c \in Sinks /\ c # "CTR" /\ c # "SEN"
    BY <1>3, <1>12 DEF PhoneStarts, CInv, PhoneShape
  <2>6. ~IsRequest(m)
    BY <2>4, <2>5, <1>2, <1>3 DEF IsRequest
  <2>7. PhoneShape'
    BY <1>1, <2>1, <2>2, <2>3, <2>5 DEF CInv, PhoneShape
  <2>8. Sends(m, NoAnswer)
    BY <2>2
  <2> HIDE DEF m
  <2> QED BY <1>1, <2>1, <2>2, <2>3, <2>4, <2>5, <2>6, <2>7, <2>8, ToldSent
<1>13. ASSUME NEW c \in Chans, PhoneStops(c) PROVE CInv'
  <2> DEFINE m == Msg(c, StopReq, 0)
  <2>1. phase[c] = "playing" /\ phase' = [phase EXCEPT ![c] = "ready"] /\ UNCHANGED sid /\ Sends(m, NoAnswer)
    BY <1>13 DEF PhoneStops
  <2>2. m \in AnyMsg /\ m.chan = c /\ m.type = StopReq /\ m.val = 0
    BY NumbersAre, MsgTyped, MsgIs
  <2>3. c \in Sinks /\ c # "CTR" /\ c # "TOU"
    BY <1>3, <2>1 DEF CInv, PhoneShape
  <2>4. ~IsRequest(m) /\ m.type # StartReq
    BY <2>2, <2>3, <1>2, <1>3 DEF IsRequest
  <2>5. PhoneShape'
    BY <2>1 DEF CInv, PhoneShape
  <2> HIDE DEF m
  <2> QED BY <1>1, <2>1, <2>2, <2>3, <2>4, <2>5, ToldSent
<1> QED BY <1>4, <1>5, <1>6, <1>7, <1>8, <1>9, <1>10, <1>11, <1>12, <1>13 DEF Phone, PhoneAsks

-----------------------------------------------------------------------------
(* Steps of the handlers.                                                  *)

LEMMA Handled ==
  ASSUME IInv, CInv, queue # << >>, NEW m, m = Head(queue),
         NEW ans \in Seq(AnyMsg), Len(ans) \in 0..2, NEW kind, Handle(ans, kind),
         ack_val' = IF m.type = StartReq /\ m.chan \in Audio THEN [ack_val EXCEPT ![m.chan] = m.val] ELSE ack_val,
         iaap_state = "Started" =>
           IF IsRequest(m)
           THEN Len(ans) >= 1 /\ ans[1] = AnswerTo(m, sid[m.chan]) /\ \A k \in 2..Len(ans) : ans[k] \in Unsolicited
           ELSE Len(ans) = 0
  PROVE  CInv'
<1> DEFINE L == Len(queue)
           T == Tail(queue)
<1>1. /\ pc = "rx" /\ pc' = "reply" /\ packets' = packets /\ packets > 0 /\ replies' = Len(ans)
      /\ iaap_state' = iaap_state /\ todo' = ans /\ queue' = T /\ UNCHANGED <<phase, sid, due>>
  BY DEF Handle, RxMessage, phone
<1>2. queue \in Seq(AnyMsg) /\ L \in Nat /\ todo = << >> /\ Len(todo) = 0
  BY <1>1, LenProperties DEF CInv, ChanTypes, ReadShape
<1>3. /\ T \in Seq(AnyMsg) /\ Len(T) = L - 1 /\ L \in Nat \ {0}
      /\ \A k \in 1..(L - 1) : T[k] = queue[k + 1]
      /\ \A k \in 1..L : queue[k] \in AnyMsg
      /\ queue[1] = m /\ m \in AnyMsg
  BY <1>2, HeadTailProperties, EmptySeq, ElementOfSeq
<1>4. m.chan \in Chans /\ m.val \in Nat
  BY <1>3 DEF AnyMsg
<1> HIDE DEF L, T
<1>5. ChanTypes'
  BY <1>1, <1>3, <1>4 DEF CInv, ChanTypes
<1>6. ReadShape'
  <2>1. packets \in 0..L
    BY <1>1 DEF CInv, ReadShape, Received, L
  <2>2. packets - 1 \in 0..Len(queue')
    BY <1>1, <1>3, <2>1
  <2> QED BY <1>1, <2>2 DEF ReadShape, Received
<1>7. DownShape' /\ PhoneShape'
  BY <1>1 DEF CInv, DownShape, PhoneShape
<1>8. ASSUME iaap_state = "Started" PROVE Talk'
  <2>1. Requests /\ FirstAwaited /\ DueShape /\ StreamIds /\ NothingForgotten
    BY <1>8 DEF CInv, Talk
  <2>2. Len(queue') = L - 1 /\ (\A k \in 1..(L - 1) : queue'[k] = queue[k + 1]) /\ due' = due /\ sid' = sid
        /\ phase' = phase /\ Len(queue) = L
    BY <1>1, <1>3 DEF L
  <2>3. ASSUME IsRequest(m)
        PROVE  /\ ans[1] = due[m.chan] /\ ans[1].chan = m.chan /\ 1 \in 1..Len(ans)
               /\ \A j \in 2..L : queue[j].chan # m.chan
    <3>1. RequestAt(1) /\ 1 \in 1..L
      BY <1>3, <2>1, <2>2, <2>3 DEF Requests
    <3>2. due[m.chan] # NoAnswer
      BY <1>3, <1>8, <2>2, <2>3, <3>1, RequestIsDue
    <3>3. due[m.chan].chan = m.chan
      BY <1>4, <2>1, <3>2 DEF DueShape
    <3> QED BY <1>3, <1>8, <2>2, <2>3, <3>1, <3>3 DEF RequestAt
  <2>4. Requests'
    <3> SUFFICES ASSUME NEW k \in 1..(L - 1)
                 PROVE  /\ IsRequest(queue'[k]) => RequestAt(k)'
                        /\ queue'[k].chan = "CTR" => queue'[k].type \in CtrReqs \cup {VoiceSession}
      BY <2>2 DEF Requests, IsRequest
    <3>1. k + 1 \in 1..L /\ queue'[k] = queue[k + 1] /\ k + 1 \in 2..L
      BY <1>3, <2>2
    <3>2. queue[k + 1].chan = "CTR" => queue[k + 1].type \in CtrReqs \cup {VoiceSession}
      BY <3>1, <2>1, <2>2 DEF Requests
    <3>3. ASSUME IsRequest(queue[k + 1]) PROVE RequestAt(k)'
      <4>1. RequestAt(k + 1)
        BY <3>1, <3>3, <2>1, <2>2 DEF Requests
      <4>2. ASSUME NEW j \in (k + 1)..(L - 1) PROVE queue'[j].chan # queue[k + 1].chan
        <5>1. j \in 1..(L - 1) /\ j + 1 \in ((k + 1) + 1)..L
          BY <1>3
        <5>2. queue'[j] = queue[j + 1]
          BY <2>2, <5>1
        <5> QED BY <4>1, <5>1, <5>2, <2>2 DEF RequestAt
      <4>3. ASSUME NEW j \in 1..Len(ans) PROVE ans[j] \in Unsolicited \/ ans[j].chan # queue[k + 1].chan
        BY <1>3, <1>8, <2>3, <3>1
      <4> QED BY <1>1, <2>2, <3>1, <4>1, <4>2, <4>3 DEF RequestAt
    <3> QED BY <3>1, <3>2, <3>3
  <2>5. FirstAwaited'
    BY <1>1, <1>8, <2>2, <2>3 DEF FirstAwaited
  <2>6. DueShape'
    BY <2>1, <2>2 DEF DueShape
  <2>7. StreamIds'
    <3> SUFFICES ASSUME NEW c \in Chans \cap Audio, phase[c] = "playing" PROVE IdOf(c)'
      BY <2>2 DEF StreamIds
    <3> DEFINE After(k) == queue'[k].chan = c /\ queue'[k].type = StartReq
    <3>1. \A k \in 1..(L - 1) : After(k) <=> StartAt(k + 1, c)
      BY <2>2 DEF StartAt
    <3>2. IdOf(c)
      BY <2>1 DEF StreamIds
    <3> HIDE DEF After
    <3>3. ASSUME \A k \in 1..(L - 1) : ~After(k) PROVE ack_val'[c] = sid[c]
      <4>1. ASSUME NEW j \in 2..L PROVE ~StartAt(j, c)
        <5>1. j - 1 \in 1..(L - 1) /\ (j - 1) + 1 = j
          BY <1>3
        <5> QED BY <3>1, <3>3, <5>1
      <4>2. CASE StartAt(1, c)
        <5>1. m.val = sid[c]
          BY <1>3, <2>2, <3>2, <4>1, <4>2 DEF IdOf
        <5>2. m.type = StartReq /\ m.chan = c
          BY <1>3, <4>2 DEF StartAt
        <5> QED BY <5>1, <5>2 DEF CInv, ChanTypes
      <4>3. CASE ~StartAt(1, c)
        <5>1. \A j \in 1..L : ~StartAt(j, c)
          BY <1>3, <4>1, <4>3
        <5>2. ack_val[c] = sid[c]
          BY <2>2, <3>2, <5>1 DEF IdOf
        <5>3. ~(m.type = StartReq /\ m.chan = c)
          BY <1>3, <4>3 DEF StartAt
        <5> QED BY <5>2, <5>3 DEF CInv, ChanTypes
      <4> QED BY <4>2, <4>3
    <3>4. ASSUME NEW k \in 1..(L - 1), After(k), \A j \in (k + 1)..(L - 1) : ~After(j)
          PROVE  queue'[k].val = sid[c]
      <4>1. ASSUME NEW j \in (k + 2)..L PROVE ~StartAt(j, c)
        <5>1. j - 1 \in (k + 1)..(L - 1) /\ j - 1 \in 1..(L - 1) /\ (j - 1) + 1 = j
          BY <1>3
        <5> QED BY <3>1, <3>4, <5>1
      <4>2. k + 1 \in 1..L /\ (k + 1) + 1 = k + 2 /\ StartAt(k + 1, c) /\ queue'[k] = queue[k + 1]
        BY <1>3, <2>2, <3>1, <3>4
      <4> QED BY <2>2, <3>2, <4>1, <4>2 DEF IdOf
    <3> QED BY <2>2, <3>3, <3>4 DEF IdOf, StartAt, After
  <2>8. NothingForgotten'
    <3> SUFFICES ASSUME NEW c \in Chans, due[c] # NoAnswer
                 PROVE  \/ \E k \in 1..Len(ans) : ans[k] = due[c]
                        \/ \E k \in 1..(L - 1) : queue'[k].chan = c /\ IsRequest(queue'[k])
      BY <1>1, <2>2 DEF NothingForgotten, IsRequest
    <3>1. PICK k \in 1..L : queue[k].chan = c /\ IsRequest(queue[k])
      BY <1>2, <1>8, <2>1, <2>2 DEF NothingForgotten
    <3>2. CASE k = 1
      BY <1>3, <2>3, <3>1, <3>2
    <3>3. CASE k # 1
      <4>1. k - 1 \in 1..(L - 1) /\ queue'[k - 1] = queue[k]
        BY <1>3, <2>2, <3>3
      <4> QED BY <3>1, <4>1
    <3> QED BY <3>2, <3>3
  <2> QED BY <2>4, <2>5, <2>6, <2>7, <2>8 DEF Talk
<1>9. iaap_state # "Started" => Talk'
  BY <1>1 DEF Talk
<1> QED BY <1>5, <1>6, <1>7, <1>8, <1>9 DEF CInv

LEMMA AnswerSeqs ==
  ASSUME NEW a \in AnyMsg, NEW b \in AnyMsg
  PROVE  /\ << >> \in Seq(AnyMsg) /\ Len(<< >>) = 0
         /\ <<a>> \in Seq(AnyMsg) /\ Len(<<a>>) = 1 /\ <<a>>[1] = a
         /\ <<a, b>> \in Seq(AnyMsg) /\ Len(<<a, b>>) = 2 /\ <<a, b>>[1] = a /\ <<a, b>>[2] = b
OBVIOUS

(* The answer of a handler is the one that its request wants.              *)
LEMMA Handled1 ==
  ASSUME IInv, CInv, queue # << >>, NEW m, m = Head(queue), NEW a \in AnyMsg, NEW kind, Handle(<<a>>, kind),
         UNCHANGED ack_val, IsRequest(m), ~(m.type = StartReq /\ m.chan \in Audio),
         iaap_state = "Started" => a = AnswerTo(m, sid[m.chan])
  PROVE  CInv'
<1> DEFINE s == <<a>>
<1>1. s \in Seq(AnyMsg) /\ Len(s) = 1 /\ s[1] = a /\ Handle(s, kind)
  BY AnswerSeqs
<1> HIDE DEF s
<1> QED BY <1>1, Handled

LEMMA Handled2 ==
  ASSUME IInv, CInv, queue # << >>, NEW m, m = Head(queue), NEW a \in AnyMsg, NEW b \in AnyMsg, NEW kind,
         Handle(<<a, b>>, kind), b \in Unsolicited,
         UNCHANGED ack_val, IsRequest(m), ~(m.type = StartReq /\ m.chan \in Audio),
         iaap_state = "Started" => a = AnswerTo(m, sid[m.chan])
  PROVE  CInv'
<1> DEFINE s == <<a, b>>
<1>1. s \in Seq(AnyMsg) /\ Len(s) = 2 /\ s[1] = a /\ s[2] = b /\ Handle(s, kind)
  BY AnswerSeqs
<1> HIDE DEF s
<1> QED BY <1>1, Handled

LEMMA Handled0 ==
  ASSUME IInv, CInv, queue # << >>, NEW m, m = Head(queue), NEW kind, Handle(<< >>, kind), ~IsRequest(m),
         ack_val' = IF m.type = StartReq /\ m.chan \in Audio THEN [ack_val EXCEPT ![m.chan] = m.val] ELSE ack_val
  PROVE  CInv'
<1> DEFINE s == << >>
<1>1. s \in Seq(AnyMsg) /\ Len(s) = 0 /\ Len(s) \in 0..2 /\ Handle(s, kind)
  BY EmptySeq
<1> HIDE DEF s
<1> QED BY <1>1, Handled, Zenon

LEMMA HandlerCInv == IInv /\ CInv /\ Handler => CInv'
<1> SUFFICES ASSUME IInv, CInv, Handler PROVE CInv'
  OBVIOUS
<1> DEFINE m == Head(queue)
<1>1. /\ Media = 0 /\ SvcDiscReq = 5 /\ OpenReq = 7 /\ PingReq = 11 /\ NavFocusReq = 13 /\ ByebyeReq = 15
      /\ VoiceSession = 17 /\ AudioFocusReq = 18 /\ SetupReq = 32768 /\ StartReq = 32769 /\ StopReq = 32770
      /\ BindReq = 32770 /\ MicReq = 32773
  BY DEF Media, SvcDiscReq, OpenReq, PingReq, NavFocusReq, ByebyeReq, VoiceSession, AudioFocusReq, SetupReq,
     StartReq, StopReq, BindReq, MicReq
<1>2. /\ CtrReqs = {5, 11, 13, 18, 15}
      /\ "CTR" \notin Sinks /\ "SEN" \notin Sinks /\ "TOU" \notin Sinks /\ "MIC" \notin Sinks
      /\ Sinks = {"AUD", "AU1", "AU2", "VID"} /\ Audio = {"AUD", "AU1", "AU2"}
  BY <1>1 DEF CtrReqs, Sinks, Audio
<1>3. queue # << >> => queue \in Seq(AnyMsg) /\ Len(queue) \in Nat \ {0} /\ queue[1] = m /\ m \in AnyMsg
                       /\ m.chan \in Chans /\ m.val \in Nat
  <2> SUFFICES ASSUME queue # << >>
               PROVE  queue \in Seq(AnyMsg) /\ Len(queue) \in Nat \ {0} /\ queue[1] = m /\ m \in AnyMsg
                      /\ m.chan \in Chans /\ m.val \in Nat
    OBVIOUS
  <2>1. queue \in Seq(AnyMsg) /\ queue[1] = m
    BY DEF CInv, ChanTypes
  <2>2. Len(queue) \in Nat \ {0} /\ m \in AnyMsg
    BY <2>1, EmptySeq, HeadTailProperties
  <2> QED BY <2>1, <2>2 DEF AnyMsg
<1>4. ack_val \in [Audio -> Nat] /\ sid \in [Chans -> Nat]
  BY DEF CInv, ChanTypes
<1>5. \A c, n : Got(c, n) => queue # << >> /\ m.chan = c /\ m.type = n
  BY DEF Got
<1> HIDE DEF m
<1>6. CASE iaap_audio_process
  <2>1. PICK c \in Chans \cap Audio : Got(c, Media) /\ Answers(<<Msg(c, Ack, ack_val[c])>>)
    BY <1>6 DEF iaap_audio_process
  <2>2. Msg(c, Ack, ack_val[c]) \in AnyMsg
    BY <1>4, MsgTyped, NumbersAre
  <2>3. queue # << >> /\ m.chan = c /\ m.type = Media /\ c # "CTR"
    BY <1>2, <1>5, <2>1
  <2>4. ASSUME iaap_state = "Started" PROVE ack_val[c] = sid[c]
    <3>1. IsRequest(queue[1]) /\ 1 \in 1..Len(queue)
      BY <1>3, <2>3 DEF IsRequest
    <3>2. RequestAt(1)
      BY <2>4, <3>1 DEF CInv, Talk, Requests
    <3>3. IdOf(c)
      BY <1>3, <2>3, <2>4, <3>2 DEF CInv, Talk, StreamIds, RequestAt
    <3>4. \A j \in 2..Len(queue) : queue[j].chan # c
      BY <1>3, <2>3, <3>2 DEF RequestAt
    <3>5. ASSUME NEW k \in 1..Len(queue) PROVE ~StartAt(k, c)
      <4>1. CASE k = 1
        BY <1>1, <1>3, <2>3, <4>1 DEF StartAt
      <4>2. CASE k # 1
        BY <1>3, <3>4, <4>2 DEF StartAt
      <4> QED BY <4>1, <4>2
    <3> QED BY <3>3, <3>5 DEF IdOf
  <2>5. iaap_state = "Started" => Msg(c, Ack, ack_val[c]) = AnswerTo(m, sid[m.chan])
    BY <1>1, <2>3, <2>4 DEF AnswerTo
  <2>6. IsRequest(m) /\ m.type # StartReq
    BY <1>1, <2>3 DEF IsRequest
  <2> QED BY <2>1, <2>2, <2>3, <2>5, <2>6, Handled1 DEF Answers, m
<1>7. CASE iaap_video_process
  <2>1. Got("VID", Media) /\ "VID" \in Chans /\ Answers(<<Msg("VID", Ack, 0)>>)
    BY <1>7 DEF iaap_video_process
  <2>2. Msg("VID", Ack, 0) \in AnyMsg
    BY <2>1, MsgTyped, NumbersAre
  <2>3. queue # << >> /\ m.chan = "VID" /\ m.type = Media
    BY <1>5, <2>1
  <2>4. Msg("VID", Ack, 0) = AnswerTo(m, sid[m.chan])
    BY <1>1, <2>1, <2>3 DEF AnswerTo, CInv, PhoneShape
  <2>5. IsRequest(m) /\ m.type # StartReq
    BY <1>1, <2>3 DEF IsRequest
  <2> QED BY <2>1, <2>2, <2>3, <2>4, <2>5, Handled1 DEF Answers, m
<1>8. CASE aa_pro_ctr
  <2>1. PICK n \in CtrReqs \ {ByebyeReq} :
          Got("CTR", n) /\ Answers(<<Msg("CTR", n + 1, CtrValue(n, Head(queue).val))>>)
    BY <1>8 DEF aa_pro_ctr
  <2>2. queue # << >> /\ m.chan = "CTR" /\ m.type = n
    BY <1>5, <2>1
  <2>3. Msg("CTR", n + 1, CtrValue(n, m.val)) \in AnyMsg
    BY <1>3, <2>1, <2>2, NoneIsNoChannel, MsgTyped, NumbersAre DEF CtrValue
  <2>4. Msg("CTR", n + 1, CtrValue(n, m.val)) = AnswerTo(m, sid[m.chan])
    BY <2>2 DEF AnswerTo
  <2>5. IsRequest(m) /\ m.type # StartReq
    BY <1>1, <1>2, <2>1, <2>2 DEF IsRequest
  <2> QED BY <2>1, <2>2, <2>3, <2>4, <2>5, Handled1 DEF Answers, m
<1>9. CASE aa_pro_ctr_a0f
  <2>1. Got("CTR", ByebyeReq) /\ Handle(<<Msg("CTR", ByebyeReq + 1, 0)>>, "byebye") /\ UNCHANGED ack_val
    BY <1>9 DEF aa_pro_ctr_a0f
  <2>2. queue # << >> /\ m.chan = "CTR" /\ m.type = ByebyeReq
    BY <1>5, <2>1
  <2>3. Msg("CTR", ByebyeReq + 1, 0) \in AnyMsg
    BY <1>1, <1>2, NoneIsNoChannel, MsgTyped, NumbersAre
  <2>4. Msg("CTR", ByebyeReq + 1, 0) = AnswerTo(m, sid[m.chan])
    BY <1>1, <2>2 DEF AnswerTo, CtrValue
  <2>5. IsRequest(m) /\ m.type # StartReq
    BY <1>1, <1>2, <2>2 DEF IsRequest
  <2> QED BY <2>1, <2>2, <2>3, <2>4, <2>5, Handled1 DEF m
<1>10. CASE aa_pro_all_a07
  <2>1. PICK c \in Chans :
          Got(c, OpenReq) /\ Answers(IF c = "SEN" THEN <<Msg(c, OpenRsp, 0), Msg(c, Config, 0)>>
                                     ELSE <<Msg(c, OpenRsp, 0)>>)
    BY <1>10 DEF aa_pro_all_a07
  <2>2. queue # << >> /\ m.chan = c /\ m.type = OpenReq
    BY <1>5, <2>1
  <2>3. Msg(c, OpenRsp, 0) \in AnyMsg /\ Msg(c, Config, 0) \in AnyMsg
    BY MsgTyped, NumbersAre
  <2>4. IsRequest(m) /\ m.type # StartReq
    BY <1>1, <2>2 DEF IsRequest
  <2>5. iaap_state = "Started" => c # "CTR"
    <3>1. iaap_state = "Started" /\ m.chan = "CTR" => m.type \in CtrReqs \cup {VoiceSession}
      BY <1>3, <2>2 DEF CInv, Talk, Requests
    <3> QED BY <1>1, <1>2, <2>2, <3>1
  <2>6. iaap_state = "Started" => Msg(c, OpenRsp, 0) = AnswerTo(m, sid[m.chan])
    BY <2>2, <2>5 DEF AnswerTo
  <2>7. CASE c = "SEN"
    <3>1. Msg(c, Config, 0) \in Unsolicited /\ Handle(<<Msg(c, OpenRsp, 0), Msg(c, Config, 0)>>, "other")
      BY <2>1, <2>7 DEF Unsolicited, Answers
    <3> QED BY <2>1, <2>2, <2>3, <2>4, <2>6, <3>1, Handled2 DEF Answers, m
  <2>8. CASE c # "SEN"
    <3>1. Handle(<<Msg(c, OpenRsp, 0)>>, "other")
      BY <2>1, <2>8 DEF Answers
    <3> QED BY <2>1, <2>2, <2>3, <2>4, <2>6, <3>1, Handled1 DEF Answers, m
  <2> QED BY <2>7, <2>8
<1>11. CASE aa_pro_snk_b00
  <2>1. PICK c \in Chans \cap Sinks :
          Got(c, SetupReq) /\ Answers(IF c = "VID" THEN <<Msg(c, Config, 2), Msg(c, VideoFocus, 1)>>
                                      ELSE <<Msg(c, Config, 2)>>)
    BY <1>11 DEF aa_pro_snk_b00
  <2>2. queue # << >> /\ m.chan = c /\ m.type = SetupReq /\ c # "CTR"
    BY <1>2, <1>5, <2>1
  <2>3. Msg(c, Config, 2) \in AnyMsg /\ Msg(c, VideoFocus, 1) \in AnyMsg
    BY MsgTyped, NumbersAre
  <2>4. IsRequest(m) /\ m.type # StartReq
    BY <1>1, <2>2 DEF IsRequest
  <2>5. Msg(c, Config, 2) = AnswerTo(m, sid[m.chan])
    BY <1>1, <2>2 DEF AnswerTo
  <2>6. CASE c = "VID"
    <3>1. Msg(c, VideoFocus, 1) \in Unsolicited /\ Handle(<<Msg(c, Config, 2), Msg(c, VideoFocus, 1)>>, "other")
      BY <2>1, <2>6 DEF Unsolicited, Answers
    <3> QED BY <2>1, <2>2, <2>3, <2>4, <2>5, <3>1, Handled2 DEF Answers, m
  <2>7. CASE c # "VID"
    <3>1. Handle(<<Msg(c, Config, 2)>>, "other")
      BY <2>1, <2>7 DEF Answers
    <3> QED BY <2>1, <2>2, <2>3, <2>4, <2>5, <3>1, Handled1 DEF Answers, m
  <2> QED BY <2>6, <2>7
<1>12. CASE aa_pro_aud_b01
  <2>1. PICK c \in Chans \cap Audio : Got(c, StartReq) /\ Handle(<< >>, "other") /\ Save(c)
    BY <1>12 DEF aa_pro_aud_b01
  <2>2. queue # << >> /\ m.chan = c /\ m.type = StartReq /\ c # "SEN"
    BY <1>2, <1>5, <2>1
  <2>3. ~IsRequest(m)
    BY <1>1, <1>2, <2>2 DEF IsRequest
  <2>4. ack_val' = [ack_val EXCEPT ![m.chan] = m.val]
    BY <2>1, <2>2 DEF Save, m
  <2> QED BY <2>1, <2>2, <2>3, <2>4, Handled0 DEF m
<1>13. CASE aa_pro_sen_b01
  <2>1. Got("SEN", StartReq) /\ "SEN" \in Chans /\ Answers(<<Msg("SEN", SensorRsp, 0)>>)
    BY <1>13 DEF aa_pro_sen_b01
  <2>2. queue # << >> /\ m.chan = "SEN" /\ m.type = StartReq
    BY <1>5, <2>1
  <2>3. Msg("SEN", SensorRsp, 0) \in AnyMsg
    BY <2>1, MsgTyped, NumbersAre
  <2>4. Msg("SEN", SensorRsp, 0) = AnswerTo(m, sid[m.chan])
    BY <1>1, <2>2 DEF AnswerTo
  <2>5. IsRequest(m) /\ m.chan \notin Audio
    BY <1>2, <2>2 DEF IsRequest
  <2> QED BY <2>1, <2>2, <2>3, <2>4, <2>5, Handled1 DEF Answers, m
<1>14. CASE aa_pro_tou_b02
  <2>1. Got("TOU", BindReq) /\ "TOU" \in Chans /\ Answers(<<Msg("TOU", Config, 0)>>)
    BY <1>14 DEF aa_pro_tou_b02
  <2>2. queue # << >> /\ m.chan = "TOU" /\ m.type = BindReq
    BY <1>5, <2>1
  <2>3. Msg("TOU", Config, 0) \in AnyMsg
    BY <2>1, MsgTyped, NumbersAre
  <2>4. Msg("TOU", Config, 0) = AnswerTo(m, sid[m.chan])
    BY <1>1, <2>2 DEF AnswerTo
  <2>5. IsRequest(m) /\ m.chan \notin Audio
    BY <1>2, <2>2 DEF IsRequest
  <2> QED BY <2>1, <2>2, <2>3, <2>4, <2>5, Handled1 DEF Answers, m
<1>15. CASE NoAnswers
  <2>1. Handle(<< >>, "other") /\ UNCHANGED ack_val
    BY <1>15 DEF NoAnswers, Answers
  <2>2. queue # << >> /\ \/ m.chan = "CTR" /\ m.type = VoiceSession
                         \/ m.chan = "MIC" /\ m.type = MicReq
                         \/ m.chan = "VID" /\ m.type = StartReq
                         \/ m.chan \in Sinks /\ m.type = StopReq
    BY <1>5, <1>15 DEF NoAnswers
  <2>3. ~IsRequest(m) /\ ~(m.type = StartReq /\ m.chan \in Audio)
    BY <1>1, <1>2, <2>2 DEF IsRequest
  <2> QED BY <2>1, <2>2, <2>3, Handled0 DEF m
<1> QED BY <1>6, <1>7, <1>8, <1>9, <1>10, <1>11, <1>12, <1>13, <1>14, <1>15 DEF Handler

LEMMA ReplyShape ==
  ASSUME IInv, CInv, Reply
  PROVE  /\ pc = "reply" /\ pc' = "reply" /\ packets' = packets
         /\ replies \in 1..2 /\ replies' \in 0..2
         /\ replies' = replies - 1 \/ replies' = 0
         /\ iaap_state' = "Started" => iaap_state = "Started" /\ replies' = replies - 1
<1>1. PICK r \in {-1, 0} : EncSend(r) /\ replies' = IF r = 0 THEN replies - 1 ELSE 0
  BY DEF Reply
<1>2. replies \in 1..2 /\ pc = "reply" /\ pc' = "reply" /\ packets' = packets
  BY DEF Reply, IInv, TypeOK
<1>3. iaap_state' = "Started" => iaap_state = "Started" /\ r = 0
  BY <1>1 DEF EncSend, AapStop, SendFails, Live
<1> QED BY <1>1, <1>2, <1>3

LEMMA ReplyCInv == IInv /\ CInv /\ ChanReply => CInv'
<1> SUFFICES ASSUME IInv, CInv, ChanReply PROVE CInv'
  OBVIOUS
<1> DEFINE a == Head(todo)
           T == Tail(todo)
<1>1. /\ pc = "reply" /\ pc' = "reply" /\ packets' = packets
      /\ replies \in 1..2 /\ replies' \in 0..2
      /\ replies' = replies - 1 \/ replies' = 0
      /\ iaap_state' = "Started" => iaap_state = "Started" /\ replies' = replies - 1
  BY ReplyShape DEF ChanReply
<1>2. /\ todo' = IF replies' = 0 THEN << >> ELSE T
      /\ IF iaap_state' = "Started" THEN PhoneGets(a) ELSE PhoneSeesSession
      /\ UNCHANGED ack_val
  BY DEF ChanReply
<1>3. todo \in Seq(AnyMsg) /\ queue \in Seq(AnyMsg) /\ Len(todo) = replies /\ Len(queue) \in Nat
  BY <1>1, LenProperties DEF CInv, ChanTypes, ReadShape
<1>4. /\ T \in Seq(AnyMsg) /\ Len(T) = replies - 1 /\ \A k \in 1..(replies - 1) : T[k] = todo[k + 1]
      /\ a \in AnyMsg /\ a = todo[1]
  <2>1. todo # << >>
    BY <1>1, <1>3, EmptySeq
  <2>2. a \in AnyMsg /\ T \in Seq(AnyMsg) /\ Len(T) = Len(todo) - 1
        /\ \A k \in 1..Len(T) : T[k] = todo[k + 1]
    BY <1>3, <2>1, HeadTailProperties
  <2>3. a = todo[1]
    BY <1>3, <2>1
  <2> QED BY <1>3, <2>2, <2>3
<1> HIDE DEF a, T
<1>5. /\ todo' \in Seq(AnyMsg) /\ Len(todo') = replies'
      /\ \A k \in 1..replies' : todo'[k] = todo[k + 1] /\ k + 1 \in 2..Len(todo)
  BY <1>1, <1>2, <1>3, <1>4, EmptySeq
<1>6. Received' = Received /\ Received \in 0..Len(queue)
  BY <1>1 DEF Received, CInv, ReadShape
<1>7. CASE iaap_state' = "Started"
  <2>1. Requests /\ FirstAwaited /\ DueShape /\ StreamIds /\ NothingForgotten /\ iaap_state = "Started"
    BY <1>1, <1>7 DEF CInv, Talk
  <2>2. PhoneGets(a) /\ UNCHANGED <<queue, sid>>
    BY <1>2, <1>7 DEF PhoneGets
  <2>3. a.chan \in Chans /\ due \in [Chans -> AnyMsg \cup {NoAnswer}]
        /\ phase \in [Chans -> {"closed", "open", "ready", "playing", "leaving"}]
    BY <1>4 DEF AnyMsg, CInv, ChanTypes
  <2>4. \A c \in Chans : IF c = a.chan /\ due[c] = a THEN due'[c] = NoAnswer
                         ELSE due'[c] = due[c] /\ phase'[c] = phase[c]
    BY <2>2, <2>3 DEF PhoneGets
  <2>5. /\ phase' \in [Chans -> {"closed", "open", "ready", "playing", "leaving"}]
        /\ \A c \in Chans : phase'[c] = "playing" => phase[c] = "playing"
        /\ \A c \in Chans : phase'[c] = phase[c] \/ phase'[c] = "open" \/ (phase'[c] = "ready" /\ c \in Sinks)
    BY <2>2, <2>3 DEF PhoneGets
  <2>6. due' \in [Chans -> AnyMsg \cup {NoAnswer}]
    BY <2>2, <2>3 DEF PhoneGets
  <2>7. ChanTypes'
    BY <1>2, <1>5, <2>2, <2>5, <2>6 DEF CInv, ChanTypes
  <2>8. ReadShape'
    BY <1>1, <1>5, <1>6, <2>2 DEF ReadShape
  <2>9. DownShape'
    BY <1>7 DEF DownShape
  <2>10. PhoneShape'
    <3>1. "CTR" \notin Sinks
      BY DEF Sinks, Audio
    <3> QED BY <2>2, <2>5, <3>1, NoneIsNoChannel DEF CInv, PhoneShape
  <2>11. \A k \in 1..replies' : todo'[k] \in Unsolicited
    BY <1>3, <1>5, <2>1 DEF FirstAwaited
  <2>12. Requests'
    <3> SUFFICES ASSUME NEW k \in 1..Len(queue)
                 PROVE  /\ IsRequest(queue[k]) => RequestAt(k)'
                        /\ queue[k].chan = "CTR" => queue[k].type \in CtrReqs \cup {VoiceSession}
      BY <2>2 DEF Requests, IsRequest
    <3>1. queue[k].chan = "CTR" => queue[k].type \in CtrReqs \cup {VoiceSession}
      BY <2>1 DEF Requests
    <3>2. ASSUME IsRequest(queue[k]) PROVE RequestAt(k)'
      <4>1. RequestAt(k) /\ due[queue[k].chan] # NoAnswer /\ queue[k].chan \in Chans
        <5>1. queue[k] \in AnyMsg
          BY <1>3, ElementOfSeq
        <5>2. due[queue[k].chan] # NoAnswer
          BY <2>1, <3>2, RequestIsDue
        <5>3. RequestAt(k)
          BY <2>1, <3>2 DEF Requests
        <5> QED BY <5>1, <5>2, <5>3 DEF AnyMsg
      <4>2. due[queue[k].chan] \notin Unsolicited
        BY <2>1, <4>1 DEF DueShape
      <4>3. ~(queue[k].chan = a.chan /\ due[queue[k].chan] = a)
        BY <1>1, <1>3, <1>4, <4>1, <4>2 DEF RequestAt
      <4>4. due'[queue[k].chan] = due[queue[k].chan] /\ phase'[queue[k].chan] = phase[queue[k].chan]
        BY <2>4, <4>1, <4>3
      <4> QED BY <1>5, <2>2, <2>11, <4>1, <4>4 DEF RequestAt
    <3> QED BY <3>1, <3>2
  <2>13. FirstAwaited'
    BY <1>5, <2>11 DEF FirstAwaited, Unsolicited
  <2>14. DueShape'
    BY <2>1, <2>4 DEF DueShape
  <2>15. StreamIds'
    BY <1>2, <2>1, <2>2, <2>5 DEF StreamIds, IdOf, StartAt
  <2>16. NothingForgotten'
    <3> SUFFICES ASSUME NEW c \in Chans, due'[c] # NoAnswer
                 PROVE  \E k \in 1..Len(queue) : queue[k].chan = c /\ IsRequest(queue[k])
      <4>1. \A c \in Chans : due'[c] # NoAnswer => due'[c] = due[c]
        BY <2>4
      <4> QED BY <2>2, <4>1 DEF NothingForgotten, IsRequest
    <3>1. due'[c] = due[c] /\ due[c] # NoAnswer /\ ~(c = a.chan /\ due[c] = a)
      BY <2>4
    <3>2. due[c].chan = c /\ due[c] \notin Unsolicited
      BY <2>1, <3>1 DEF DueShape
    <3>3. ASSUME NEW k \in 1..Len(todo), todo[k] = due[c] PROVE FALSE
      <4>1. k = 1
        BY <2>1, <3>2, <3>3 DEF FirstAwaited
      <4> QED BY <1>4, <3>1, <3>2, <3>3, <4>1
    <3> QED BY <2>1, <3>1, <3>3 DEF NothingForgotten
  <2> QED BY <2>7, <2>8, <2>9, <2>10, <2>12, <2>13, <2>14, <2>15, <2>16 DEF CInv, Talk
<1>8. CASE iaap_state' # "Started"
  <2>1. /\ queue' = SubSeq(queue, 1, Received)
        /\ phase' = Closed /\ sid' = [c \in Chans |-> 0] /\ due' = [c \in Chans |-> NoAnswer]
    BY <1>1, <1>2, <1>8 DEF PhoneSeesSession
  <2>2. SubSeq(queue, 1, Received) \in Seq(AnyMsg) /\ Len(SubSeq(queue, 1, Received)) = Received
    BY <1>3, <1>6, SubSeqProperties, ElementOfSeq
  <2>3. ChanTypes'
    BY <1>2, <1>5, <2>1, <2>2 DEF CInv, ChanTypes, Closed
  <2>4. ReadShape'
    <3>1. Len(queue') = Received /\ Received \in 0..Received
      BY <1>3, <1>6, <2>1, <2>2
    <3> QED BY <1>1, <1>5, <1>6, <3>1 DEF ReadShape
  <2>5. DownShape' /\ Talk' /\ PhoneShape'
    BY <1>1, <1>8, <2>1, NoneIsNoChannel DEF DownShape, Talk, PhoneShape, Closed
  <2> QED BY <2>3, <2>4, <2>5 DEF CInv
<1> QED BY <1>7, <1>8

-----------------------------------------------------------------------------
LEMMA NextCInv == IInv /\ CInv /\ [ChanNext]_allVars => CInv'
<1> SUFFICES ASSUME IInv, CInv, [ChanNext]_allVars PROVE CInv'
  OBVIOUS
<1>1. CASE Phone
  BY <1>1, PhoneCInv
<1>2. CASE Handler
  BY <1>2, HandlerCInv
<1>3. CASE ChanReply
  BY <1>3, ReplyCInv
<1>4. CASE PlainStep /\ Plain
  BY <1>4, PlainCInv
<1>5. CASE UNCHANGED allVars
  BY <1>5 DEF allVars, vars, chanVars, phone, CInv, ChanTypes, ReadShape, Received, DownShape, PhoneShape, Talk,
     Requests, RequestAt, FirstAwaited, DueShape, StreamIds, IdOf, StartAt, NothingForgotten, IsRequest
<1>6. CASE ChanStart \/ ChanCall \/ ChanBye \/ (RxCompletes /\ Plain)
  BY <1>4, <1>6 DEF ChanStart, ChanCall, ChanBye, ChanGets, ChanTimesOut, PlainStep
<1>7. CASE ChanRx
  BY <1>2, <1>3, <1>4, <1>7 DEF ChanRx, PlainStep
<1> QED BY <1>1, <1>5, <1>6, <1>7 DEF ChanNext

LEMMA CInvAlways == ChanSpec => [](IInv /\ CInv)
<1>1. ChanInit => CInv
  BY InitCInv
<1> QED BY <1>1, NextCInv, ChannelsRefineSession, IInvAlways, PTL DEF ChanSpec

(* The ids, the queue and the phone's view are what their comments say.    *)
THEOREM ChannelsTypeCorrect == ChanSpec => []ChanTypeOK
<1>1. IInv /\ CInv => ChanTypeOK
  BY DEF IInv, CInv, ChanTypes, ChanTypeOK
<1> QED BY <1>1, CInvAlways, PTL

(* The head unit answers what it was asked, on the channel it was asked on, and
   acknowledges media with the id of the stream that plays.                   *)
THEOREM AnswersAwaitedHolds == ChanSpec => []AnswersAwaited
<1>1. CInv => AnswersAwaited
  BY DEF CInv, Talk, FirstAwaited, AnswersAwaited
<1> QED BY <1>1, CInvAlways, PTL

(* As long as the session is up, whatever the phone waits for is still in the
   queue, in the read buffer or about to be sent.                             *)
THEOREM NothingForgottenHolds == ChanSpec => []NothingForgotten
<1>1. CInv => NothingForgotten
  BY DEF CInv, Talk, NothingForgotten
<1> QED BY <1>1, CInvAlways, PTL

(* What the session promises, it promises with its channels: every step of a
   handler is within the replies that AapSession counts.                      *)
THEOREM ChannelsKeepSession ==
  ChanSpec => /\ [](LinkAgreement /\ EncryptedMeansFinished /\ ResultAgrees)
              /\ ContextsGivenBack /\ NoSendWhenDown /\ CallEnds
BY ChannelsRefineSession, LinkAgreementHolds, ContextsGivenBackHolds, EncryptedMeansFinishedHolds,
   ResultAgreesHolds, NoSendWhenDownHolds, CallEndsHolds, PTL
=============================================================================
