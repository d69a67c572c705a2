-------------------------- MODULE AlinqBrowserProof --------------------------
(***************************************************************************)
(* The pipe of the ALinQ requests for any number of threads, whatever      *)
(* transfers fail: it holds no answers but those left behind, and until    *)
(* one is left behind every read gets the answer to its own request.       *)
(***************************************************************************)
EXTENDS AlinqBrowser, SequenceTheorems, TLAPS

(* A well-formed exchange: what has no answer is not answered by the phone,
   and what is read is.                                                       *)
Requests ==
  Answered \cup {"SET_STATUS", "SET_TRK_TIME", "SET_CUR_TRK", "CONTROL", "SET_ACTIVE_GROUP_ITEM"}

WellFormed ==
  {x \in [cmd : Requests, reads : {"no", "sent", "always"}, tries : 1..MaxTries, keeps : BOOLEAN] :
     x.cmd \in Answered => x.reads # "no"}

(* What the steps keep, by parts.                                          *)
Shapes == CmdTypeOK /\ todo \in [Threads -> Seq(WellFormed)]

Holding == \A t \in Threads : pc[t] \in {"out", "in"} <=> CmdMutex = t

Waiting ==
  /\ (\A t \in Threads : pc[t] # "in") => Len(replies) <= lates
  /\ \A t \in Threads : pc[t] = "in" =>
       /\ Len(replies) <= lates + 1
       /\ lates = 0 => replies \in {<<>>, <<Answer(t)>>}

PipeInv == Shapes /\ Holding /\ Waiting

(* Where the browser's count of nodes is the fixed number of groups.       *)
Levels ==
  /\ AtRoot => iCurrentNodeNodesCount = Root /\ assigns = "none"
  /\ ~AtRoot /\ assigns # "nodes" => iCurrentNodeNodesCount # Root

-----------------------------------------------------------------------------
LEMMA ExchangeOK ==
  ASSUME NEW cmd \in Requests, NEW reads \in {"no", "sent", "always"}, NEW n \in 1..MaxTries, NEW keeps \in BOOLEAN,
         cmd \in Answered => reads # "no"
  PROVE  Exchange(cmd, reads, n, keeps) \in WellFormed
<1>1. Exchange(cmd, reads, n, keeps) \in
        [cmd : Requests, reads : {"no", "sent", "always"}, tries : 1..MaxTries, keeps : BOOLEAN]
  BY DEF Exchange
<1>2. Exchange(cmd, reads, n, keeps).cmd = cmd /\ Exchange(cmd, reads, n, keeps).reads = reads
  BY DEF Exchange
<1> QED BY <1>1, <1>2 DEF WellFormed

LEMMA TriesOK == /\ 1 \in 1..MaxTries /\ MaxTries \in 1..MaxTries
                 /\ 0 \in 0..MaxTries /\ 1..MaxTries \subseteq 0..MaxTries
BY AlinqAssumption

LEMMA AskOK == \A cmd \in Requests : Ask(cmd) \in WellFormed
BY ExchangeOK, TriesOK DEF Ask

LEMMA TellOK == \A cmd \in Requests : cmd \notin Answered => Tell(cmd) \in WellFormed
BY ExchangeOK, TriesOK DEF Tell

LEMMA OneExchange ==
  ASSUME NEW x \in WellFormed
  PROVE  <<x>> \in Seq(WellFormed) /\ <<x>> # <<>>
OBVIOUS

LEMMA ThreeExchanges ==
  ASSUME NEW x \in WellFormed, NEW y \in WellFormed, NEW z \in WellFormed
  PROVE  <<x, y, z>> \in Seq(WellFormed) /\ <<x, y, z>> # <<>>
OBVIOUS

LEMMA ExchangesOK == \A op \in DOMAIN Exchanges : Exchanges[op] \in Seq(WellFormed) /\ Exchanges[op] # <<>>
<1>1. Activate \in Seq(WellFormed) /\ Activate # <<>>
  BY AskOK DEF Requests, Answered, Activate
<1>2. SendStatus \in Seq(WellFormed) /\ SendStatus # <<>>
  BY TellOK DEF SendStatus, Requests, Answered
<1>3. Seek \in Seq(WellFormed) /\ Seek # <<>>
  BY TellOK DEF Seek, Requests, Answered
<1>4. ReadStatus \in Seq(WellFormed) /\ ReadStatus # <<>>
  <2>1. Exchange("GET_STATUS", "always", 1, FALSE) \in WellFormed
    BY ExchangeOK, TriesOK DEF Requests, Answered
  <2> QED BY <2>1, OneExchange, Zenon DEF ReadStatus
<1>5. GetDeviceName \in Seq(WellFormed) /\ GetDeviceName # <<>>
  BY AskOK DEF Requests, Answered, GetDeviceName
<1>6. SelectCurrentTrack \in Seq(WellFormed) /\ SelectCurrentTrack # <<>>
  BY TellOK DEF SelectCurrentTrack, Requests, Answered
<1>7. GetTrackName \in Seq(WellFormed) /\ GetTrackName # <<>>
  BY AskOK DEF Requests, Answered, GetTrackName
<1>8. SendControl \in Seq(WellFormed) /\ SendControl # <<>>
  BY TellOK DEF SendControl, Requests, Answered
<1>9. SelectGroup \in Seq(WellFormed) /\ SelectGroup # <<>>
  <2>1. Exchange("GET_GROUP_ITEMS_COUNT", "sent", MaxTries, FALSE) \in WellFormed
    BY ExchangeOK, TriesOK DEF Requests, Answered
  <2> QED BY <2>1, OneExchange, Zenon DEF SelectGroup
<1>10. GetGroupItemName \in Seq(WellFormed) /\ GetGroupItemName # <<>>
  BY AskOK DEF Requests, Answered, GetGroupItemName
<1>11. SelectGroupItem \in Seq(WellFormed) /\ SelectGroupItem # <<>>
  <2>1. Tell("SET_ACTIVE_GROUP_ITEM") \in WellFormed /\ Ask("GET_TRK_COUNT") \in WellFormed
    BY TellOK, AskOK DEF Requests, Answered
  <2> QED BY <2>1 DEF SelectGroupItem, browserGetNumOfTracks
<1>12. OpenTrack \in Seq(WellFormed) /\ OpenTrack # <<>>
  <2>1. "SET_CUR_TRK" \in Requests \ Answered
    BY DEF Requests, Answered
  <2>2. Exchange("SET_CUR_TRK", "no", 1, TRUE) \in WellFormed
    BY <2>1, ExchangeOK, TriesOK
  <2>3. Exchange("GET_TRK_INFO", "sent", 1, TRUE) \in WellFormed
    BY ExchangeOK, TriesOK DEF Requests, Answered
  <2>4. Ask("GET_TRK_ID3_INFO") \in WellFormed
    BY AskOK DEF Requests, Answered
  <2> QED BY <2>2, <2>3, <2>4, ThreeExchanges, Zenon DEF OpenTrack
<1>13. DOMAIN Exchanges =
       {"Activate", "SendStatus", "Seek", "ReadStatus", "GetDeviceName", "SelectCurrentTrack",
        "GetTrackName", "SendControl", "SelectGroup", "GetGroupItemName", "SelectGroupItem",
        "OpenTrack"}
  BY DEF Exchanges
<1>14. /\ Exchanges["Activate"] = Activate
       /\ Exchanges["SendStatus"] = SendStatus
       /\ Exchanges["Seek"] = Seek
       /\ Exchanges["ReadStatus"] = ReadStatus
       /\ Exchanges["GetDeviceName"] = GetDeviceName
       /\ Exchanges["SelectCurrentTrack"] = SelectCurrentTrack
       /\ Exchanges["GetTrackName"] = GetTrackName
       /\ Exchanges["SendControl"] = SendControl
       /\ Exchanges["SelectGroup"] = SelectGroup
       /\ Exchanges["GetGroupItemName"] = GetGroupItemName
       /\ Exchanges["SelectGroupItem"] = SelectGroupItem
       /\ Exchanges["OpenTrack"] = OpenTrack
  BY DEF Exchanges
<1> QED BY <1>1, <1>2, <1>3, <1>4, <1>5, <1>6, <1>7, <1>8, <1>9, <1>10, <1>11, <1>12, <1>13, <1>14

LEMMA TodoOK ==
  ASSUME Shapes, NEW t \in Threads, pc[t] # "idle"
  PROVE  /\ todo[t] \in Seq(WellFormed) /\ todo[t] # <<>>
         /\ Head(todo[t]) \in WellFormed
         /\ Tail(todo[t]) \in Seq(WellFormed)
         /\ call[t] \in Calls
<1>1. todo[t] \in Seq(WellFormed) /\ Len(todo[t]) > 0
  BY DEF Shapes, CmdTypeOK
<1>2. call[t] \in Calls
  BY DEF Shapes, CmdTypeOK
<1>3. todo[t] # <<>>
  BY <1>1
<1> QED BY <1>1, <1>2, <1>3

(* The end of an exchange.                                                 *)
LEMMA DoneOK ==
  ASSUME Shapes, Holding, NEW t \in Threads, pc[t] \in {"out", "in"}, Done(t)
  PROVE  /\ CmdMutex' \in Threads \cup {None}
         /\ pc' \in [Threads -> {"idle", "lock", "out", "in"}]
         /\ call' \in [Threads -> Calls \cup {None}]
         /\ todo' \in [Threads -> Seq(WellFormed)]
         /\ tries' \in [Threads -> 0..MaxTries]
         /\ \A u \in Threads : pc'[u] # "idle" => call'[u] # None /\ Len(todo'[u]) > 0
         /\ Holding'
         /\ \A u \in Threads : pc'[u] # "in"
<1> DEFINE rest == Tail(todo[t])
           kept == rest # <<>> /\ Head(todo[t]).keeps
<1>1. todo[t] \in Seq(WellFormed) /\ todo[t] # <<>> /\ rest \in Seq(WellFormed)
  BY TodoOK
<1>2. rest # <<>> => Head(rest) \in WellFormed /\ Len(rest) > 0
  BY <1>1
<1>3. kept => Head(rest).tries \in 0..MaxTries
  BY <1>2, TriesOK DEF WellFormed
<1>4. CmdMutex = t /\ \A u \in Threads \ {t} : pc[u] \notin {"out", "in"}
  BY DEF Holding
<1>5. /\ todo' = [todo EXCEPT ![t] = rest]
      /\ CmdMutex' = IF kept THEN t ELSE None
      /\ pc' = [pc EXCEPT ![t] = IF kept THEN "out" ELSE IF rest = <<>> THEN "idle" ELSE "lock"]
      /\ tries' = [tries EXCEPT ![t] = IF kept THEN Head(rest).tries ELSE 0]
      /\ call' = [call EXCEPT ![t] = IF rest = <<>> THEN None ELSE call[t]]
  BY DEF Done, Unlocked
<1> HIDE DEF rest, kept
<1>6. kept => rest # <<>>
  BY DEF kept
<1>7. 0 \in 0..MaxTries
  BY TriesOK
<1>8. /\ CmdMutex' \in Threads \cup {None}
      /\ pc' \in [Threads -> {"idle", "lock", "out", "in"}]
      /\ call' \in [Threads -> Calls \cup {None}]
      /\ todo' \in [Threads -> Seq(WellFormed)]
      /\ tries' \in [Threads -> 0..MaxTries]
  BY <1>1, <1>3, <1>5, <1>7, Zenon DEF Shapes, CmdTypeOK
<1>9. \A u \in Threads : pc'[u] # "idle" => call'[u] # None /\ Len(todo'[u]) > 0
  BY <1>2, <1>5, <1>6 DEF Shapes, CmdTypeOK
<1>10. pc'[t] # "in" /\ (pc'[t] = "out" <=> CmdMutex' = t)
  BY <1>5, AlinqAssumption DEF Shapes, CmdTypeOK
<1>11. \A u \in Threads \ {t} : pc'[u] \notin {"out", "in"} /\ CmdMutex' # u
  BY <1>4, <1>5, AlinqAssumption DEF Shapes, CmdTypeOK
<1> QED BY <1>8, <1>9, <1>10, <1>11 DEF Holding

(* The answer of the phone and what it leaves in the pipe.                 *)
LEMMA ArrivesOK ==
  ASSUME Shapes, NEW t \in Threads, pc[t] = "out", Arrives(t)
  PROVE  /\ active' \in Args \cup {None}
         /\ Answer(t) \in [cmd : Requests, arg : Args \cup {None}]
         /\ Head(todo[t]).cmd = "GET_TRK_COUNT" => active' = active
         /\ \/ Head(todo[t]).cmd \in Answered /\ Answer(t) \in Answers /\ replies' = Append(replies, Answer(t))
            \/ replies' = replies
         /\ replies' \in Seq(Answers)
<1>1. Head(todo[t]).cmd \in Requests /\ call[t].arg \in Args
  BY TodoOK DEF WellFormed, Calls
<1>2. active' \in Args \cup {None}
  BY <1>1 DEF Arrives, Shapes, CmdTypeOK
<1>3. Answer(t) \in [cmd : Requests, arg : Args \cup {None}] /\ Answer(t).cmd = Head(todo[t]).cmd
  BY <1>1 DEF Answer, Shapes, CmdTypeOK
<1>4. Head(todo[t]).cmd \in Answered => Answer(t) \in Answers
  BY <1>1 DEF Answer, Answers, Shapes, CmdTypeOK
<1>5. \/ Head(todo[t]).cmd \in Answered /\ Answer(t) \in Answers /\ replies' = Append(replies, Answer(t))
      \/ replies' = replies
  BY <1>4 DEF Arrives
<1>6. replies' \in Seq(Answers)
  <2>1. replies \in Seq(Answers)
    BY DEF Shapes, CmdTypeOK
  <2>2. CASE Answer(t) \in Answers /\ replies' = Append(replies, Answer(t))
    BY <2>1, <2>2
  <2> QED BY <1>5, <2>1, <2>2
<1> QED BY <1>2, <1>3, <1>5, <1>6 DEF Arrives

LEMMA BeginOK ==
  ASSUME PipeInv, NEW t \in Threads, NEW c \in Calls, Begin(t, c)
  PROVE  PipeInv'
<1> USE DEF PipeInv
<1>1. pc[t] = "idle" /\ pc' = [pc EXCEPT ![t] = "lock"] /\ call' = [call EXCEPT ![t] = c]
      /\ todo' = [todo EXCEPT ![t] = Exchanges[c.op]] /\ got' = [got EXCEPT ![t] = None]
      /\ UNCHANGED <<CmdMutex, active, replies, lates, tries>>
      /\ bIsoAudioStreaming' \in {"unset", "no", "yes"}
  BY DEF Begin, pipe, Shapes, CmdTypeOK
<1>2. c.op \in DOMAIN Exchanges /\ c # None
  BY AlinqAssumption DEF Calls
<1>3. Exchanges[c.op] \in Seq(WellFormed) /\ Len(Exchanges[c.op]) > 0
  BY <1>2, ExchangesOK
<1>4. Shapes'
  BY <1>1, <1>2, <1>3 DEF Shapes, CmdTypeOK
<1>5. Holding'
  BY <1>1 DEF Holding, Shapes, CmdTypeOK
<1>6. \A u \in Threads : pc'[u] = "in" => pc[u] = "in" /\ Answer(u)' = Answer(u)
  BY <1>1 DEF Answer, Shapes, CmdTypeOK
<1>7. (\A u \in Threads : pc'[u] # "in") => \A u \in Threads : pc[u] # "in"
  BY <1>1 DEF Shapes, CmdTypeOK
<1>8. Waiting'
  BY <1>1, <1>6, <1>7 DEF Waiting
<1> QED BY <1>4, <1>5, <1>8

LEMMA LocksOK ==
  ASSUME PipeInv, NEW t \in Threads, Locks(t)
  PROVE  PipeInv'
<1> USE DEF PipeInv
<1>1. /\ pc[t] = "lock" /\ CmdMutex = None /\ CmdMutex' = t /\ pc' = [pc EXCEPT ![t] = "out"]
      /\ tries' = [tries EXCEPT ![t] = Head(todo[t]).tries]
      /\ UNCHANGED <<bIsoAudioStreaming, active, replies, lates, call, todo, got>>
  BY DEF Locks, Unheld, pipe
<1>2. Head(todo[t]).tries \in 0..MaxTries
  BY <1>1, TodoOK, TriesOK DEF WellFormed
<1>3. Shapes'
  BY <1>1, <1>2 DEF Shapes, CmdTypeOK
<1>4. \A u \in Threads : pc[u] \notin {"out", "in"}
  BY <1>1, AlinqAssumption DEF Holding
<1>5. Holding'
  BY <1>1, <1>4 DEF Holding, Shapes, CmdTypeOK
<1>6. \A u \in Threads : pc'[u] # "in"
  BY <1>1, <1>4 DEF Shapes, CmdTypeOK
<1>7. Waiting'
  BY <1>1, <1>4, <1>6 DEF Waiting
<1> QED BY <1>3, <1>5, <1>7

LEMMA GivesUpOK ==
  ASSUME PipeInv, NEW t \in Threads, GivesUp(t)
  PROVE  PipeInv'
<1> USE DEF PipeInv
<1>1. /\ pc[t] = "lock" /\ pc' = [pc EXCEPT ![t] = "idle"]
      /\ call' = [call EXCEPT ![t] = None] /\ todo' = [todo EXCEPT ![t] = <<>>]
      /\ UNCHANGED <<CmdMutex, bIsoAudioStreaming, active, replies, lates, tries, got>>
  BY DEF GivesUp, pipe
<1>2. Shapes'
  BY <1>1 DEF Shapes, CmdTypeOK
<1>3. Holding'
  BY <1>1 DEF Holding, Shapes, CmdTypeOK
<1>4. \A u \in Threads : /\ pc'[u] = "in" <=> pc[u] = "in"
                         /\ pc'[u] = "in" => Answer(u)' = Answer(u)
  BY <1>1 DEF Answer, Shapes, CmdTypeOK
<1>5. Waiting'
  BY <1>1, <1>4 DEF Waiting
<1> QED BY <1>2, <1>3, <1>5

(* A transfer that ends its exchange.                                      *)
LEMMA EndsOK ==
  ASSUME PipeInv, NEW t \in Threads, pc[t] \in {"out", "in"}, Done(t),
         bIsoAudioStreaming' \in {"unset", "no", "yes"}, active' \in Args \cup {None},
         replies' \in Seq(Answers), lates' \in 0..MaxLates, got' \in [Threads -> Answers \cup {None}],
         Len(replies') <= lates'
  PROVE  PipeInv'
<1> USE DEF PipeInv
<1>1. Shapes'
  BY DoneOK DEF Shapes, CmdTypeOK
<1>2. Holding' /\ \A u \in Threads : pc'[u] # "in"
  BY DoneOK
<1> QED BY <1>1, <1>2 DEF Waiting

LEMMA SendsOK ==
  ASSUME PipeInv, NEW t \in Threads, Sends(t)
  PROVE  PipeInv'
<1> USE DEF PipeInv
<1>1. pc[t] = "out" /\ Arrives(t) /\ UNCHANGED <<bIsoAudioStreaming, lates, got>>
  BY DEF Sends
<1>2. /\ CmdMutex = t /\ Head(todo[t]) \in WellFormed
      /\ \A u \in Threads : pc[u] # "in"
  BY <1>1, TodoOK DEF Holding
<1>3. Len(replies) <= lates /\ lates \in 0..MaxLates /\ replies \in Seq(Answers)
  BY <1>2 DEF Waiting, Shapes, CmdTypeOK
<1>4. CASE Head(todo[t]).reads = "no"
  <2>1. Head(todo[t]).cmd \notin Answered
    BY <1>2, <1>4 DEF WellFormed
  <2>2. Done(t) /\ replies' = replies
    BY <1>1, <1>4, <2>1, ArrivesOK DEF Sends
  <2>3. /\ bIsoAudioStreaming' \in {"unset", "no", "yes"}
        /\ got' \in [Threads -> Answers \cup {None}]
    BY <1>1 DEF Shapes, CmdTypeOK
  <2> QED BY <1>1, <1>3, <2>2, <2>3, ArrivesOK, EndsOK
<1>5. CASE Head(todo[t]).reads # "no"
  <2>1. pc' = [pc EXCEPT ![t] = "in"] /\ UNCHANGED <<CmdMutex, call, todo, tries>>
    BY <1>5 DEF Sends
  <2>2. active' \in Args \cup {None} /\ replies' \in Seq(Answers)
    BY <1>1, ArrivesOK
  <2>3. Shapes'
    BY <1>1, <2>1, <2>2 DEF Shapes, CmdTypeOK
  <2>4. Holding'
    BY <1>1, <2>1 DEF Holding, Shapes, CmdTypeOK
  <2>5. \A u \in Threads : pc'[u] = "in" <=> u = t
    BY <1>2, <2>1 DEF Shapes, CmdTypeOK
  <2>6. Answer(t)' = Answer(t)
    BY <1>1, <2>1, ArrivesOK DEF Answer
  <2>7. Len(replies') <= lates + 1 /\ (lates = 0 => replies' \in {<<>>, <<Answer(t)>>})
    <3>1. lates = 0 => replies = <<>>
      BY <1>3
    <3>2. CASE replies' = replies
      BY <1>3, <3>1, <3>2
    <3>3. CASE Answer(t) \in Answers /\ replies' = Append(replies, Answer(t))
      <4>1. Len(replies') = Len(replies) + 1
        BY <1>3, <3>3
      <4>2. lates = 0 => replies' = <<Answer(t)>>
        BY <3>1, <3>3
      <4> QED BY <1>3, <4>1, <4>2
    <3> QED BY <1>1, <3>2, <3>3, ArrivesOK
  <2>8. Waiting'
    BY <1>1, <2>5, <2>6, <2>7 DEF Waiting
  <2> QED BY <2>3, <2>4, <2>8
<1> QED BY <1>4, <1>5

LEMMA SendFailsOK ==
  ASSUME PipeInv, NEW t \in Threads, SendFails(t)
  PROVE  PipeInv'
<1> USE DEF PipeInv
<1>1. pc[t] = "out" /\ UNCHANGED <<bIsoAudioStreaming, got>>
  BY DEF SendFails
<1>2. CmdMutex = t /\ \A u \in Threads : pc[u] # "in"
  BY <1>1 DEF Holding
<1>3. Len(replies) <= lates /\ lates \in 0..MaxLates /\ replies \in Seq(Answers)
  BY <1>2 DEF Waiting, Shapes, CmdTypeOK
<1>4. /\ active' \in Args \cup {None} /\ replies' \in Seq(Answers)
      /\ lates' \in 0..MaxLates /\ Len(replies') <= lates'
      /\ lates' = 0 => replies' = <<>>
  <2>1. CASE UNCHANGED pipe
    <3>1. lates' = 0 => replies = <<>>
      BY <1>3, <2>1 DEF pipe
    <3> QED BY <1>3, <2>1, <3>1 DEF pipe, Shapes, CmdTypeOK
  <2>2. CASE Arrives(t) /\ LeftBehind(IF replies' = replies THEN 0 ELSE 1)
    <3>1. active' \in Args \cup {None} /\ replies' \in Seq(Answers)
      BY <1>1, <2>2, ArrivesOK
    <3>2. CASE replies' = replies
      <4>1. lates' = lates
        BY <1>3, <2>2, <3>2 DEF LeftBehind
      <4> QED BY <1>3, <3>1, <3>2, <4>1
    <3>3. CASE replies' # replies
      <4>1. Answer(t) \in Answers /\ replies' = Append(replies, Answer(t))
        BY <1>1, <2>2, <3>3, ArrivesOK
      <4>2. Len(replies') = Len(replies) + 1
        BY <1>3, <4>1
      <4>3. lates' = lates + 1 /\ lates + 1 <= MaxLates
        BY <2>2, <3>3 DEF LeftBehind
      <4> QED BY <1>3, <3>1, <4>2, <4>3, AlinqAssumption
    <3> QED BY <3>2, <3>3
  <2> QED BY <2>1, <2>2 DEF SendFails
<1>5. CASE tries[t] > 1
  <2>1. tries' = [tries EXCEPT ![t] = @ - 1] /\ UNCHANGED <<CmdMutex, pc, call, todo>>
    BY <1>5 DEF SendFails
  <2>2. tries[t] - 1 \in 0..MaxTries
    BY <1>5, AlinqAssumption DEF Shapes, CmdTypeOK
  <2>3. Shapes'
    BY <1>1, <1>4, <2>1, <2>2 DEF Shapes, CmdTypeOK
  <2> QED BY <1>2, <1>4, <2>1, <2>3 DEF Holding, Waiting
<1>6. CASE ~(tries[t] > 1) /\ Head(todo[t]).reads = "always"
  <2>1. pc' = [pc EXCEPT ![t] = "in"] /\ UNCHANGED <<CmdMutex, call, todo, tries>>
    BY <1>6 DEF SendFails
  <2>2. Shapes'
    BY <1>1, <1>4, <2>1 DEF Shapes, CmdTypeOK
  <2>3. Holding'
    BY <1>1, <2>1 DEF Holding, Shapes, CmdTypeOK
  <2>4. \A u \in Threads : pc'[u] = "in" <=> u = t
    BY <1>2, <2>1 DEF Shapes, CmdTypeOK
  <2>5. Len(replies') <= lates' + 1
    BY <1>4, AlinqAssumption
  <2>6. Waiting'
    BY <1>4, <2>4, <2>5 DEF Waiting
  <2> QED BY <2>2, <2>3, <2>6
<1>7. CASE ~(tries[t] > 1) /\ Head(todo[t]).reads # "always"
  <2>1. Done(t)
    BY <1>7 DEF SendFails
  <2>2. /\ bIsoAudioStreaming' \in {"unset", "no", "yes"}
        /\ got' \in [Threads -> Answers \cup {None}]
    BY <1>1 DEF Shapes, CmdTypeOK
  <2> QED BY <1>1, <1>4, <2>1, <2>2, EndsOK
<1> QED BY <1>5, <1>6, <1>7

LEMMA ReadsOK ==
  ASSUME PipeInv, NEW t \in Threads, Reads(t)
  PROVE  PipeInv' /\ (lates = 0 => Head(replies) = Answer(t))
<1> USE DEF PipeInv
<1>1. /\ pc[t] = "in" /\ replies # <<>> /\ replies' = Tail(replies) /\ Done(t)
      /\ UNCHANGED <<active, lates>>
      /\ bIsoAudioStreaming' \in {"unset", "no", "yes"}
  BY DEF Reads, Shapes, CmdTypeOK
<1>2. /\ Len(replies) <= lates + 1 /\ lates \in 0..MaxLates
      /\ replies \in Seq(Answers) /\ active \in Args \cup {None}
  BY <1>1 DEF Waiting, Shapes, CmdTypeOK
<1>3. Head(replies) \in Answers /\ replies' \in Seq(Answers) /\ Len(replies') <= lates'
  BY <1>1, <1>2
<1>4. got' \in [Threads -> Answers \cup {None}]
  BY <1>3 DEF Reads, Shapes, CmdTypeOK
<1>5. PipeInv'
  BY <1>1, <1>2, <1>3, <1>4, EndsOK
<1>6. lates = 0 => replies = <<Answer(t)>>
  BY <1>1 DEF Waiting
<1> QED BY <1>5, <1>6

LEMMA ReadFailsOK ==
  ASSUME PipeInv, NEW t \in Threads, ReadFails(t)
  PROVE  PipeInv'
<1> USE DEF PipeInv
<1>1. /\ pc[t] = "in" /\ Done(t) /\ LeftBehind(IF replies = <<>> THEN 0 ELSE 1)
      /\ UNCHANGED <<bIsoAudioStreaming, active, replies, got>>
  BY DEF ReadFails
<1>2. Len(replies) <= lates + 1 /\ lates \in 0..MaxLates /\ replies \in Seq(Answers)
  BY <1>1 DEF Waiting, Shapes, CmdTypeOK
<1>3. lates' \in 0..MaxLates /\ Len(replies') <= lates'
  BY <1>1, <1>2, AlinqAssumption DEF LeftBehind
<1>4. /\ bIsoAudioStreaming' \in {"unset", "no", "yes"} /\ active' \in Args \cup {None}
      /\ replies' \in Seq(Answers) /\ got' \in [Threads -> Answers \cup {None}]
  BY <1>1 DEF Shapes, CmdTypeOK
<1> QED BY <1>1, <1>3, <1>4, EndsOK

LEMMA StepOK ==
  ASSUME PipeInv, NEW t \in Threads, Step(t)
  PROVE  PipeInv'
BY LocksOK, GivesUpOK, SendsOK, SendFailsOK, ReadsOK, ReadFailsOK DEF Step, Transfer

(* The state of the browser alone.                                         *)
BrowserOK ==
  /\ iCurrentNodeType \in Groups \cup {NotSelected}
  /\ iCurrentNodeIndex \in Items \cup {NotSelected}
  /\ iCurrentNodeNodesCount \in Counts /\ iCurrentNodeItemsCount \in Counts \ {Root}
  /\ iRootNodeIdx \in Groups
  /\ assigns \in {"nodes", "items", "none"}
  /\ Levels

LEMMA CallingOK ==
  ASSUME PipeInv, NEW op \in DOMAIN Exchanges, NEW arg \in Args, Calling(op, arg)
  PROVE  PipeInv'
<1>1. [op |-> op, arg |-> arg] \in Calls
  BY DEF Calls
<1> QED BY <1>1, BeginOK, BrowserAssumption DEF Calling

LEMMA OpsOK == {"Activate", "SelectGroup", "SelectGroupItem", "GetTrackName", "SelectCurrentTrack",
                "GetGroupItemName"} \subseteq DOMAIN Exchanges
BY DEF Exchanges

LEMMA ToGroupOK ==
  ASSUME PipeInv, NEW g \in Groups, NEW before \in Counts \ {Root}, ToGroup(g, before)
  PROVE  PipeInv' /\ BrowserOK'
<1>1. PipeInv'
  BY CallingOK, OpsOK, BrowserAssumption DEF ToGroup
<1>2. BrowserOK'
  BY BrowserAssumption DEF ToGroup, BrowserOK, Levels, AtRoot, Counts
<1> QED BY <1>1, <1>2

LEMMA ToRootOK ==
  ASSUME BrowserOK, ToRoot, UNCHANGED iRootNodeIdx, assigns = "none", assigns' = assigns
  PROVE  BrowserOK'
BY BrowserAssumption DEF ToRoot, BrowserOK, Levels, AtRoot, Counts

LEMMA BrowseOK ==
  ASSUME PipeInv, BrowserOK, Browse
  PROVE  PipeInv' /\ BrowserOK'
<1>1. CASE SetNodeRoot
  <2>1. PipeInv'
    BY <1>1 DEF SetNodeRoot, cmdVars, pipe, threads, PipeInv, Shapes, CmdTypeOK, Holding, Waiting, Answer
  <2> QED BY <1>1, <2>1, ToRootOK DEF SetNodeRoot, Ready
<1>2. CASE SetNodeLevelUp
  <2>1. CASE InGroup /\ ToRoot /\ UNCHANGED <<cmdVars, iRootNodeIdx, assigns>>
    <3>1. PipeInv'
      BY <2>1 DEF cmdVars, pipe, threads, PipeInv, Shapes, CmdTypeOK, Holding, Waiting, Answer
    <3> QED BY <1>2, <2>1, <3>1, ToRootOK DEF SetNodeLevelUp, Ready
  <2>2. CASE ToGroup(iRootNodeIdx, None)
    BY <2>2, ToGroupOK, BrowserAssumption DEF BrowserOK, Counts
  <2> QED BY <1>2, <2>1, <2>2 DEF SetNodeLevelUp
<1>3. CASE SetNodeGroup
  <2>1. PICK g \in Below(iCurrentNodeNodesCount) : ToGroup(g, iCurrentNodeItemsCount)
    BY <1>3 DEF SetNodeGroup
  <2>2. g \in Groups
    BY <1>3, <2>1, BrowserAssumption DEF SetNodeGroup, BrowserOK, Levels, Below
  <2> QED BY <2>1, <2>2, ToGroupOK DEF BrowserOK
<1>4. CASE SetNodeItem
  <2>1. PICK i \in Below(iCurrentNodeNodesCount) :
          iCurrentNodeIndex' = i /\ Calling("SelectGroupItem", <<iCurrentNodeType, i>>)
    BY <1>4 DEF SetNodeItem
  <2>2. iCurrentNodeType \in Groups /\ iCurrentNodeNodesCount # Root
    BY <1>4 DEF SetNodeItem, Ready, InGroup, AtRoot, BrowserOK, Levels
  <2>3. i \in Items
    BY <2>1, <2>2 DEF Below
  <2>4. PipeInv'
    BY <2>1, <2>2, <2>3, CallingOK, OpsOK, BrowserAssumption
  <2>5. BrowserOK'
    BY <1>4, <2>1, <2>2, <2>3, BrowserAssumption
    DEF SetNodeItem, BrowserOK, Levels, AtRoot, Counts
  <2> QED BY <2>4, <2>5
<1>5. CASE SetNodeReturns
  <2>1. PipeInv'
    BY <1>5 DEF SetNodeReturns, pipe, PipeInv, Shapes, CmdTypeOK, Holding, Waiting, Answer
  <2>2. got[ui] \in Answers \cup {None}
    BY BrowserAssumption DEF PipeInv, Shapes, CmdTypeOK
  <2>3. BrowserOK'
    BY <1>5, <2>2, BrowserAssumption
    DEF SetNodeReturns, Assigns, node, BrowserOK, Levels, AtRoot, Counts
  <2> QED BY <2>1, <2>3
<1>6. CASE GetItem
  <2>1. PICK i \in Below(iCurrentNodeItemsCount) : Calling("GetTrackName", i)
    BY <1>6 DEF GetItem
  <2>2. i \in Args
    BY <2>1, BrowserAssumption DEF BrowserOK, Below
  <2> QED BY <1>6, <2>1, <2>2, CallingOK, OpsOK DEF GetItem, node, counts, BrowserOK, Levels, AtRoot
<1>7. CASE SetItem
  <2>1. PICK i \in Below(iCurrentNodeItemsCount) : Calling("SelectCurrentTrack", i)
    BY <1>7 DEF SetItem
  <2>2. i \in Args
    BY <2>1, BrowserAssumption DEF BrowserOK, Below
  <2> QED BY <1>7, <2>1, <2>2, CallingOK, OpsOK DEF SetItem, node, counts, BrowserOK, Levels, AtRoot
<1>8. CASE GetNode
  <2>1. PICK i \in Below(iCurrentNodeNodesCount) : Calling("GetGroupItemName", <<iCurrentNodeType, i>>)
    BY <1>8 DEF GetNode
  <2>2. iCurrentNodeType \in Groups /\ iCurrentNodeNodesCount # Root
    BY <1>8 DEF GetNode, Ready, InGroup, AtRoot, BrowserOK, Levels
  <2>3. <<iCurrentNodeType, i>> \in Args
    BY <2>1, <2>2, BrowserAssumption DEF Below
  <2> QED BY <1>8, <2>1, <2>3, CallingOK, OpsOK DEF GetNode, node, counts, BrowserOK, Levels, AtRoot
<1> QED BY <1>1, <1>2, <1>3, <1>4, <1>5, <1>6, <1>7, <1>8 DEF Browse
-----------------------------------------------------------------------------
LEMMA InitOK == Init => PipeInv /\ BrowserOK
<1> SUFFICES ASSUME Init PROVE PipeInv /\ BrowserOK
  OBVIOUS
<1>1. Shapes
  BY AlinqAssumption, TriesOK DEF Init, CmdInit, Shapes, CmdTypeOK
<1>2. Holding /\ Waiting
  BY AlinqAssumption DEF Init, CmdInit, Holding, Waiting
<1>3. BrowserOK
  BY BrowserAssumption DEF Init, BrowserOK, Levels, AtRoot, Counts
<1> QED BY <1>1, <1>2, <1>3 DEF PipeInv

LEMMA NextOK == PipeInv /\ BrowserOK /\ [Next]_vars => PipeInv' /\ BrowserOK'
<1> SUFFICES ASSUME PipeInv, BrowserOK, [Next]_vars PROVE PipeInv' /\ BrowserOK'
  OBVIOUS
<1>1. ASSUME UNCHANGED <<node, counts, assigns>> PROVE BrowserOK'
  BY <1>1 DEF node, counts, BrowserOK, Levels, AtRoot
<1>2. CASE Starts
  BY <1>1, <1>2, CallingOK, OpsOK, BrowserAssumption DEF Starts
<1>3. CASE Browse
  BY <1>3, BrowseOK
<1>4. CASE Other
  BY <1>1, <1>4, BeginOK, BrowserAssumption DEF Other
<1>5. CASE \E t \in Threads : Runs(t)
  BY <1>1, <1>5, StepOK DEF Runs
<1>6. CASE UNCHANGED vars
  <2>1. PipeInv'
    BY <1>6 DEF vars, cmdVars, pipe, threads, PipeInv, Shapes, CmdTypeOK, Holding, Waiting, Answer
  <2> QED BY <1>1, <1>6, <2>1 DEF vars
<1> QED BY <1>2, <1>3, <1>4, <1>5, <1>6 DEF Next

LEMMA Invariance == Spec => [](PipeInv /\ BrowserOK)
BY InitOK, NextOK, PTL DEF Spec

(* Every reachable state of the requests and of the browser is well typed: the
   number of items that SelectGroup waits for never passes its ten sends.     *)
THEOREM TypeCorrect == Spec => []TypeOK
<1>1. PipeInv /\ BrowserOK => TypeOK
  BY DEF PipeInv, Shapes, BrowserOK, TypeOK
<1> QED BY <1>1, Invariance, PTL

(* Between calls the pipe holds no answers but those left behind (CmdMutex of
   android_commands.c): with any number of threads, whatever fails.           *)
THEOREM BacklogHolds == Spec => []Backlog
<1>1. PipeInv => Backlog
  BY AlinqAssumption DEF PipeInv, Holding, Waiting, Backlog
<1> QED BY <1>1, Invariance, PTL

(* While no answer was left behind, every read gets the answer to its request. *)
THEOREM AnswersOwnHolds == Spec => AnswersOwn
<1>1. PipeInv /\ [Next]_vars =>
        [\A t \in Threads : Reads(t) /\ lates = 0 => Head(replies) = Answer(t)]_cmdVars
  BY ReadsOK
<1> QED BY <1>1, Invariance, PTL DEF Spec, AnswersOwn

(* Between two calls of the browser its count of nodes is the number of groups
   just when it shows the root, whatever answers it was given: it never takes the
   index of an item for that of a group, nor a group for an item.             *)
LevelKept == Ready => (AtRoot <=> iCurrentNodeNodesCount = Root)

THEOREM LevelKeptHolds == Spec => []LevelKept
<1>1. BrowserOK => LevelKept
  BY DEF BrowserOK, Levels, Ready, LevelKept
<1> QED BY <1>1, Invariance, PTL

-----------------------------------------------------------------------------
(* The mutex.                                                              *)

(* One thread at most uses the pipe, and it is the one that holds the mutex.  *)
OneInPipe ==
  \A t, u \in Threads :
    pc[t] \in {"out", "in"} => CmdMutex = t /\ (pc[u] \in {"out", "in"} => u = t)

THEOREM OneInPipeHolds == Spec => []OneInPipe
<1>1. PipeInv => OneInPipe
  BY DEF PipeInv, Holding, OneInPipe
<1> QED BY <1>1, Invariance, PTL

(* The transfers of n exchanges: of each its sends and a read.             *)
Transfers(n) == n * (MaxTries + 2)

(* How many transfers t may still make with the mutex that it holds.       *)
HoldLeft(t) == Transfers(Len(todo[t])) + tries[t] + (IF pc[t] = "out" THEN 1 ELSE 0)

(* A thread that holds the mutex gives it back after a bounded number of its own
   transfers, whatever fails, and nothing others do can prolong that or take the
   mutex from it.  What remains for LockReleased is that each transfer ends.  *)
HoldStep ==
  \A t \in Threads : CmdMutex = t =>
    /\ HoldLeft(t) \in Nat
    /\ Transfer(t) => CmdMutex' = None \/ (CmdMutex' = t /\ HoldLeft(t)' < HoldLeft(t))
    /\ ~Transfer(t) => CmdMutex' = t /\ HoldLeft(t)' = HoldLeft(t)

HoldEnds == [][HoldStep]_vars

LEMMA TimesNext == \A n, k \in Nat : n * k \in Nat /\ (n + 1) * k = n * k + k
OBVIOUS

LEMMA TransfersNext ==
  ASSUME NEW n \in Nat
  PROVE  Transfers(n) \in Nat /\ Transfers(n + 1) = Transfers(n) + MaxTries + 2
<1> DEFINE K == MaxTries + 2
<1>1. K \in Nat /\ MaxTries \in Nat
  BY AlinqAssumption
<1>2. Transfers(n) = n * K /\ Transfers(n + 1) = (n + 1) * K
  BY DEF Transfers
<1>3. K = MaxTries + 2
  OBVIOUS
<1> HIDE DEF K
<1>4. n * K \in Nat /\ (n + 1) * K = n * K + K
  BY <1>1, TimesNext
<1>5. Transfers(n) \in Nat /\ Transfers(n + 1) = Transfers(n) + K
  BY <1>2, <1>4
<1> QED BY <1>1, <1>3, <1>5

LEMMA HoldNat ==
  ASSUME PipeInv, NEW t \in Threads
  PROVE  /\ HoldLeft(t) \in Nat
         /\ Len(todo[t]) \in Nat /\ tries[t] \in 0..MaxTries /\ MaxTries \in Nat
<1>1. Len(todo[t]) \in Nat /\ tries[t] \in 0..MaxTries /\ MaxTries \in Nat
  BY AlinqAssumption DEF PipeInv, Shapes, CmdTypeOK
<1>2. Transfers(Len(todo[t])) \in Nat
  BY <1>1, TransfersNext
<1> QED BY <1>1, <1>2 DEF HoldLeft

(* The end of an exchange takes off at least a send and a read.            *)
LEMMA DoneHolds ==
  ASSUME PipeInv, PipeInv', NEW t \in Threads, CmdMutex = t, Done(t)
  PROVE  CmdMutex' = None \/ (CmdMutex' = t /\ HoldLeft(t)' < HoldLeft(t))
<1> DEFINE rest == Tail(todo[t])
           kept == rest # <<>> /\ Head(todo[t]).keeps
           n == Len(rest)
<1>1. pc[t] \in {"out", "in"}
  BY DEF PipeInv, Holding
<1>2. todo[t] \in Seq(WellFormed) /\ todo[t] # <<>>
  BY <1>1, TodoOK DEF PipeInv
<1>3. n \in Nat /\ Len(todo[t]) = n + 1
  BY <1>2
<1>4. /\ todo' = [todo EXCEPT ![t] = rest]
      /\ CmdMutex' = IF kept THEN t ELSE None
      /\ pc' = [pc EXCEPT ![t] = IF kept THEN "out" ELSE IF rest = <<>> THEN "idle" ELSE "lock"]
  BY DEF Done, Unlocked
<1>5. todo \in [Threads -> Seq(WellFormed)] /\ pc \in [Threads -> {"idle", "lock", "out", "in"}]
  BY DEF PipeInv, Shapes, CmdTypeOK
<1>6. todo'[t] = rest
  BY <1>4, <1>5
<1>7. tries'[t] \in 0..MaxTries /\ tries[t] \in 0..MaxTries /\ MaxTries \in Nat
  BY HoldNat DEF PipeInv, Shapes, CmdTypeOK
<1>8. Transfers(n) \in Nat /\ Transfers(n + 1) = Transfers(n) + MaxTries + 2
  BY <1>3, TransfersNext
<1>9. HoldLeft(t) = Transfers(n + 1) + tries[t] + (IF pc[t] = "out" THEN 1 ELSE 0)
  BY <1>3 DEF HoldLeft
<1>10. HoldLeft(t)' = Transfers(n) + tries'[t] + (IF pc'[t] = "out" THEN 1 ELSE 0)
  BY <1>6 DEF HoldLeft, Transfers
<1> HIDE DEF rest, kept, n
<1>11. HoldLeft(t)' < HoldLeft(t)
  BY <1>7, <1>8, <1>9, <1>10
<1> QED BY <1>4, <1>11

LEMMA TransferHolds ==
  ASSUME PipeInv, PipeInv', NEW t \in Threads, CmdMutex = t, Transfer(t)
  PROVE  CmdMutex' = None \/ (CmdMutex' = t /\ HoldLeft(t)' < HoldLeft(t))
<1>1. CASE Done(t)
  BY <1>1, DoneHolds
<1>2. CASE ~Done(t)
  <2>1. /\ Len(todo[t]) \in Nat /\ tries[t] \in 0..MaxTries /\ MaxTries \in Nat
        /\ Transfers(Len(todo[t])) \in Nat
    BY HoldNat, TransfersNext
  <2>2. pc \in [Threads -> {"idle", "lock", "out", "in"}] /\ tries \in [Threads -> 0..MaxTries]
    BY DEF PipeInv, Shapes, CmdTypeOK
  <2>3. CASE /\ pc[t] = "out" /\ pc' = [pc EXCEPT ![t] = "in"]
             /\ UNCHANGED <<CmdMutex, call, todo, tries>>
    <3>1. pc'[t] = "in" /\ todo' = todo /\ tries' = tries /\ CmdMutex' = t
      BY <2>2, <2>3
    <3>2. HoldLeft(t)' = Transfers(Len(todo[t])) + tries[t] + 0
      BY <3>1 DEF HoldLeft, Transfers
    <3>3. HoldLeft(t) = Transfers(Len(todo[t])) + tries[t] + 1
      BY <2>3 DEF HoldLeft
    <3> QED BY <2>1, <3>1, <3>2, <3>3
  <2>4. CASE /\ tries[t] > 1 /\ tries' = [tries EXCEPT ![t] = @ - 1]
             /\ UNCHANGED <<CmdMutex, pc, call, todo>>
    <3>1. HoldLeft(t)' = Transfers(Len(todo[t])) + tries[t] - 1 + (IF pc[t] = "out" THEN 1 ELSE 0)
      BY <2>1, <2>2, <2>4 DEF HoldLeft, Transfers
    <3>2. CmdMutex' = t
      BY <2>4
    <3> QED BY <2>1, <3>1, <3>2 DEF HoldLeft
  <2> QED BY <1>2, <2>3, <2>4 DEF Transfer, Sends, SendFails, Reads, ReadFails
<1> QED BY <1>1, <1>2

(* A step of another thread, or of the browser between its calls.          *)
LEMMA OthersHold ==
  ASSUME PipeInv, NEW t \in Threads, CmdMutex = t, [Next]_vars, ~Transfer(t)
  PROVE  CmdMutex' = t /\ HoldLeft(t)' = HoldLeft(t)
<1>1. pc[t] \in {"out", "in"} /\ \A u \in Threads : pc[u] \in {"out", "in"} => u = t
  BY DEF PipeInv, Holding
<1>2. t # None
  BY AlinqAssumption
<1>3. /\ pc \in [Threads -> {"idle", "lock", "out", "in"}]
      /\ todo \in [Threads -> Seq(WellFormed)]
      /\ tries \in [Threads -> 0..MaxTries]
  BY DEF PipeInv, Shapes, CmdTypeOK
<1>4. ASSUME NEW u \in Threads, NEW c, Begin(u, c) PROVE CmdMutex' = t /\ HoldLeft(t)' = HoldLeft(t)
  <2>1. u # t
    BY <1>1, <1>4 DEF Begin
  <2> QED BY <1>3, <1>4, <2>1 DEF Begin, HoldLeft, Transfers
<1>5. CASE UNCHANGED <<CmdMutex, pc, todo, tries>>
  BY <1>5 DEF HoldLeft, Transfers
<1>6. ASSUME NEW u \in Threads, Step(u) PROVE CmdMutex' = t /\ HoldLeft(t)' = HoldLeft(t)
  <2>1. ~Locks(u)
    BY <1>2 DEF Locks, Unheld
  <2>2. ~Transfer(u)
    <3>1. Transfer(u) => pc[u] \in {"out", "in"}
      BY DEF Transfer, Sends, SendFails, Reads, ReadFails
    <3> QED BY <1>1, <3>1
  <2>3. GivesUp(u) /\ u # t
    BY <1>1, <1>6, <2>1, <2>2 DEF Step, GivesUp
  <2> QED BY <1>3, <2>3 DEF GivesUp, HoldLeft, Transfers
<1>7. ui \in Threads
  BY BrowserAssumption
<1>8. CASE Starts
  BY <1>4, <1>7, <1>8 DEF Starts, Calling
<1>9. CASE Browse
  <2>1. CASE UNCHANGED cmdVars
    BY <1>5, <2>1 DEF cmdVars, threads
  <2>2. CASE SetNodeReturns
    BY <1>5, <2>2 DEF SetNodeReturns
  <2>3. ASSUME NEW op, NEW arg, Calling(op, arg) PROVE CmdMutex' = t /\ HoldLeft(t)' = HoldLeft(t)
    BY <1>4, <1>7, <2>3 DEF Calling
  <2> QED BY <1>9, <2>1, <2>2, <2>3
          DEF Browse, SetNodeRoot, SetNodeLevelUp, SetNodeGroup, SetNodeItem, GetItem, SetItem, GetNode, ToGroup
<1>10. CASE Other
  BY <1>4, <1>10 DEF Other
<1>11. CASE \E u \in Threads : Runs(u)
  BY <1>6, <1>11 DEF Runs
<1>12. CASE UNCHANGED vars
  BY <1>5, <1>12 DEF vars, cmdVars, threads
<1> QED BY <1>8, <1>9, <1>10, <1>11, <1>12 DEF Next

THEOREM HoldEndsHolds == Spec => HoldEnds
<1>1. PipeInv /\ PipeInv' /\ [Next]_vars => HoldStep
  BY HoldNat, TransferHolds, OthersHold DEF HoldStep
<1> QED BY <1>1, Invariance, PTL DEF Spec, HoldEnds
-----------------------------------------------------------------------------
(* The counts of the browser.                                              *)

(* No other thread selects an item on the phone: ACOMMAND_SelectGroupItem is
   called from browserSetNode only (android_browser.c:279).                   *)
BrowserSelects == \A c \in OtherCalls : c.op # "SelectGroupItem"

(* Exchanges that leave the active item of the phone as it is.             *)
Plain == {x \in WellFormed : x.cmd # "SET_ACTIVE_GROUP_ITEM"}

(* What is still to be exchanged, by what the browser waits for.           *)
Asking ==
  /\ \A t \in Threads \ {ui} : todo[t] \in Seq(Plain)
  /\ pc[ui] = "idle" => todo[ui] = <<>>
  /\ bIsoAudioStreaming = "unset" => assigns = "none"
  /\ assigns = "nodes" => InGroup
  /\ assigns = "none" => todo[ui] \in Seq(Plain)
  /\ assigns # "none" /\ InGroup =>
       todo[ui] \in {<<>>, SelectGroup} /\ (pc[ui] # "idle" => call[ui].arg = iCurrentNodeType)
  /\ assigns # "none" /\ InItem => todo[ui] \in {<<>>, SelectGroupItem, browserGetNumOfTracks}

GroupCount == [cmd |-> "GET_GROUP_ITEMS_COUNT", arg |-> iCurrentNodeType]
TrackCount == [cmd |-> "GET_TRK_COUNT", arg |-> active]

Honest ==
  /\ AtRoot => iCurrentNodeNodesCount = Root /\ iCurrentNodeItemsCount = None
  /\ InGroup => /\ {iCurrentNodeNodesCount, iCurrentNodeItemsCount} \subseteq {None, GroupCount}
                /\ None \in {iCurrentNodeNodesCount, iCurrentNodeItemsCount}
  /\ InItem => iCurrentNodeNodesCount = None /\ iCurrentNodeItemsCount \in {None, TrackCount}

(* The answer that will become a count.                                    *)
Told ==
  /\ assigns = "none" => Honest
  /\ assigns # "none" /\ InGroup =>
       got[ui] \in {None, GroupCount} /\ (assigns = "items" => iCurrentNodeNodesCount = None)
  /\ assigns # "none" /\ InItem =>
       /\ iCurrentNodeNodesCount = None
       /\ got[ui] \in {None, TrackCount}
       /\ todo[ui] # <<>> => got[ui] = None

HonestInv == Asking /\ (lates = 0 => Told)

LEMMA PlainExchange ==
  ASSUME NEW cmd \in Requests \ {"SET_ACTIVE_GROUP_ITEM"}, NEW reads \in {"no", "sent", "always"},
         NEW n \in 1..MaxTries, NEW keeps \in BOOLEAN, cmd \in Answered => reads # "no"
  PROVE  Exchange(cmd, reads, n, keeps) \in Plain
<1>1. Exchange(cmd, reads, n, keeps).cmd = cmd
  BY DEF Exchange
<1> QED BY <1>1, ExchangeOK DEF Plain

LEMMA AskPlain == \A cmd \in Requests \ {"SET_ACTIVE_GROUP_ITEM"} : <<Ask(cmd)>> \in Seq(Plain)
<1>1. \A cmd \in Requests \ {"SET_ACTIVE_GROUP_ITEM"} : Ask(cmd) \in Plain
  BY PlainExchange, TriesOK DEF Ask
<1> QED BY <1>1

LEMMA TellPlain ==
  \A cmd \in Requests \ {"SET_ACTIVE_GROUP_ITEM"} : cmd \notin Answered => <<Tell(cmd)>> \in Seq(Plain)
<1>1. \A cmd \in Requests \ {"SET_ACTIVE_GROUP_ITEM"} : cmd \notin Answered => Tell(cmd) \in Plain
  BY PlainExchange, TriesOK DEF Tell
<1> QED BY <1>1

LEMMA PlainSeqs == \A x, y, z \in Plain : <<x>> \in Seq(Plain) /\ <<x, y, z>> \in Seq(Plain)
OBVIOUS

LEMMA PlainOK ==
  ASSUME NEW op \in DOMAIN Exchanges, op # "SelectGroupItem"
  PROVE  Exchanges[op] \in Seq(Plain)
<1>1. Activate \in Seq(Plain)
  BY AskPlain DEF Requests, Answered, Activate
<1>2. SendStatus \in Seq(Plain)
  BY TellPlain DEF Requests, Answered, SendStatus
<1>3. Seek \in Seq(Plain)
  BY TellPlain DEF Requests, Answered, Seek
<1>4. GetDeviceName \in Seq(Plain)
  BY AskPlain DEF Requests, Answered, GetDeviceName
<1>5. SelectCurrentTrack \in Seq(Plain)
  BY TellPlain DEF Requests, Answered, SelectCurrentTrack
<1>6. GetTrackName \in Seq(Plain)
  BY AskPlain DEF Requests, Answered, GetTrackName
<1>7. SendControl \in Seq(Plain)
  BY TellPlain DEF Requests, Answered, SendControl
<1>8. GetGroupItemName \in Seq(Plain)
  BY AskPlain DEF Requests, Answered, GetGroupItemName
<1>9. ReadStatus \in Seq(Plain)
  <2>1. Exchange("GET_STATUS", "always", 1, FALSE) \in Plain
    BY PlainExchange, TriesOK DEF Requests, Answered
  <2> QED BY <2>1, PlainSeqs, Zenon DEF ReadStatus
<1>10. SelectGroup \in Seq(Plain)
  <2>1. Exchange("GET_GROUP_ITEMS_COUNT", "sent", MaxTries, FALSE) \in Plain
    BY PlainExchange, TriesOK DEF Requests, Answered
  <2> QED BY <2>1, PlainSeqs, Zenon DEF SelectGroup
<1>11. OpenTrack \in Seq(Plain)
  <2>1. "SET_CUR_TRK" \in Requests \ {"SET_ACTIVE_GROUP_ITEM"} /\ "SET_CUR_TRK" \notin Answered
    BY DEF Requests, Answered
  <2>2. Exchange("SET_CUR_TRK", "no", 1, TRUE) \in Plain
    BY <2>1, PlainExchange, TriesOK
  <2>3. Exchange("GET_TRK_INFO", "sent", 1, TRUE) \in Plain
    BY PlainExchange, TriesOK DEF Requests, Answered
  <2>4. Ask("GET_TRK_ID3_INFO") \in Plain
    BY PlainExchange, TriesOK DEF Ask, Requests, Answered
  <2> QED BY <2>2, <2>3, <2>4, PlainSeqs, Zenon DEF OpenTrack
<1>12. op \in {"Activate", "SendStatus", "Seek", "ReadStatus", "GetDeviceName", "SelectCurrentTrack",
                "GetTrackName", "SendControl", "SelectGroup", "GetGroupItemName", "OpenTrack"}
  BY DEF Exchanges
<1>13. /\ Exchanges["Activate"] = Activate /\ Exchanges["SendStatus"] = SendStatus
       /\ Exchanges["Seek"] = Seek /\ Exchanges["ReadStatus"] = ReadStatus
       /\ Exchanges["GetDeviceName"] = GetDeviceName
       /\ Exchanges["SelectCurrentTrack"] = SelectCurrentTrack
       /\ Exchanges["GetTrackName"] = GetTrackName /\ Exchanges["SendControl"] = SendControl
       /\ Exchanges["SelectGroup"] = SelectGroup /\ Exchanges["GetGroupItemName"] = GetGroupItemName
       /\ Exchanges["OpenTrack"] = OpenTrack
  BY DEF Exchanges
<1> QED BY <1>1, <1>2, <1>3, <1>4, <1>5, <1>6, <1>7, <1>8, <1>9, <1>10, <1>11, <1>12, <1>13

LEMMA PlainEmpty == <<>> \in Seq(Plain)
OBVIOUS

LEMMA PlainTail == \A s \in Seq(Plain) : s # <<>> => Head(s) \in Plain /\ Tail(s) \in Seq(Plain)
OBVIOUS

(* What the end of an exchange does to the call.                           *)
LEMMA DoneCall ==
  ASSUME Shapes, NEW t \in Threads, Done(t)
  PROVE  /\ todo' = [todo EXCEPT ![t] = Tail(todo[t])]
         /\ pc'[t] = "idle" => todo'[t] = <<>>
         /\ todo'[t] # <<>> => call'[t] = call[t]
         /\ \A u \in Threads \ {t} : pc'[u] = pc[u] /\ call'[u] = call[u]
<1> DEFINE rest == Tail(todo[t])
           kept == rest # <<>> /\ Head(todo[t]).keeps
<1>1. /\ todo' = [todo EXCEPT ![t] = rest]
      /\ pc' = [pc EXCEPT ![t] = IF kept THEN "out" ELSE IF rest = <<>> THEN "idle" ELSE "lock"]
      /\ call' = [call EXCEPT ![t] = IF rest = <<>> THEN None ELSE call[t]]
  BY DEF Done
<1> HIDE DEF rest, kept
<1>2. todo'[t] = rest /\ pc'[t] = (IF kept THEN "out" ELSE IF rest = <<>> THEN "idle" ELSE "lock")
      /\ call'[t] = IF rest = <<>> THEN None ELSE call[t]
  BY <1>1 DEF Shapes, CmdTypeOK
<1>3. \A u \in Threads \ {t} : pc'[u] = pc[u] /\ call'[u] = call[u]
  BY <1>1 DEF Shapes, CmdTypeOK
<1>4. todo' = [todo EXCEPT ![t] = Tail(todo[t])]
  BY <1>1 DEF rest
<1> QED BY <1>2, <1>3, <1>4

Selects(t) == todo[t] # <<>> /\ Head(todo[t]).cmd = "SET_ACTIVE_GROUP_ITEM"

(* What a step of a thread does to its call, and to the phone.             *)
LEMMA StepCall ==
  ASSUME PipeInv, NEW t \in Threads, Step(t)
  PROVE  /\ todo' \in [Threads -> Seq(WellFormed)]
         /\ todo'[t] \in {todo[t], Tail(todo[t]), <<>>} /\ todo[t] # <<>>
         /\ pc'[t] = "idle" => todo'[t] = <<>>
         /\ todo'[t] # <<>> => call'[t] = call[t]
         /\ pc[t] # "idle"
         /\ \A u \in Threads \ {t} :
              pc'[u] = pc[u] /\ call'[u] = call[u] /\ todo'[u] = todo[u] /\ got'[u] = got[u]
         /\ bIsoAudioStreaming' = "unset" => bIsoAudioStreaming = "unset"
         /\ lates' = 0 => lates = 0
         /\ active' = active \/ Selects(t)
         /\ lates = 0 =>
              \/ got'[t] = got[t]
              \/ /\ got'[t] = Answer(t) /\ Head(todo[t]).cmd \in Counting
                 /\ todo'[t] = Tail(todo[t]) /\ active' = active
<1> USE DEF PipeInv
<1>1. /\ todo \in [Threads -> Seq(WellFormed)] /\ pc \in [Threads -> {"idle", "lock", "out", "in"}]
      /\ got \in [Threads -> Answers \cup {None}] /\ call \in [Threads -> Calls \cup {None}]
      /\ lates \in Nat
  BY AlinqAssumption DEF Shapes, CmdTypeOK
<1>2. pc[t] # "idle"
  BY DEF Step, Transfer, Locks, GivesUp, Sends, SendFails, Reads, ReadFails
<1>3. todo[t] # <<>> /\ Tail(todo[t]) \in Seq(WellFormed)
  BY <1>2, TodoOK
<1>4. CASE Locks(t)
  BY <1>1, <1>2, <1>3, <1>4 DEF Locks, pipe
<1>5. CASE GivesUp(t)
  <2>1. <<>> \in Seq(WellFormed)
    OBVIOUS
  <2> QED BY <1>1, <1>2, <1>3, <1>5, <2>1 DEF GivesUp, pipe
<1>6. CASE Sends(t)
  <2>1. (active' = active \/ Selects(t)) /\ UNCHANGED <<bIsoAudioStreaming, lates, got>>
    BY <1>3, <1>6 DEF Sends, Arrives, Selects
  <2>2. CASE Done(t)
    BY <1>1, <1>2, <1>3, <2>1, <2>2, DoneCall
  <2>3. CASE pc' = [pc EXCEPT ![t] = "in"] /\ UNCHANGED <<CmdMutex, call, todo, tries>>
    BY <1>1, <1>2, <1>3, <2>1, <2>3
  <2> QED BY <1>6, <2>2, <2>3 DEF Sends
<1>7. CASE SendFails(t)
  <2>1. (active' = active \/ Selects(t)) /\ UNCHANGED <<bIsoAudioStreaming, got>>
    BY <1>3, <1>7 DEF SendFails, Arrives, Selects, pipe
  <2>2. lates' = 0 => lates = 0
    BY <1>1, <1>7 DEF SendFails, LeftBehind, pipe
  <2>3. CASE Done(t)
    BY <1>1, <1>2, <1>3, <2>1, <2>2, <2>3, DoneCall
  <2>4. CASE UNCHANGED <<CmdMutex, pc, call, todo>>
    BY <1>1, <1>2, <1>3, <2>1, <2>2, <2>4
  <2>5. CASE pc' = [pc EXCEPT ![t] = "in"] /\ UNCHANGED <<CmdMutex, call, todo, tries>>
    BY <1>1, <1>2, <1>3, <2>1, <2>2, <2>5
  <2> QED BY <1>7, <2>3, <2>4, <2>5 DEF SendFails
<1>8. CASE Reads(t)
  <2>1. /\ Done(t) /\ UNCHANGED <<active, lates>>
        /\ got' = [got EXCEPT ![t] = IF Head(todo[t]).cmd \in Counting THEN Head(replies) ELSE got[t]]
        /\ bIsoAudioStreaming' = "unset" => bIsoAudioStreaming = "unset"
    BY <1>8 DEF Reads
  <2>2. lates = 0 => Head(replies) = Answer(t)
    BY <1>8, ReadsOK
  <2>3. \A u \in Threads \ {t} : got'[u] = got[u]
    BY <1>1, <2>1
  <2>4. got'[t] = IF Head(todo[t]).cmd \in Counting THEN Head(replies) ELSE got[t]
    BY <1>1, <2>1
  <2>5. todo'[t] = Tail(todo[t]) /\ todo' \in [Threads -> Seq(WellFormed)]
        /\ \A u \in Threads \ {t} : todo'[u] = todo[u]
    BY <1>1, <1>3, <2>1, DoneCall
  <2> QED BY <1>2, <1>3, <2>1, <2>2, <2>3, <2>4, <2>5, DoneCall
<1>9. CASE ReadFails(t)
  <2>1. Done(t) /\ UNCHANGED <<bIsoAudioStreaming, active, got>> /\ (lates' = 0 => lates = 0)
    BY <1>1, <1>9 DEF ReadFails, LeftBehind
  <2> QED BY <1>1, <1>2, <1>3, <2>1, DoneCall
<1> QED BY <1>4, <1>5, <1>6, <1>7, <1>8, <1>9 DEF Step, Transfer
(* What the beginning of a call does to it.                                *)
LEMMA BeginCall ==
  ASSUME PipeInv, NEW t \in Threads, NEW c \in Calls, Begin(t, c)
  PROVE  /\ todo'[t] = Exchanges[c.op] /\ call'[t] = c /\ pc'[t] = "lock" /\ got'[t] = None
         /\ \A u \in Threads \ {t} :
              pc'[u] = pc[u] /\ call'[u] = call[u] /\ todo'[u] = todo[u] /\ got'[u] = got[u]
         /\ active' = active /\ lates' = lates /\ bIsoAudioStreaming' # "unset"
BY DEF Begin, pipe, PipeInv, Shapes, CmdTypeOK

LEMMA SelectGroupTodo ==
  /\ SelectGroup # <<>> /\ Tail(SelectGroup) = <<>>
  /\ Head(SelectGroup).cmd = "GET_GROUP_ITEMS_COUNT"
  /\ Exchanges["SelectGroup"] = SelectGroup
<1> DEFINE x == Exchange("GET_GROUP_ITEMS_COUNT", "sent", MaxTries, FALSE)
<1>1. SelectGroup = <<x>> /\ x.cmd = "GET_GROUP_ITEMS_COUNT"
  BY DEF SelectGroup, Exchange
<1>2. Exchanges["SelectGroup"] = SelectGroup
  BY DEF Exchanges
<1> HIDE DEF x
<1>3. <<x>> # <<>> /\ Tail(<<x>>) = <<>> /\ Head(<<x>>) = x
  OBVIOUS
<1> QED BY <1>1, <1>2, <1>3

LEMMA SelectGroupItemTodo ==
  /\ SelectGroupItem # <<>> /\ Tail(SelectGroupItem) = browserGetNumOfTracks
  /\ Head(SelectGroupItem).cmd = "SET_ACTIVE_GROUP_ITEM"
  /\ browserGetNumOfTracks # <<>> /\ Tail(browserGetNumOfTracks) = <<>>
  /\ Head(browserGetNumOfTracks).cmd = "GET_TRK_COUNT"
  /\ Exchanges["SelectGroupItem"] = SelectGroupItem
<1> DEFINE x == Tell("SET_ACTIVE_GROUP_ITEM")
           y == Ask("GET_TRK_COUNT")
<1>1. /\ SelectGroupItem = <<x>> \o <<y>> /\ browserGetNumOfTracks = <<y>>
      /\ x.cmd = "SET_ACTIVE_GROUP_ITEM" /\ y.cmd = "GET_TRK_COUNT"
  BY DEF SelectGroupItem, browserGetNumOfTracks, Tell, Ask, Exchange
<1>2. Exchanges["SelectGroupItem"] = SelectGroupItem
  BY DEF Exchanges
<1> HIDE DEF x, y
<1>3. <<x>> \o <<y>> = <<x, y>>
  <2> DEFINE S == {x, y}
  <2>1. /\ <<x>> \in Seq(S) /\ Len(<<x>>) = 1 /\ <<x>>[1] = x
        /\ <<y>> \in Seq(S) /\ Len(<<y>>) = 1 /\ <<y>>[1] = y
        /\ <<x, y>> \in Seq(S) /\ Len(<<x, y>>) = 2
        /\ <<x, y>>[1] = x /\ <<x, y>>[2] = y
    OBVIOUS
  <2> DEFINE s == <<x>> \o <<y>>
             t == <<x, y>>
             sx == <<x>>
             sy == <<y>>
  <2> HIDE DEF S, sx, sy
  <2>2. s = sx \o sy
    BY DEF sx, sy
  <2>3. /\ sx \in Seq(S) /\ Len(sx) = 1 /\ sx[1] = x
        /\ sy \in Seq(S) /\ Len(sy) = 1 /\ sy[1] = y
    BY <2>1 DEF sx, sy
  <2>4. /\ sx \o sy \in Seq(S) /\ Len(sx \o sy) = Len(sx) + Len(sy)
        /\ \A i \in 1 .. Len(sx) + Len(sy) : (sx \o sy)[i] = IF i <= Len(sx) THEN sx[i] ELSE sy[i - Len(sx)]
    BY <2>3, ConcatProperties
  <2> HIDE DEF s, t
  <2>5. s \in Seq(S) /\ Len(s) = 2 /\ s[1] = x /\ s[2] = y
    BY <2>2, <2>3, <2>4
  <2>6. t \in Seq(S) /\ Len(t) = 2 /\ t[1] = x /\ t[2] = y
    BY <2>1 DEF t
  <2>7. \A i \in 1 .. Len(s) : s[i] = t[i]
    BY <2>5, <2>6
  <2>8. s = t
    BY <2>5, <2>6, <2>7, SeqEqual
  <2> QED BY <2>8 DEF s, t
<1>4. <<x, y>> # <<>> /\ Tail(<<x, y>>) = <<y>> /\ Head(<<x, y>>) = x
  OBVIOUS
<1>5. <<y>> # <<>> /\ Tail(<<y>>) = <<>> /\ Head(<<y>>) = y
  OBVIOUS
<1> QED BY <1>1, <1>2, <1>3, <1>4, <1>5

(* A step of another thread leaves the counts and the active item alone.   *)
LEMMA OthersRun ==
  ASSUME PipeInv, HonestInv, NEW t \in Threads \ {ui}, Runs(t)
  PROVE  HonestInv'
<1>1. Step(t) /\ UNCHANGED <<node, counts, assigns>>
  BY DEF Runs
<1>2. todo[t] \in Seq(Plain) /\ todo[t] # <<>>
  BY <1>1, StepCall DEF HonestInv, Asking
<1>3. ~Selects(t)
  BY <1>2, PlainTail DEF Selects, Plain
<1>4. todo'[t] \in Seq(Plain)
  BY <1>1, <1>2, PlainEmpty, PlainTail, StepCall
<1>5. /\ pc'[ui] = pc[ui] /\ call'[ui] = call[ui] /\ todo'[ui] = todo[ui] /\ got'[ui] = got[ui]
      /\ \A u \in Threads \ {t} : todo'[u] = todo[u]
      /\ bIsoAudioStreaming' = "unset" => bIsoAudioStreaming = "unset"
      /\ lates' = 0 => lates = 0
      /\ active' = active
  BY <1>1, <1>3, StepCall, BrowserAssumption
<1>6. Asking'
  BY <1>1, <1>4, <1>5 DEF HonestInv, Asking, InGroup, InItem, AtRoot, node
<1>7. lates' = 0 => Told'
  BY <1>1, <1>5
  DEF HonestInv, Told, Honest, GroupCount, TrackCount, InGroup, InItem, AtRoot, node, counts
<1> QED BY <1>6, <1>7 DEF HonestInv

(* A step of the browser's own call.                                       *)
LEMMA BrowserRuns ==
  ASSUME PipeInv, PipeInv', BrowserOK, HonestInv, Runs(ui)
  PROVE  HonestInv'
<1>1. Step(ui) /\ UNCHANGED <<node, counts, assigns>> /\ ui \in Threads
  BY BrowserAssumption DEF Runs
<1>2. /\ todo'[ui] \in {todo[ui], Tail(todo[ui]), <<>>} /\ todo[ui] # <<>>
      /\ pc'[ui] = "idle" => todo'[ui] = <<>>
      /\ todo'[ui] # <<>> => call'[ui] = call[ui]
      /\ pc[ui] # "idle"
      /\ \A u \in Threads \ {ui} : todo'[u] = todo[u]
      /\ bIsoAudioStreaming' = "unset" => bIsoAudioStreaming = "unset"
      /\ lates' = 0 => lates = 0
      /\ active' = active \/ Selects(ui)
      /\ lates = 0 =>
           \/ got'[ui] = got[ui]
           \/ /\ got'[ui] = Answer(ui) /\ Head(todo[ui]).cmd \in Counting
              /\ todo'[ui] = Tail(todo[ui]) /\ active' = active
  BY <1>1, StepCall
<1>3. pc'[ui] # "idle" => todo'[ui] # <<>>
  BY <1>1 DEF PipeInv, Shapes, CmdTypeOK
<1>4. /\ AtRoot' <=> AtRoot
      /\ InGroup' <=> InGroup
      /\ InItem' <=> InItem
      /\ iCurrentNodeType' = iCurrentNodeType /\ assigns' = assigns
      /\ UNCHANGED counts
  BY <1>1 DEF AtRoot, InGroup, InItem, node
<1>5. CASE assigns = "none"
  <2>1. todo[ui] \in Seq(Plain)
    BY <1>5 DEF HonestInv, Asking
  <2>2. ~Selects(ui) /\ todo'[ui] \in Seq(Plain)
    BY <1>2, <2>1, PlainEmpty, PlainTail DEF Selects, Plain
  <2>3. Asking'
    BY <1>2, <1>4, <1>5, <2>2 DEF HonestInv, Asking
  <2>4. lates' = 0 => Told'
    BY <1>2, <1>4, <1>5, <2>2 DEF HonestInv, Told, Honest, GroupCount, TrackCount, counts
  <2> QED BY <2>3, <2>4 DEF HonestInv
<1>6. CASE assigns # "none" /\ InGroup
  <2>1. todo[ui] = SelectGroup /\ call[ui].arg = iCurrentNodeType
    BY <1>2, <1>6 DEF HonestInv, Asking
  <2>2. todo'[ui] \in {<<>>, SelectGroup} /\ ~InItem
    BY <1>2, <1>6, <2>1, SelectGroupTodo DEF InGroup, InItem
  <2>3. Asking'
    BY <1>2, <1>3, <1>4, <1>6, <2>1, <2>2 DEF HonestInv, Asking
  <2>4. lates = 0 => got'[ui] \in {None, GroupCount}
    <3>1. Answer(ui) = GroupCount
      BY <2>1, SelectGroupTodo DEF Answer, GroupCount
    <3> QED BY <1>2, <1>6, <3>1 DEF HonestInv, Told
  <2>5. GroupCount' = GroupCount
    BY <1>4 DEF GroupCount
  <2>6. lates' = 0 => Told'
    BY <1>2, <1>4, <1>6, <2>2, <2>4, <2>5 DEF HonestInv, Told, counts
  <2> QED BY <2>3, <2>6 DEF HonestInv
<1>7. CASE assigns # "none" /\ InItem
  <2>1. todo[ui] \in {SelectGroupItem, browserGetNumOfTracks} /\ ~InGroup
    BY <1>2, <1>7 DEF HonestInv, Asking, InGroup, InItem
  <2>2. todo'[ui] \in {<<>>, SelectGroupItem, browserGetNumOfTracks}
    BY <1>2, <2>1, SelectGroupItemTodo
  <2>3. Asking'
    BY <1>2, <1>4, <1>7, <2>1, <2>2 DEF HonestInv, Asking
  <2>4. ASSUME lates = 0
        PROVE  /\ got'[ui] \in {None, TrackCount'}
               /\ todo'[ui] # <<>> => got'[ui] = None
    <3>1. got[ui] = None
      BY <1>2, <1>7, <2>4 DEF HonestInv, Told
    <3>2. CASE got'[ui] = got[ui]
      BY <3>1, <3>2
    <3>3. CASE /\ got'[ui] = Answer(ui) /\ Head(todo[ui]).cmd \in Counting
               /\ todo'[ui] = Tail(todo[ui]) /\ active' = active
      <4>1. todo[ui] = browserGetNumOfTracks
        BY <2>1, <3>3, SelectGroupItemTodo DEF Counting
      <4>2. Answer(ui) = TrackCount /\ TrackCount' = TrackCount
        BY <3>3, <4>1, SelectGroupItemTodo DEF Answer, TrackCount
      <4> QED BY <3>3, <4>1, <4>2, SelectGroupItemTodo
    <3> QED BY <1>2, <2>4, <3>2, <3>3
  <2>5. lates' = 0 => Told'
    BY <1>2, <1>4, <1>7, <2>1, <2>4 DEF HonestInv, Told, counts
  <2> QED BY <2>3, <2>5 DEF HonestInv
<1>8. AtRoot => assigns = "none"
  BY DEF BrowserOK, Levels
<1> QED BY <1>5, <1>6, <1>7, <1>8 DEF InGroup, InItem

(* A call of the browser that selects nothing.                             *)
LEMMA LooksOn ==
  ASSUME PipeInv, HonestInv, assigns = "none", UNCHANGED <<node, counts, assigns>>,
         NEW op \in DOMAIN Exchanges, NEW arg \in Args, op # "SelectGroupItem", Calling(op, arg)
  PROVE  HonestInv'
<1>1. [op |-> op, arg |-> arg] \in Calls /\ ui \in Threads
  BY BrowserAssumption DEF Calls
<1>2. /\ todo'[ui] = Exchanges[op] /\ pc'[ui] = "lock"
      /\ \A u \in Threads \ {ui} : todo'[u] = todo[u]
      /\ active' = active /\ lates' = lates /\ bIsoAudioStreaming' # "unset"
  BY <1>1, BeginCall DEF Calling
<1>3. Asking'
  BY <1>2, PlainOK DEF HonestInv, Asking
<1>4. lates' = 0 => Told'
  BY <1>2 DEF HonestInv, Told, Honest, GroupCount, TrackCount, InGroup, InItem, AtRoot, node, counts
<1> QED BY <1>3, <1>4 DEF HonestInv

(* The group g is selected.                                                *)
LEMMA GroupSelected ==
  ASSUME PipeInv, HonestInv, NEW g \in Groups, NEW before, ToGroup(g, before)
  PROVE  HonestInv'
<1>1. [op |-> "SelectGroup", arg |-> g] \in Calls /\ ui \in Threads
  BY BrowserAssumption DEF Calls, Exchanges
<1>2. /\ todo'[ui] = SelectGroup /\ pc'[ui] = "lock" /\ call'[ui].arg = g /\ got'[ui] = None
      /\ \A u \in Threads \ {ui} : todo'[u] = todo[u]
      /\ bIsoAudioStreaming' # "unset" /\ lates' = lates
  BY <1>1, BeginCall, SelectGroupTodo DEF ToGroup, Calling
<1>3. /\ iCurrentNodeType' = g /\ assigns' \in {"nodes", "items"}
      /\ InGroup' /\ ~InItem'
      /\ assigns' = "items" => iCurrentNodeNodesCount' = None
  BY BrowserAssumption DEF ToGroup, InGroup, InItem, AtRoot
<1>4. Asking'
  BY <1>2, <1>3 DEF HonestInv, Asking
<1>5. Told'
  BY <1>2, <1>3 DEF Told
<1> QED BY <1>4, <1>5 DEF HonestInv

LEMMA RootSelected ==
  ASSUME HonestInv, assigns = "none", ToRoot, UNCHANGED <<cmdVars, iRootNodeIdx, assigns>>
  PROVE  HonestInv'
<1>1. AtRoot' /\ ~InGroup' /\ ~InItem'
  BY DEF ToRoot, AtRoot, InGroup, InItem
<1>2. Asking'
  BY <1>1 DEF HonestInv, Asking, cmdVars, threads
<1>3. Told'
  BY <1>1 DEF Told, Honest, ToRoot
<1> QED BY <1>2, <1>3 DEF HonestInv

LEMMA ItemSelected ==
  ASSUME PipeInv, BrowserOK, HonestInv, SetNodeItem
  PROVE  HonestInv'
<1>1. PICK i \in Below(iCurrentNodeNodesCount) :
        iCurrentNodeIndex' = i /\ Calling("SelectGroupItem", <<iCurrentNodeType, i>>)
  BY DEF SetNodeItem
<1>2. iCurrentNodeType \in Groups /\ iCurrentNodeNodesCount # Root
  BY DEF SetNodeItem, Ready, InGroup, AtRoot, BrowserOK, Levels
<1>3. i \in Items /\ i # NotSelected
  BY <1>1, <1>2, BrowserAssumption DEF Below
<1>4. [op |-> "SelectGroupItem", arg |-> <<iCurrentNodeType, i>>] \in Calls /\ ui \in Threads
  BY <1>2, <1>3, BrowserAssumption DEF Calls, Exchanges
<1>5. /\ todo'[ui] = SelectGroupItem /\ pc'[ui] = "lock" /\ got'[ui] = None
      /\ \A u \in Threads \ {ui} : todo'[u] = todo[u]
      /\ bIsoAudioStreaming' # "unset"
  BY <1>1, <1>4, BeginCall, SelectGroupItemTodo DEF Calling
<1>6. ~InGroup' /\ assigns' = "items" /\ iCurrentNodeNodesCount' = None
  BY <1>1, <1>3 DEF SetNodeItem, InGroup
<1>7. Asking'
  BY <1>5, <1>6 DEF HonestInv, Asking
<1>8. Told'
  BY <1>5, <1>6 DEF Told
<1> QED BY <1>7, <1>8 DEF HonestInv

(* The answer becomes a count.                                             *)
LEMMA CountAssigned ==
  ASSUME PipeInv, BrowserOK, HonestInv, SetNodeReturns
  PROVE  HonestInv'
<1>1. /\ assigns \in {"nodes", "items"} /\ assigns' = "none"
      /\ pc[ui] = "idle" /\ UNCHANGED <<bIsoAudioStreaming, active, lates, pc, call, todo>>
      /\ UNCHANGED <<iCurrentNodeType, iCurrentNodeIndex>>
  BY DEF SetNodeReturns, pipe, node
<1>2. todo[ui] = <<>> /\ ~AtRoot
  BY <1>1 DEF HonestInv, Asking, BrowserOK, Levels
<1>3. todo'[ui] \in Seq(Plain)
  BY <1>1, <1>2
<1>4. Asking'
  BY <1>1, <1>3 DEF HonestInv, Asking
<1>5. ASSUME lates' = 0 PROVE Honest'
  <2>1. Told
    BY <1>1, <1>5 DEF HonestInv
  <2>2. AtRoot' = AtRoot /\ InGroup' = InGroup /\ InItem' = InItem
        /\ GroupCount' = GroupCount /\ TrackCount' = TrackCount
    BY <1>1 DEF AtRoot, InGroup, InItem, GroupCount, TrackCount
  <2>3. CASE InGroup
    <3>1. got[ui] \in {None, GroupCount} /\ (assigns = "items" => iCurrentNodeNodesCount = None) /\ ~InItem
      BY <1>1, <2>1, <2>3 DEF Told, InGroup, InItem
    <3> QED BY <1>2, <2>2, <2>3, <3>1 DEF Honest, SetNodeReturns, Assigns
  <2>4. CASE InItem
    <3>1. assigns = "items" /\ ~InGroup
      BY <1>1, <2>4 DEF HonestInv, Asking, InGroup, InItem
    <3>2. iCurrentNodeNodesCount = None /\ got[ui] \in {None, TrackCount}
      BY <1>1, <2>1, <2>4 DEF Told
    <3> QED BY <1>2, <2>2, <3>1, <3>2 DEF Honest, SetNodeReturns, Assigns
  <2> QED BY <1>2, <2>3, <2>4 DEF InGroup, InItem
<1> QED BY <1>1, <1>4, <1>5 DEF HonestInv, Told

LEMMA HonestStep ==
  ASSUME BrowserSelects, PipeInv, PipeInv', BrowserOK, HonestInv, [Next]_vars
  PROVE  HonestInv'
<1>1. CASE Starts
  <2>1. assigns = "none" /\ AllFiles \in Args /\ "Activate" \in DOMAIN Exchanges
    BY <1>1, BrowserAssumption, OpsOK DEF Starts, HonestInv, Asking
  <2> QED BY <1>1, <2>1, LooksOn DEF Starts
<1>2. CASE SetNodeRoot \/ SetNodeLevelUp
  <2>1. CASE ToRoot /\ UNCHANGED <<cmdVars, iRootNodeIdx, assigns>>
    BY <1>2, <2>1, RootSelected DEF SetNodeRoot, SetNodeLevelUp, Ready
  <2>2. CASE ToGroup(iRootNodeIdx, None)
    BY <2>2, GroupSelected DEF BrowserOK
  <2> QED BY <1>2, <2>1, <2>2 DEF SetNodeRoot, SetNodeLevelUp
<1>3. CASE SetNodeGroup
  <2>1. PICK g \in Below(iCurrentNodeNodesCount) : ToGroup(g, iCurrentNodeItemsCount)
    BY <1>3 DEF SetNodeGroup
  <2>2. g \in Groups
    BY <1>3, <2>1, BrowserAssumption DEF SetNodeGroup, BrowserOK, Levels, Below
  <2> QED BY <2>1, <2>2, GroupSelected
<1>4. CASE SetNodeItem \/ SetNodeReturns
  BY <1>4, ItemSelected, CountAssigned
<1>5. CASE GetItem \/ SetItem
  <2>1. PICK i \in Below(iCurrentNodeItemsCount), op \in {"GetTrackName", "SelectCurrentTrack"} : Calling(op, i)
    BY <1>5 DEF GetItem, SetItem
  <2>2. i \in Args /\ op \in DOMAIN Exchanges
    BY <2>1, OpsOK, BrowserAssumption DEF BrowserOK, Below
  <2> QED BY <1>5, <2>1, <2>2, LooksOn DEF GetItem, SetItem, Ready
<1>6. CASE GetNode
  <2>1. PICK i \in Below(iCurrentNodeNodesCount) : Calling("GetGroupItemName", <<iCurrentNodeType, i>>)
    BY <1>6 DEF GetNode
  <2>2. iCurrentNodeType \in Groups /\ iCurrentNodeNodesCount # Root
    BY <1>6 DEF GetNode, Ready, InGroup, AtRoot, BrowserOK, Levels
  <2>3. <<iCurrentNodeType, i>> \in Args /\ "GetGroupItemName" \in DOMAIN Exchanges
    BY <2>1, <2>2, OpsOK, BrowserAssumption DEF Below
  <2> QED BY <1>6, <2>1, <2>3, LooksOn DEF GetNode, Ready
<1>7. CASE Other
  <2>1. PICK t \in Threads \ {ui}, c \in OtherCalls : Begin(t, c)
    BY <1>7 DEF Other
  <2>2. c \in Calls /\ c.op # "SelectGroupItem" /\ c.op \in DOMAIN Exchanges /\ ui \in Threads
    BY BrowserAssumption DEF BrowserSelects, Calls
  <2>3. /\ todo'[t] \in Seq(Plain)
        /\ pc'[ui] = pc[ui] /\ call'[ui] = call[ui] /\ todo'[ui] = todo[ui] /\ got'[ui] = got[ui]
        /\ \A u \in Threads \ {t} : todo'[u] = todo[u]
        /\ active' = active /\ lates' = lates /\ bIsoAudioStreaming' # "unset"
    BY <2>1, <2>2, BeginCall, PlainOK
  <2>4. UNCHANGED <<node, counts, assigns>>
    BY <1>7 DEF Other
  <2>5. Asking'
    BY <2>3, <2>4 DEF HonestInv, Asking, InGroup, InItem, AtRoot, node
  <2>6. lates' = 0 => Told'
    BY <2>3, <2>4
    DEF HonestInv, Told, Honest, GroupCount, TrackCount, InGroup, InItem, AtRoot, node, counts
  <2> QED BY <2>5, <2>6 DEF HonestInv
<1>8. CASE \E t \in Threads : Runs(t)
  BY <1>8, OthersRun, BrowserRuns
<1>9. CASE UNCHANGED vars
  BY <1>9 DEF vars, cmdVars, pipe, threads, node, counts, HonestInv, Asking, Told, Honest, GroupCount,
              TrackCount, InGroup, InItem, AtRoot
<1> QED BY <1>1, <1>2, <1>3, <1>4, <1>5, <1>6, <1>7, <1>8, <1>9 DEF Next, Browse

(* The counts by which the browser lets indices through belong to the node it is at,
   whatever fails and whatever other threads ask, while no answer is left behind and
   no other thread selects an item.                                           *)
THEOREM CountsHonestHolds ==
  ASSUME BrowserSelects
  PROVE  Spec => []CountsHonest
<1>1. Init => HonestInv
  <2> SUFFICES ASSUME Init PROVE HonestInv
    OBVIOUS
  <2>1. todo = [t \in Threads |-> <<>>] /\ assigns = "none" /\ ui \in Threads
    BY BrowserAssumption DEF Init, CmdInit
  <2>2. \A t \in Threads : todo[t] = <<>> /\ todo[t] \in Seq(Plain)
    BY <2>1, PlainEmpty
  <2>3. Asking
    BY <2>1, <2>2 DEF Asking
  <2>4. Told
    BY <2>1 DEF Told, Honest, Init, InGroup, InItem, AtRoot
  <2> QED BY <2>3, <2>4 DEF HonestInv
<1>2. PipeInv /\ BrowserOK /\ PipeInv' /\ HonestInv /\ [Next]_vars => HonestInv'
  BY HonestStep
<1>3. HonestInv => CountsHonest
  BY DEF HonestInv, Told, Honest, GroupCount, TrackCount, CountsHonest, Ready
<1> QED BY <1>1, <1>2, <1>3, Invariance, PTL DEF Spec
=============================================================================
