---------------------------- MODULE AlinqCommands ----------------------------
(***************************************************************************)
(* The ALinQ requests of android_commands.c: each call takes CmdMutex,     *)
(* sends one or more requests over the bulk OUT pipe, and reads the answer *)
(* of some of them from the bulk IN pipe, all with limits of time: 1000 ms *)
(* for the mutex and for a send, 100 ms for an answer.                     *)
(*                                                                         *)
(* The phone answers in the order of the requests, but nothing ties an     *)
(* answer to its request: an answer that comes after its read has timed    *)
(* out stays in the pipe.                                                  *)
(*                                                                         *)
(* The operators whose comment starts with Mutant are slips of the         *)
(* definition after them that the run must notice; they are not used.      *)
(***************************************************************************)
EXTENDS Naturals, Sequences

CONSTANTS
  Threads,    \* the threads that use the commands
  Args,       \* what requests are about: a group, one of its items, a track
  None,       \* no answer, no thread, no call: NULL or 0 in the code
  MaxTries,   \* sends of the request of SelectGroup, 10 in the code
  MaxLates    \* answers that nobody waited for, a bound of the model

VARIABLES
  CmdMutex,            \* the thread that holds it, or None
  bIsoAudioStreaming,  \* "unset" before ACOMMAND_Activate, then "no" or "yes"
  active,              \* on the phone: the active group item, None at first
  replies,             \* answers on their way and in the IN pipe, oldest first
  lates,               \* answers left behind so far
  pc,                  \* of each thread: "idle", "lock", "out" or "in"
  call,                \* of each thread: its running call, or None
  todo,                \* of each thread: the exchanges its call still has to make
  tries,               \* of each thread: sends left for the exchange
  got                  \* of each thread: the answer with the number its call returns, or None for 0

pipe == <<active, replies, lates>>
threads == <<pc, call, todo, tries, got>>
cmdVars == <<CmdMutex, bIsoAudioStreaming, pipe, threads>>

-----------------------------------------------------------------------------
(* What the calls do with the pipe, one exchange after the other.          *)

(* The request cmd: whether its answer is read, the sends it is tried for, and
   whether the mutex is kept for the next exchange of the call.               *)
Exchange(cmd, reads, sends, keeps) ==
  [cmd |-> cmd, reads |-> reads, tries |-> sends, keeps |-> keeps]

(* A request, and a read if the request was sent.                          *)
Ask(cmd) == Exchange(cmd, "sent", 1, FALSE)

(* A request whose result is not looked at and that has no answer.         *)
Tell(cmd) == Exchange(cmd, "no", 1, FALSE)

Activate == <<Ask("SET_DIGITAL_AUDIO_MODE")>>

SendStatus == <<Tell("SET_STATUS")>>

Seek == <<Tell("SET_TRK_TIME")>>

(* The answer is read even if the request was not sent.                    *)
ReadStatus == <<Exchange("GET_STATUS", "always", 1, FALSE)>>

GetDeviceName == <<Ask("GET_DEVICE_NAME")>>

SelectCurrentTrack == <<Tell("SET_CUR_TRK")>>

GetTrackName == <<Ask("GET_TRACK_NAME")>>

SendControl == <<Tell("CONTROL")>>

(* Mutant: one send too many.                                              *)
SelectGroupOnceMore == <<Exchange("GET_GROUP_ITEMS_COUNT", "sent", MaxTries + 1, FALSE)>>

SelectGroup == <<Exchange("GET_GROUP_ITEMS_COUNT", "sent", MaxTries, FALSE)>>

browserGetNumOfTracks == <<Ask("GET_TRK_COUNT")>>

GetGroupItemName == <<Ask("GET_GROUP_ITEMS")>>

(* The mutex is released before the tracks are asked for.                  *)
SelectGroupItem == <<Tell("SET_ACTIVE_GROUP_ITEM")>> \o browserGetNumOfTracks

(* Mutant: the answer with the track info is not read.                     *)
OpenTrackSkips ==
  <<Exchange("SET_CUR_TRK", "no", 1, TRUE), Exchange("GET_TRK_INFO", "no", 1, TRUE),
    Ask("GET_TRK_ID3_INFO")>>

OpenTrack ==
  <<Exchange("SET_CUR_TRK", "no", 1, TRUE), Exchange("GET_TRK_INFO", "sent", 1, TRUE),
    Ask("GET_TRK_ID3_INFO")>>

Exchanges ==
  [Activate |-> Activate, SendStatus |-> SendStatus, Seek |-> Seek, ReadStatus |-> ReadStatus,
   GetDeviceName |-> GetDeviceName, SelectCurrentTrack |-> SelectCurrentTrack,
   GetTrackName |-> GetTrackName, SendControl |-> SendControl, SelectGroup |-> SelectGroup,
   GetGroupItemName |-> GetGroupItemName, SelectGroupItem |-> SelectGroupItem,
   OpenTrack |-> OpenTrack]

(* The requests the phone answers, whether or not the answer is read.      *)
Answered ==
  {"SET_DIGITAL_AUDIO_MODE", "GET_STATUS", "GET_DEVICE_NAME", "GET_TRACK_NAME",
   "GET_GROUP_ITEMS_COUNT", "GET_TRK_COUNT", "GET_GROUP_ITEMS", "GET_TRK_INFO", "GET_TRK_ID3_INFO"}

(* Those with a number that the call returns.                              *)
Counting == {"GET_GROUP_ITEMS_COUNT", "GET_TRK_COUNT"}

Calls == [op : DOMAIN Exchanges, arg : Args]

Answers == [cmd : Answered, arg : Args \cup {None}]

ASSUME AlinqAssumption ==
  /\ None \notin Threads
  /\ None \notin Calls
  /\ MaxTries \in Nat \ {0}
  /\ MaxLates \in Nat

CmdTypeOK ==
  /\ CmdMutex \in Threads \cup {None}
  /\ bIsoAudioStreaming \in {"unset", "no", "yes"}
  /\ active \in Args \cup {None}
  /\ replies \in Seq(Answers)
  /\ lates \in 0..MaxLates
  /\ pc \in [Threads -> {"idle", "lock", "out", "in"}]
  /\ call \in [Threads -> Calls \cup {None}]
  /\ \A t \in Threads : pc[t] # "idle" => call[t] # None /\ Len(todo[t]) > 0
  /\ tries \in [Threads -> 0..MaxTries]
  /\ got \in [Threads -> Answers \cup {None}]

CmdInit ==
  /\ CmdMutex = None
  /\ bIsoAudioStreaming = "unset"
  /\ active = None
  /\ replies = <<>> /\ lates = 0
  /\ pc = [t \in Threads |-> "idle"]
  /\ call = [t \in Threads |-> None]
  /\ todo = [t \in Threads |-> <<>>]
  /\ tries = [t \in Threads |-> 0]
  /\ got = [t \in Threads |-> None]

-----------------------------------------------------------------------------
(* The beginning of a call.  ACOMMAND_Activate comes first; the name of the
   device is only asked for when audio comes over USB.                        *)
Begin(t, c) ==
  /\ pc[t] = "idle"
  /\ c.op = "Activate" <=> bIsoAudioStreaming = "unset"
  /\ c.op = "GetDeviceName" => bIsoAudioStreaming = "yes"
  /\ bIsoAudioStreaming' = IF c.op = "Activate" THEN "no" ELSE bIsoAudioStreaming
  /\ pc' = [pc EXCEPT ![t] = "lock"]
  /\ call' = [call EXCEPT ![t] = c]
  /\ todo' = [todo EXCEPT ![t] = Exchanges[c.op]]
  /\ got' = [got EXCEPT ![t] = None]
  /\ UNCHANGED <<CmdMutex, pipe, tries>>

(* Mutant: the mutex is not looked at.                                     *)
TakesAnyway == TRUE

(* pthread_mutex_trylock succeeds.                                         *)
Unheld == CmdMutex = None

Locks(t) ==
  /\ pc[t] = "lock" /\ Unheld
  /\ CmdMutex' = t
  /\ pc' = [pc EXCEPT ![t] = "out"]
  /\ tries' = [tries EXCEPT ![t] = Head(todo[t]).tries]
  /\ UNCHANGED <<bIsoAudioStreaming, pipe, call, todo, got>>

(* The mutex was taken at each of the tries of 1000 ms: the call returns 0.  *)
GivesUp(t) ==
  /\ pc[t] = "lock" /\ CmdMutex # None
  /\ pc' = [pc EXCEPT ![t] = "idle"]
  /\ call' = [call EXCEPT ![t] = None]
  /\ todo' = [todo EXCEPT ![t] = <<>>]
  /\ UNCHANGED <<CmdMutex, bIsoAudioStreaming, pipe, tries, got>>

(* Mutant: a call that has its answer returns with the mutex.               *)
UnlockedUnlessRead(t) == IF pc[t] = "in" THEN CmdMutex ELSE None

Unlocked(t) == None

(* The exchange is over: the next one, after a lock of its own unless the mutex
   is kept, or the end of the call.                                           *)
Done(t) ==
  LET rest == Tail(todo[t])
      kept == rest # <<>> /\ Head(todo[t]).keeps
  IN /\ todo' = [todo EXCEPT ![t] = rest]
     /\ CmdMutex' = IF kept THEN t ELSE Unlocked(t)
     /\ pc' = [pc EXCEPT ![t] = IF kept THEN "out" ELSE IF rest = <<>> THEN "idle" ELSE "lock"]
     /\ tries' = [tries EXCEPT ![t] = IF kept THEN Head(rest).tries ELSE 0]
     /\ call' = [call EXCEPT ![t] = IF rest = <<>> THEN None ELSE @]

(* What the phone answers to the request of t: the number of tracks is that of
   its active group item.                                                     *)
Answer(t) ==
  [cmd |-> Head(todo[t]).cmd,
   arg |-> IF Head(todo[t]).cmd = "GET_TRK_COUNT" THEN active ELSE call[t].arg]

(* The request reaches the phone, which may fail to answer it.              *)
Arrives(t) ==
  /\ active' = IF Head(todo[t]).cmd = "SET_ACTIVE_GROUP_ITEM" THEN call[t].arg ELSE active
  /\ \/ Head(todo[t]).cmd \in Answered /\ replies' = Append(replies, Answer(t))
     \/ UNCHANGED replies

LeftBehind(n) == lates + n <= MaxLates /\ lates' = lates + n

Sends(t) ==
  /\ pc[t] = "out"
  /\ Arrives(t)
  /\ IF Head(todo[t]).reads = "no"
     THEN Done(t)
     ELSE pc' = [pc EXCEPT ![t] = "in"] /\ UNCHANGED <<CmdMutex, call, todo, tries>>
  /\ UNCHANGED <<bIsoAudioStreaming, lates, got>>

(* A send that failed may have reached the phone.  The error for which a group is
   not asked again, ERR_DRIVE_NOT_PRESENT, is never that of Bulk_OUT.         *)
SendFails(t) ==
  /\ pc[t] = "out"
  /\ \/ UNCHANGED pipe
     \/ Arrives(t) /\ LeftBehind(IF replies' = replies THEN 0 ELSE 1)
  /\ IF tries[t] > 1
     THEN tries' = [tries EXCEPT ![t] = @ - 1] /\ UNCHANGED <<CmdMutex, pc, call, todo>>
     ELSE IF Head(todo[t]).reads = "always"
     THEN pc' = [pc EXCEPT ![t] = "in"] /\ UNCHANGED <<CmdMutex, call, todo, tries>>
     ELSE Done(t)
  /\ UNCHANGED <<bIsoAudioStreaming, got>>

(* The oldest answer of the pipe is taken for that of the request.  Only
   ACOMMAND_Activate looks what it is an answer to.                           *)
Reads(t) ==
  /\ pc[t] = "in" /\ replies # <<>>
  /\ got' = [got EXCEPT ![t] = IF Head(todo[t]).cmd \in Counting THEN Head(replies) ELSE @]
  /\ replies' = Tail(replies)
  /\ \/ /\ call[t].op = "Activate" /\ Head(replies).cmd = "SET_DIGITAL_AUDIO_MODE"
        /\ bIsoAudioStreaming' = "yes"
     \/ UNCHANGED bIsoAudioStreaming
  /\ Done(t)
  /\ UNCHANGED <<active, lates>>

ReadFails(t) ==
  /\ pc[t] = "in"
  /\ LeftBehind(IF replies = <<>> THEN 0 ELSE 1)
  /\ Done(t)
  /\ UNCHANGED <<bIsoAudioStreaming, active, replies, got>>

Transfer(t) == Sends(t) \/ SendFails(t) \/ Reads(t) \/ ReadFails(t)

Step(t) == Locks(t) \/ GivesUp(t) \/ Transfer(t)

-----------------------------------------------------------------------------
(* "Handles mutual access to android data channel" (android_commands.c:3): between
   two calls the pipe holds no answers but those that were left behind by a
   transfer that failed.                                                      *)
Backlog == CmdMutex = None => Len(replies) <= lates

(* Nothing in an answer is compared with the request, and still, while no answer
   was left behind, every call gets the answer to its own request, with any
   number of threads and whatever requests are lost.                          *)
AnswersOwn ==
  [][\A t \in Threads : Reads(t) /\ lates = 0 => Head(replies) = Answer(t)]_cmdVars

(* Whatever fails inside a call, also after its ten sends, it gives the mutex
   back: no thread can keep the others from the phone for good.               *)
LockReleased == \A t \in Threads : CmdMutex = t ~> CmdMutex # t
=============================================================================
