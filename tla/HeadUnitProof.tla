---------------------------- MODULE HeadUnitProof ----------------------------
(***************************************************************************)
(* The head unit, for every size of the panel, of its queue and of the     *)
(* buffers, and every number of reports, of captures and of codec frames:  *)
(* captures are sent and gestures told as they are, and the codec is not   *)
(* released in use.                                                        *)
(***************************************************************************)
EXTENDS HeadUnit, SequenceTheorems, TLAPS

-----------------------------------------------------------------------------
(* The hand-over of captures.                                              *)

LEMMA WrappedInt == ASSUME NEW n \in Int PROVE Wrapped(n) \in Ints
BY MicAssumption DEF MicAssumption, Wrapped, Ints

LEMMA WrappedSmall == ASSUME NEW n \in Ints PROVE Wrapped(n) = n
<1>1. n + IntLimit \in 0..(2 * IntLimit - 1)
  BY MicAssumption DEF MicAssumption, Ints
<1>2. (n + IntLimit) % (2 * IntLimit) = n + IntLimit
  BY <1>1, MicAssumption DEF MicAssumption
<1> QED BY <1>2, MicAssumption DEF MicAssumption, Wrapped, Ints

(* Without an error a capture is small enough to be copied as a whole.     *)
LEMMA CopyRange ==
  ASSUME NEW n \in Ints
  PROVE  /\ ToCopy(n) \in 0..CmdSize
         /\ n \in 0..BuffSize => ToCopy(n) = n
BY MicAssumption DEF MicAssumption, ToCopy, Ints

(* MicTypeOK with the guard of the bound: a read is begun only below it.      *)
MicTyped ==
  /\ MicTypeOK
  /\ writer = "read" => captured < MaxCaptures

LEMMA MicInitTyped == MicInit => MicTyped
<1> SUFFICES ASSUME MicInit PROVE MicTyped
  OBVIOUS
<1>1. 0 \in Ints /\ 0 \in 0..MaxCaptures /\ 0 \in -1..MaxCaptures /\ 0 \in 0..CmdSize
  BY MicAssumption DEF MicAssumption, Ints
<1> QED BY <1>1 DEF MicInit, MicTyped, MicTypeOK

LEMMA MicNextTyped == MicTyped /\ [MicNext]_micVars => MicTyped'
<1> SUFFICES ASSUME MicTyped, [MicNext]_micVars PROVE MicTyped'
  OBVIOUS
<1> USE MicAssumption DEF MicAssumption, MicTyped, MicTypeOK, captureVars, tickVars, micVars
<1>1. CASE StartsRead
  BY <1>1 DEF StartsRead, Torn
<1>2. ASSUME NEW n \in Results, ReadReturns(n) PROVE MicTyped'
  <2>1. n \in Ints
    BY DEF Ints
  <2>2. captured' \in 0..MaxCaptures /\ buff' \in -1..MaxCaptures
    <3>1. captured + 1 \in 0..MaxCaptures
      BY <1>2 DEF ReadReturns
    <3> QED BY <1>2, <3>1 DEF ReadReturns
  <2>3. failed' \in BOOLEAN
    BY <1>2 DEF ReadReturns
  <2> QED BY <1>2, <2>1, <2>2, <2>3 DEF ReadReturns
<1>3. CASE Stores
  BY <1>3 DEF Stores
<1>4. CASE NoData
  BY <1>4 DEF NoData
<1>5. CASE HasData
  BY <1>5, CopyRange DEF HasData
<1>6. CASE Copies
  BY <1>6 DEF Copies
<1>7. CASE Subtracts
  <2>1. gAudioDataSize - copied \in Int
    BY DEF Ints
  <2> QED BY <1>7, <2>1, WrappedInt DEF Subtracts, Left
<1>8. CASE UNCHANGED micVars
  BY <1>8
<1> QED BY <1>1, <1>2, <1>3, <1>4, <1>5, <1>6, <1>7, <1>8 DEF MicNext, Capture, GetData

-----------------------------------------------------------------------------
(* Whose turn it is.  The count is not 0 only between the store of the capture
   thread and the subtraction of the main thread: between them the buffer holds
   the last capture, which has not been sent before the copy; at any other time
   the main thread is not inside MIC_getData.                                 *)

Waiting == gAudioDataSize = 0 /\ reader = "tick"

Turn ==
  /\ writer \in {"read", "store"} => Waiting
  /\ reader \in {"copy", "subtract"} => gAudioDataSize # 0 /\ copied = gAudioDataSize

Contents ==
  /\ gAudioDataSize # 0 => gAudioDataSize = size
  /\ gAudioDataSize # 0 \/ (writer = "store" /\ size > 0) => buff = captured
  /\ writer = "store" => size >= 0
  /\ size \in 0..BuffSize

MicSent ==
  /\ reader = "subtract" => msg.cap = captured
  /\ gAudioDataSize # 0 /\ reader # "subtract" => msg.cap = captured - 1
  /\ gAudioDataSize = 0 /\ ~(writer = "store" /\ size > 0) => msg.cap = captured
  /\ writer = "store" /\ size > 0 => msg.cap = captured - 1

HandOver == ~failed => Turn /\ Contents /\ MicSent

MicInv == MicTyped /\ HandOver

LEMMA MicInitInv == MicInit => MicInv
BY MicInitTyped, MicAssumption
DEF MicAssumption, MicInit, MicInv, HandOver, Waiting, Turn, Contents, MicSent

LEMMA MicNextInv == MicInv /\ [MicNext]_micVars => MicInv'
<1> SUFFICES ASSUME MicInv, [MicNext]_micVars PROVE MicInv'
  OBVIOUS
<1>1. MicTyped'
  BY MicNextTyped DEF MicInv
<1>2. HandOver'
  <2> USE DEF MicInv, HandOver
  <2> SUFFICES ASSUME ~failed' PROVE Turn' /\ Contents' /\ MicSent'
    OBVIOUS
  <2>1. ~failed
    BY DEF MicNext, Capture, GetData, StartsRead, ReadReturns, Stores, NoData, HasData,
           Copies, Subtracts, captureVars, tickVars, micVars
  <2> USE <2>1, MicAssumption
      DEF MicAssumption, MicTyped, MicTypeOK, Turn, Waiting, Contents, MicSent, captureVars, tickVars, micVars
  <2>2. CASE StartsRead
    BY <2>2 DEF StartsRead, Free
  <2>3. ASSUME NEW n \in Results, ReadReturns(n) PROVE Turn' /\ Contents' /\ MicSent'
    <3>1. failed' = (failed \/ n < 0)
      BY <2>3 DEF ReadReturns
    <3>2. ~(n < 0)
      BY <3>1, Zenon
    <3>3. n \in 0..BuffSize
      BY <3>2
    <3>4. failed' = failed
      BY <3>1, <3>2, <2>1, Zenon
    <3> QED BY <2>3, <3>2, <3>3 DEF ReadReturns
  <2>4. CASE Stores
    BY <2>4 DEF Stores
  <2>5. CASE NoData
    BY <2>5 DEF NoData
  <2>6. CASE HasData
    <3>1. ToCopy(gAudioDataSize) = gAudioDataSize
      BY CopyRange, <2>6 DEF HasData
    <3> QED BY <2>6, <3>1 DEF HasData
  <2>7. CASE Copies
    BY <2>7 DEF Copies
  <2>8. CASE Subtracts
    <3>1. gAudioDataSize' = 0
      BY <2>8, WrappedSmall DEF Subtracts, Left, Ints
    <3> QED BY <2>8, <3>1 DEF Subtracts
  <2>9. CASE UNCHANGED micVars
    BY <2>9
  <2> QED BY <2>2, <2>3, <2>4, <2>5, <2>6, <2>7, <2>8, <2>9 DEF MicNext, Capture, GetData
<1> QED BY <1>1, <1>2 DEF MicInv

LEMMA InvHands == MicInv /\ [MicNext]_micVars => [MicStep]_micVars
<1> SUFFICES ASSUME MicInv, [MicNext]_micVars, msg' # msg, ~failed
             PROVE  msg' = [cap |-> msg.cap + 1, bytes |-> size]
  BY DEF MicStep
<1>1. Copies
  BY DEF MicNext, Capture, GetData, StartsRead, ReadReturns, Stores, NoData, HasData,
         Subtracts, captureVars, tickVars, micVars
<1>2. buff = msg.cap + 1 /\ copied = size
  BY <1>1 DEF Copies, MicInv, HandOver, MicTyped, MicTypeOK, Turn, Contents, MicSent
<1> QED BY <1>1, <1>2 DEF Copies

LEMMA MicPart == [Next]_vars => [MicNext]_micVars
BY DEF Next, Main, Display, Outside, InitOk, InitFails, AsksTouch, TakesCapture, Calls, CallFails,
       Decode, Quits, Byebye, ByebyeCrashes, Joins, DequeuesOutput, Renders, DisplayEnds, got_signal,
       CodecFails, MicNext, GetData, vars

LEMMA MicAlways == Spec => []MicInv /\ MicSpec
<1>1. Init => MicInit
  BY DEF Init
<1>2. Spec => MicSpec
  BY <1>1, MicPart, PTL DEF Spec, MicSpec
<1>3. MicSpec => []MicInv
  BY MicInitInv, MicNextInv, PTL DEF MicSpec
<1> QED BY <1>2, <1>3, PTL

(* Every capture is sent whole, once and in order, however the two threads are
   scheduled and whatever else a tick does, until a read of the microphone fails. *)
THEOREM HandedOverHolds == Spec => HandedOver
<1>1. MicSpec => HandedOver
  BY MicInitInv, MicNextInv, InvHands, PTL DEF MicSpec, HandedOver
<1> QED BY <1>1, MicAlways, PTL

-----------------------------------------------------------------------------
(* Reports of the panel.                                                   *)

Fingers == [down : BOOLEAN, at : Places]

KeyPart(now) == IF now.down = finger.down THEN <<>> ELSE <<Ev("KEY", IF now.down THEN 1 ELSE 0)>>

AbsPart(c, old, new) == IF old = new THEN <<>> ELSE <<Ev(c, new)>>

(* What comes after the KEY of a report.                                   *)
Rest(now) ==
  (AbsPart("ABS_X", finger.at.x, now.at.x) \o AbsPart("ABS_Y", finger.at.y, now.at.y)) \o <<Syn>>

Quiet(now) == {e \in Events : e.code # "KEY" /\ (e.code # "SYN" => now.down)}

LEMMA EvOK == \A c \in {"SYN", "KEY", "ABS_X", "ABS_Y"}, v \in 0..255 :
                /\ Ev(c, v) \in Events
                /\ Ev(c, v).code = c /\ Ev(c, v).value = v
BY DEF Ev, Events

LEMMA SynOK == Syn \in Events /\ Syn.code = "SYN"
BY DEF Syn, Ev, Events

LEMMA KeyOK == \A v \in {0, 1} : Ev("KEY", v) \in Events /\ Ev("KEY", v).code = "KEY" /\ Ev("KEY", v).value = v
BY DEF Ev, Events

LEMMA OneElement ==
  ASSUME NEW S, NEW e \in S
  PROVE  <<e>> \in Seq(S) /\ Len(<<e>>) = 1 /\ <<e>>[1] = e
OBVIOUS

LEMMA PlaceOK == \A p \in Places : p.x \in 0..255 /\ p.y \in 0..255
BY TouchAssumption DEF TouchAssumption

LEMMA AbsOK ==
  ASSUME NEW now \in Fingers, NEW c \in {"ABS_X", "ABS_Y"}, NEW old, NEW new \in 0..255,
         old # new => now.down
  PROVE  AbsPart(c, old, new) \in Seq(Quiet(now)) /\ Len(AbsPart(c, old, new)) <= 1
<1>1. CASE old = new
  <2>1. AbsPart(c, old, new) = <<>>
    BY <1>1 DEF AbsPart
  <2> QED BY <2>1, EmptySeq
<1>2. CASE old # new
  <2>1. Ev(c, new) \in Quiet(now)
    BY <1>2, EvOK DEF Quiet
  <2>2. AbsPart(c, old, new) = <<Ev(c, new)>>
    BY <1>2 DEF AbsPart
  <2> QED BY <2>1, <2>2, OneElement
<1> QED BY <1>1, <1>2

LEMMA RestOK ==
  ASSUME TouchTypeOK, NEW now \in Fingers, ~now.down => now.at = finger.at
  PROVE  /\ Rest(now) \in Seq(Quiet(now))
         /\ Len(Rest(now)) \in 1..3
         /\ Rest(now)[Len(Rest(now))] = Syn
<1> DEFINE X == AbsPart("ABS_X", finger.at.x, now.at.x)
           Y == AbsPart("ABS_Y", finger.at.y, now.at.y)
           Q == Quiet(now)
<1>1. X \in Seq(Q) /\ Len(X) <= 1
  <2>1. now.at.x \in 0..255
    BY PlaceOK DEF Fingers
  <2>2. finger.at.x # now.at.x => now.down
    BY DEF Fingers
  <2> QED BY <2>1, <2>2, AbsOK
<1>2. Y \in Seq(Q) /\ Len(Y) <= 1
  <2>1. now.at.y \in 0..255
    BY PlaceOK DEF Fingers
  <2>2. finger.at.y # now.at.y => now.down
    BY DEF Fingers
  <2> QED BY <2>1, <2>2, AbsOK
<1>3. Syn \in Q
  BY SynOK DEF Quiet
<1>4. <<Syn>> \in Seq(Q) /\ Len(<<Syn>>) = 1 /\ <<Syn>>[1] = Syn
  BY <1>3, OneElement
<1>5. Rest(now) = (X \o Y) \o <<Syn>>
  BY DEF Rest
<1> HIDE DEF X, Y, Q
<1>6. X \o Y \in Seq(Q) /\ Len(X \o Y) = Len(X) + Len(Y)
  BY <1>1, <1>2, ConcatProperties
<1>7. /\ Rest(now) \in Seq(Q)
      /\ Len(Rest(now)) = Len(X \o Y) + 1
      /\ \A i \in 1..(Len(X \o Y) + 1) :
           Rest(now)[i] = IF i <= Len(X \o Y) THEN (X \o Y)[i] ELSE <<Syn>>[i - Len(X \o Y)]
  BY <1>4, <1>5, <1>6, ConcatProperties
<1>8. Len(X) \in Nat /\ Len(Y) \in Nat
  BY <1>1, <1>2, LenProperties
<1>9. Len(Rest(now)) \in 1..3
  BY <1>1, <1>2, <1>6, <1>7, <1>8
<1>10. Rest(now)[Len(Rest(now))] = <<Syn>>[1]
  <2> DEFINE n == Len(X \o Y)
  <2>1. n \in Nat /\ n + 1 \in 1..(n + 1) /\ ~(n + 1 <= n) /\ (n + 1) - n = 1
    BY <1>6, <1>8
  <2> QED BY <2>1, <1>7
<1> QED BY <1>4, <1>7, <1>9, <1>10 DEF Q

(* A report has a KEY only at its beginning, and only if the finger has come or
   gone; a change of place only while it is there; and a SYN at its end.      *)
ReportShape(now, R) ==
  /\ R \in Seq(Events)
  /\ Len(R) \in 1..4
  /\ R[Len(R)].code = "SYN"
  /\ now.down # finger.down => R[1].code = "KEY"
  /\ \A i \in 1..Len(R) :
       /\ R[i].code = "KEY" => i = 1 /\ now.down # finger.down /\ (R[i].value # 0 <=> now.down)
       /\ R[i].code \in {"ABS_X", "ABS_Y"} => now.down

LEMMA ReportOK ==
  ASSUME TouchTypeOK, NEW now \in Fingers, ~now.down => now.at = finger.at
  PROVE  ReportShape(now, Report(now))
<1> DEFINE R == Rest(now)  Q == Quiet(now)
<1>1. R \in Seq(Q) /\ Len(R) \in 1..3 /\ R[Len(R)] = Syn
  BY RestOK
<1>2. \A i \in 1..Len(R) : R[i] \in Q
  BY <1>1, ElementOfSeq
<1>3. R \in Seq(Events)
  BY <1>1, SeqMonotonic DEF Quiet
<1>4. \A i \in 1..Len(R) : R[i].code # "KEY" /\ (R[i].code \in {"ABS_X", "ABS_Y"} => now.down)
  BY <1>2 DEF Quiet
<1>5. R[Len(R)].code = "SYN"
  BY <1>1, SynOK
<1>6. Report(now) = KeyPart(now) \o R
  <2> DEFINE X == AbsPart("ABS_X", finger.at.x, now.at.x)
             Y == AbsPart("ABS_Y", finger.at.y, now.at.y)
  <2>1. X \in Seq(Q)
    BY PlaceOK, AbsOK DEF Fingers
  <2>2. Y \in Seq(Q)
    BY PlaceOK, AbsOK DEF Fingers
  <2>3. X \in Seq(Events) /\ Y \in Seq(Events)
    BY <2>1, <2>2, SeqMonotonic DEF Quiet
  <2>4. <<Syn>> \in Seq(Events)
    BY SynOK, OneElement
  <2>5. KeyPart(now) \in Seq(Events)
    <3>1. Ev("KEY", IF now.down THEN 1 ELSE 0) \in Events
      BY KeyOK
    <3> QED BY <3>1, OneElement, EmptySeq DEF KeyPart
  <2>6. Report(now) = KeyPart(now) \o X \o Y \o <<Syn>>
    BY DEF Report, KeyPart, AbsPart
  <2>7. R = (X \o Y) \o <<Syn>>
    BY DEF Rest
  <2> HIDE DEF X, Y, R, Q
  <2>8. X \o Y \in Seq(Events)
    BY <2>3, ConcatProperties
  <2>9. KeyPart(now) \o X \o Y = KeyPart(now) \o (X \o Y)
    BY <2>3, <2>5, ConcatAssociative
  <2>10. (KeyPart(now) \o (X \o Y)) \o <<Syn>> = KeyPart(now) \o ((X \o Y) \o <<Syn>>)
    BY <2>4, <2>5, <2>8, ConcatAssociative
  <2> QED BY <2>6, <2>7, <2>9, <2>10
<1> HIDE DEF R, Q
<1>7. CASE now.down = finger.down
  <2>1. KeyPart(now) = <<>>
    BY <1>7 DEF KeyPart
  <2>2. Report(now) = R
    BY <1>3, <1>6, <2>1, ConcatEmptySeq
  <2> QED BY <1>1, <1>3, <1>4, <1>5, <1>7, <2>2 DEF ReportShape
<1>8. CASE now.down # finger.down
  <2> DEFINE k == Ev("KEY", IF now.down THEN 1 ELSE 0)
  <2>1. k \in Events /\ k.code = "KEY" /\ (k.value # 0 <=> now.down)
    <3>1. CASE now.down
      BY <3>1, KeyOK DEF Fingers
    <3>2. CASE ~now.down
      BY <3>2, KeyOK DEF Fingers
    <3> QED BY <3>1, <3>2
  <2>2. KeyPart(now) = <<k>>
    BY <1>8 DEF KeyPart
  <2> HIDE DEF k
  <2>3. <<k>> \in Seq(Events) /\ Len(<<k>>) = 1 /\ <<k>>[1] = k
    BY <2>1, OneElement
  <2>4. /\ Report(now) \in Seq(Events)
        /\ Len(Report(now)) = 1 + Len(R)
        /\ \A i \in 1..(1 + Len(R)) : Report(now)[i] = IF i <= 1 THEN <<k>>[i] ELSE R[i - 1]
    BY <1>3, <1>6, <2>2, <2>3, ConcatProperties
  <2>5. \A i \in 1..(1 + Len(R)) : Report(now)[i] = IF i = 1 THEN k ELSE R[i - 1]
    BY <2>3, <2>4, <1>1
  <2>6. Len(Report(now)) \in 2..4
    BY <1>1, <2>4
  <2>7. Report(now)[1] = k
    BY <2>5, <1>1
  <2>8. Report(now)[Len(Report(now))] = R[Len(R)]
    BY <1>1, <2>4, <2>5
  <2>9. ASSUME NEW i \in 1..Len(Report(now)), i # 1
        PROVE  i - 1 \in 1..Len(R) /\ Report(now)[i] = R[i - 1]
    <3>1. i \in 1..(1 + Len(R)) /\ Len(R) \in Nat
      BY <1>1, <2>4
    <3> QED BY <2>5, <2>9, <3>1
  <2> QED BY <1>4, <1>5, <1>8, <2>1, <2>4, <2>6, <2>7, <2>8, <2>9 DEF ReportShape
<1> QED BY <1>7, <1>8

-----------------------------------------------------------------------------
(* Types.                                                                  *)

Columns == 0..800
Rows == 0..480

EventType == [NeedsReport : BOOLEAN, NewButton : BOOLEAN, OldButton : BOOLEAN, X : Columns, Y : Rows]

Touches == [action : {"DOWN", "UP", "MOVE"}, X : Columns, Y : Rows]

LEMMA FoldedOK ==
  ASSUME event \in EventType, NEW ev \in Events
  PROVE  Folded(ev, event) \in EventType
<1>1. ev.value \in 0..255
  BY DEF Events
<1>2. Scaled(ev.value, 800) \in Columns /\ Scaled(ev.value, 480) \in Rows
  BY <1>1 DEF Scaled, Columns, Rows
<1>3. Reported(event) \in EventType
  BY DEF EventType, Reported
<1>4. \A b \in BOOLEAN, x \in Columns, y \in Rows : Changed(event, b, x, y) \in EventType
  BY DEF EventType, Changed
<1>5. event.NewButton \in BOOLEAN /\ event.X \in Columns /\ event.Y \in Rows
  BY DEF EventType
<1>6. (ev.value # 0) \in BOOLEAN
  OBVIOUS
<1>7. CASE ev.code = "KEY"
  <2>1. Folded(ev, event) = Changed(event, ev.value # 0, event.X, event.Y)
    BY <1>7, Zenon DEF Folded
  <2> QED BY <1>4, <1>5, <1>6, <2>1, Zenon
<1>8. CASE ev.code = "ABS_X"
  <2>1. Folded(ev, event) = Changed(event, event.NewButton, Scaled(ev.value, 800), event.Y)
    BY <1>8 DEF Folded
  <2> QED BY <1>2, <1>4, <1>5, <2>1
<1>9. CASE ev.code = "ABS_Y"
  <2>1. Folded(ev, event) = Changed(event, event.NewButton, event.X, Scaled(ev.value, 480))
    BY <1>9 DEF Folded
  <2> QED BY <1>2, <1>4, <1>5, <2>1
<1>10. CASE ev.code \notin {"KEY", "ABS_X", "ABS_Y"}
  <2>1. Folded(ev, event) = IF event.NeedsReport THEN Reported(event) ELSE event
    BY <1>10 DEF Folded
  <2> QED BY <1>3, <2>1
<1> QED BY <1>7, <1>8, <1>9, <1>10

LEMMA MessageOK ==
  ASSUME event \in EventType
  PROVE  Message(event) \in Touches /\ IsTouch(Message(event))
<1>1. Message(event) \in Touches
  BY DEF EventType, Message, Action, Touches
<1>2. Message(event) \in [action : {"DOWN", "UP", "MOVE"}, X : Nat, Y : Nat]
  BY <1>1 DEF Touches, Columns, Rows
<1> QED BY <1>1, <1>2, TouchAssumption, HeadAssumption DEF TouchAssumption, HeadAssumption, IsTouch

LEMMA MovesOK ==
  ASSUME TouchTypeOK, Touched
  PROVE  finger' \in Fingers /\ reports' \in Nat /\ kernel' \in Seq(Events)
         /\ Len(kernel') <= QueueLen /\ dropped' \in BOOLEAN
<1>1. PICK now \in Fingers : Moves(now)
  BY DEF Touched, Fingers
<1> DEFINE R == Report(now)
<1>2. ReportShape(now, R)
  BY <1>1, ReportOK DEF Moves
<1>3. R \in Seq(Events) /\ Len(R) \in 1..4
  BY <1>2 DEF ReportShape
<1>4. finger' \in Fingers /\ reports' \in Nat
  <2>1. finger' = now /\ reports' = reports + 1 /\ reports \in Nat
    BY <1>1 DEF Moves, TouchTypeOK
  <2> QED BY <2>1
<1>5. CASE Len(kernel) + Len(R) <= QueueLen
  <2>1. kernel' = kernel \o R /\ dropped' = dropped
    BY <1>1, <1>5 DEF Moves
  <2>2. kernel' \in Seq(Events) /\ Len(kernel') = Len(kernel) + Len(R)
    BY <1>3, <2>1, ConcatProperties DEF TouchTypeOK
  <2> QED BY <1>4, <1>5, <2>1, <2>2 DEF TouchTypeOK
<1>6. CASE ~(Len(kernel) + Len(R) <= QueueLen)
  <2>1. dropped' = TRUE /\ \E k \in 2..Len(R) : kernel' = <<Syn>> \o SubSeq(R, k, Len(R))
    BY <1>1, <1>6 DEF Moves
  <2>2. PICK k \in 2..Len(R) : kernel' = <<Syn>> \o SubSeq(R, k, Len(R))
    BY <2>1
  <2> HIDE DEF R
  <2>3. \A i \in k..Len(R) : R[i] \in Events
    BY <1>3, ElementOfSeq
  <2>4. SubSeq(R, k, Len(R)) \in Seq(Events) /\ Len(SubSeq(R, k, Len(R))) = Len(R) - k + 1
    BY <1>3, <2>3, SubSeqProperties
  <2>5. <<Syn>> \in Seq(Events) /\ Len(<<Syn>>) = 1
    BY SynOK, OneElement
  <2>6. kernel' \in Seq(Events) /\ Len(kernel') = 1 + (Len(R) - k + 1)
    BY <2>2, <2>4, <2>5, ConcatProperties
  <2>7. 4 <= QueueLen /\ QueueLen \in Nat
    BY TouchAssumption DEF TouchAssumption
  <2>8. Len(kernel') <= QueueLen
    <3>1. \A n \in 1..4 : \A j \in 2..n : 1 + (n - j + 1) <= 4 /\ 1 + (n - j + 1) \in Nat
      OBVIOUS
    <3>2. Len(kernel') <= 4 /\ Len(kernel') \in Nat
      BY <1>3, <2>2, <2>6, <3>1
    <3> QED BY <2>7, <3>2
  <2> QED BY <1>4, <2>1, <2>6, <2>8, Zenon
<1> QED BY <1>5, <1>6

LEMMA GetActionOK ==
  ASSUME TouchTypeOK, NEW m, GetAction(m)
  PROVE  /\ kernel' \in Seq(Events) /\ Len(kernel') <= QueueLen
         /\ event' \in EventType
         /\ UNCHANGED <<finger, reports, dropped>>
<1>1. CASE kernel = <<>> /\ UNCHANGED touchVars
  BY <1>1 DEF TouchTypeOK, touchVars, panel, EventType, Columns, Rows
<1>2. CASE /\ kernel # <<>>
           /\ kernel' = Tail(kernel)
           /\ event' = Folded(Head(kernel), event)
           /\ UNCHANGED <<finger, reports, dropped>>
  <2>1. /\ Head(kernel) \in Events
        /\ Tail(kernel) \in Seq(Events)
        /\ Len(Tail(kernel)) = Len(kernel) - 1
    BY <1>2, HeadTailProperties DEF TouchTypeOK
  <2>2. Len(kernel) \in Nat /\ Len(kernel) <= QueueLen
    BY LenProperties DEF TouchTypeOK
  <2>3. event' \in EventType
    <3>1. event \in EventType
      BY DEF TouchTypeOK, EventType, Columns, Rows
    <3> QED BY <1>2, <2>1, <3>1, FoldedOK
  <2> QED BY <1>2, <2>1, <2>2, <2>3, TouchAssumption DEF TouchAssumption
<1> QED BY <1>1, <1>2 DEF GetAction

LEMMA InitTyped == Init => TypeOK
<1> SUFFICES ASSUME Init PROVE TypeOK
  OBVIOUS
<1>1. MicTypeOK
  BY MicInitTyped DEF Init, MicTyped
<1>2. finger \in Fingers /\ reports \in Nat /\ dropped \in BOOLEAN /\ event \in EventType
  <2>1. [x |-> 0, y |-> 0] \in Places
    BY TouchAssumption DEF TouchAssumption
  <2>2. finger = [down |-> FALSE, at |-> [x |-> 0, y |-> 0]]
    BY DEF Init, TouchInit
  <2>3. finger \in Fingers
    <3> DEFINE p == [x |-> 0, y |-> 0]
    <3>1. p \in Places /\ finger = [down |-> FALSE, at |-> p]
      BY <2>1, <2>2
    <3> HIDE DEF p
    <3> QED BY <3>1 DEF Fingers
  <2>4. event \in EventType
    BY DEF Init, TouchInit, EventType, Columns, Rows
  <2> QED BY <2>3, <2>4 DEF Init, TouchInit
<1>3. kernel \in Seq(Events) /\ Len(kernel) <= QueueLen
  BY EmptySeq, TouchAssumption DEF TouchAssumption, Init, TouchInit
<1>4. 0 \in 0..NumBuffers
  BY HeadAssumption DEF HeadAssumption
<1>5. seen \in [down : BOOLEAN, X : 0..800, Y : 0..480]
  BY DEF Init
<1> QED BY <1>1, <1>2, <1>3, <1>4, <1>5 DEF Init, TypeOK, TouchTypeOK, Fingers, EventType, Columns, Rows

HeadTypeOK ==
  /\ step \in {"init", "loop", "mic", "call", "decode", "byebye", "join", "over"}
  /\ cmd \in Touches \cup {MicData, None}
  /\ seen \in [down : BOOLEAN, X : Columns, Y : Rows]
  /\ {lost, gMicOn, gQuit, gStopDisplayThread} \subseteq BOOLEAN
  /\ display \in {"none", "running", "render", "ended"}
  /\ codec \in {"none", "started", "failed", "released"}
  /\ frames \in 0..NumBuffers

LEMMA TypeParts == TypeOK <=> TouchTypeOK /\ MicTypeOK /\ HeadTypeOK
BY DEF TypeOK, HeadTypeOK, Touches, Columns, Rows

LEMMA TouchPartTyped == ASSUME TouchTypeOK, [Next]_vars PROVE TouchTypeOK'
<1>1. TouchTypeOK <=> /\ finger \in Fingers /\ reports \in Nat
                      /\ kernel \in Seq(Events) /\ Len(kernel) <= QueueLen
                      /\ dropped \in BOOLEAN
                      /\ event \in EventType
  BY DEF TouchTypeOK, Fingers, EventType, Columns, Rows
<1>2. TouchTypeOK' <=> /\ finger' \in Fingers /\ reports' \in Nat
                       /\ kernel' \in Seq(Events) /\ Len(kernel') <= QueueLen
                       /\ dropped' \in BOOLEAN
                       /\ event' \in EventType
  BY DEF TouchTypeOK, Fingers, EventType, Columns, Rows
<1>3. CASE UNCHANGED touchVars
  BY <1>1, <1>2, <1>3 DEF touchVars, panel
<1>4. CASE Touched /\ UNCHANGED event
  BY <1>1, <1>2, <1>4, MovesOK
<1>5. ASSUME NEW m \in {None, Message(event)}, GetAction(m) PROVE TouchTypeOK'
  BY <1>1, <1>2, <1>5, GetActionOK
<1> QED BY <1>3, <1>4, <1>5
        DEF Next, Main, Display, Outside, InitOk, InitFails, AsksTouch, TakesCapture, Calls, CallFails,
            Decode, Quits, Byebye, ByebyeCrashes, Joins, DequeuesOutput, Renders, DisplayEnds,
            got_signal, CodecFails, vars

(* A frame that is rendered is in the codec, which is released at the end only.  *)
CodecInv ==
  /\ display = "render" => frames > 0
  /\ codec = "released" => step = "over" /\ display = "ended"

LEMMA HeadPartTyped == ASSUME TypeOK, CodecInv, [Next]_vars PROVE HeadTypeOK'
<1> USE TypeParts DEF HeadTypeOK
<1>1. CASE InitOk
  BY <1>1 DEF InitOk, flags
<1>2. CASE InitFails
  BY <1>2 DEF InitFails, flags, codecVars
<1>3. CASE AsksTouch
  <2>1. cmd' \in Touches \cup {MicData, None}
    BY <1>3, MessageOK DEF AsksTouch, TouchTypeOK, EventType, Columns, Rows
  <2> QED BY <1>3, <2>1 DEF AsksTouch, flags, codecVars
<1>4. CASE TakesCapture
  BY <1>4 DEF TakesCapture, flags, codecVars
<1>5. CASE Calls
  <2>1. seen' \in [down : BOOLEAN, X : Columns, Y : Rows]
    <3>1. CASE IsTouch(cmd)
      <4>1. cmd \in Touches
        BY <3>1 DEF IsTouch
      <4>2. Sees(cmd) \in [down : BOOLEAN, X : Columns, Y : Rows]
        BY <4>1 DEF Sees, Touches
      <4>3. seen' = seen \/ seen' = Sees(cmd)
        BY <1>5, <3>1 DEF Calls
      <4> QED BY <4>2, <4>3
    <3>2. CASE ~IsTouch(cmd)
      BY <1>5, <3>2 DEF Calls
    <3> QED BY <3>1, <3>2
  <2> QED BY <1>5, <2>1 DEF Calls, flags, codecVars
<1>6. CASE CallFails
  BY <1>6 DEF CallFails, flags, codecVars
<1>7. CASE Decode
  BY <1>7, HeadAssumption DEF HeadAssumption, Decode, flags
<1>8. CASE Quits
  BY <1>8 DEF Quits, flags, codecVars
<1>9. CASE Byebye
  BY <1>9 DEF Byebye, codecVars
<1>10. CASE ByebyeCrashes
  BY <1>10 DEF ByebyeCrashes, flags, codecVars
<1>11. CASE Joins
  BY <1>11 DEF Joins, flags
<1>12. CASE Display
  <2>1. frames' \in 0..NumBuffers
    BY <1>12, HeadAssumption
       DEF HeadAssumption, CodecInv, Display, DequeuesOutput, Renders, DisplayEnds, codecVars
  <2> QED BY <1>12, <2>1 DEF Display, DequeuesOutput, Renders, DisplayEnds, mainVars, flags, codecVars
<1>13. CASE Outside
  BY <1>13 DEF Outside, got_signal, CodecFails, mainVars, flags, codecVars
<1>14. CASE UNCHANGED vars
  BY <1>14 DEF vars, mainVars, flags, codecVars
<1> QED BY <1>1, <1>2, <1>3, <1>4, <1>5, <1>6, <1>7, <1>8, <1>9, <1>10, <1>11, <1>12, <1>13, <1>14
        DEF Next, Main

LEMMA CodecStep == ASSUME TypeOK, CodecInv, [Next]_vars PROVE CodecInv'
<1>1. frames \in Nat
  BY HeadAssumption DEF HeadAssumption, TypeOK
<1>2. CASE Calls
  <2>1. UNCHANGED codecVars /\ display' = display /\ step = "call"
    BY <1>2 DEF Calls
  <2> QED BY <2>1 DEF CodecInv, codecVars
<1>3. CASE Main
  <2>1. CASE InitOk
    <3>1. codec' = "started" /\ display' = "running"
      BY <2>1 DEF InitOk
    <3> QED BY <3>1 DEF CodecInv
  <2> QED BY <1>1, <1>2, <1>3, <2>1
     DEF CodecInv, Main, InitFails, AsksTouch, TakesCapture, CallFails, Decode, Quits, Byebye,
         ByebyeCrashes, Joins, Joined, codecVars
<1>4. CASE Display
  BY <1>1, <1>4 DEF CodecInv, Display, DequeuesOutput, Renders, DisplayEnds, mainVars, codecVars
<1>5. CASE Outside \/ UNCHANGED vars
  <2>1. UNCHANGED <<step, display, frames>> /\ (codec' = codec \/ (codec = "started" /\ codec' = "failed"))
    BY <1>5 DEF Outside, got_signal, CodecFails, mainVars, codecVars, vars
  <2> QED BY <2>1 DEF CodecInv
<1> QED BY <1>3, <1>4, <1>5 DEF Next

LEMMA TypeStep == ASSUME TypeOK, CodecInv, MicTypeOK', [Next]_vars PROVE TypeOK'
<1>1. TouchTypeOK' /\ HeadTypeOK'
  BY TypeParts, TouchPartTyped, HeadPartTyped
<1>2. TypeOK' <=> TouchTypeOK' /\ MicTypeOK' /\ HeadTypeOK'
  BY DEF TypeOK, HeadTypeOK, Touches, Columns, Rows
<1> QED BY <1>1, <1>2

LEMMA Always == Spec => [](TypeOK /\ CodecInv)
<1>1. Init => TypeOK /\ CodecInv
  BY InitTyped DEF Init, CodecInv
<1>2. MicInv' => MicTypeOK'
  BY DEF MicInv, MicTyped
<1>3. TypeOK /\ CodecInv /\ MicInv' /\ [Next]_vars => (TypeOK /\ CodecInv)'
  BY <1>2, TypeStep, CodecStep
<1> QED BY <1>1, <1>3, MicAlways, PTL DEF Spec

(* The values of the application are those of the declared types.          *)
THEOREM TypeCorrect == Spec => []TypeOK
BY Always, PTL

(* The codec is not released while the display thread uses it.             *)
THEOREM CodecInUseHolds == Spec => []CodecInUse
<1>1. CodecInv => CodecInUse
  BY DEF CodecInv, CodecInUse
<1> QED BY <1>1, Always, PTL

-----------------------------------------------------------------------------
(* What the queue says of the button.                                      *)

(* The places around one in the middle of a range.                         *)
LEMMA Around ==
  ASSUME NEW n \in Nat, NEW i \in 1..(n - 1)
  PROVE  /\ i + 1 \in 1..n /\ (i + 1) - 1 = i /\ i + 1 # 1
         /\ i \in 0..(n - 1) /\ i - 1 \in 0..(n - 1) /\ (i - 1) + 1 = i
         /\ i # 1 => i - 1 \in 1..(n - 1)
OBVIOUS

(* Events that wait tell a button that is first before them and last after them:
   a KEY begins a report and changes it, a place is of a finger that is down.   *)
Follows(k, n, b, needs) ==
  /\ \A i \in 1..n :
       /\ k[i].code = "KEY" =>
            /\ b[i] <=> k[i].value # 0
            /\ ~(b[i] <=> b[i - 1])
            /\ IF i = 1 THEN ~needs ELSE k[i - 1].code = "SYN"
       /\ k[i].code # "KEY" => (b[i] <=> b[i - 1])
       /\ k[i].code \in {"ABS_X", "ABS_Y"} => b[i]
  /\ IF n = 0 THEN ~needs ELSE k[n].code = "SYN"

Tells(k, first, last, needs) ==
  \E b \in [0..Len(k) -> BOOLEAN] :
    (b[0] <=> first) /\ (b[Len(k)] <=> last) /\ Follows(k, Len(k), b, needs)

LEMMA TellsHead ==
  ASSUME NEW k \in Seq(Events), k # <<>>, NEW first, NEW last, NEW needs, Tells(k, first, last, needs)
  PROVE  /\ k[1].code = "KEY" => ~needs /\ ~(k[1].value # 0 <=> first)
         /\ k[1].code \in {"ABS_X", "ABS_Y"} => first
<1>1. PICK b \in [0..Len(k) -> BOOLEAN] :
        (b[0] <=> first) /\ (b[Len(k)] <=> last) /\ Follows(k, Len(k), b, needs)
  BY DEF Tells
<1>2. Len(k) \in Nat /\ Len(k) # 0
  BY LenProperties, EmptySeq
<1>3. 1 \in 1..Len(k) /\ 1 - 1 = 0
  BY <1>2
<1>4. b[0] \in BOOLEAN /\ b[1] \in BOOLEAN
  BY <1>1, <1>2
<1> QED BY <1>1, <1>3, <1>4 DEF Follows

LEMMA TellsTail ==
  ASSUME NEW k \in Seq(Events), k # <<>>, NEW first, NEW last, NEW needs, NEW now, NEW left,
         Tells(k, first, last, needs),
         now <=> IF k[1].code = "KEY" THEN k[1].value # 0 ELSE first,
         k[1].code = "SYN" => ~left
  PROVE  Tells(Tail(k), now, last, left)
<1> DEFINE n == Len(k)
           t == Tail(k)
<1>1. PICK b \in [0..Len(k) -> BOOLEAN] :
        (b[0] <=> first) /\ (b[Len(k)] <=> last) /\ Follows(k, Len(k), b, needs)
  BY DEF Tells
<1>2. n \in Nat /\ n # 0 /\ Len(t) = n - 1 /\ \A i \in 1..(n - 1) : t[i] = k[i + 1]
  BY LenProperties, EmptySeq, HeadTailProperties
<1> DEFINE c == [i \in 0..(n - 1) |-> b[i + 1]]
<1>3. \A i \in 0..(n - 1) : i + 1 \in 0..n /\ i + 1 \in 1..n
  BY <1>2
<1>4. c \in [0..(n - 1) -> BOOLEAN] /\ \A i \in 0..(n - 1) : c[i] = b[i + 1]
  BY <1>1, <1>3
<1> HIDE DEF n, t, c
<1>5. Follows(k, n, b, needs) /\ (b[n] <=> last) /\ (b[0] <=> first)
  BY <1>1 DEF n
<1>6. c[0] <=> now
  <2>1. 0 \in 0..(n - 1) /\ 0 + 1 = 1 /\ 1 \in 1..n /\ 1 - 1 = 0
    BY <1>2
  <2> QED BY <1>4, <1>5, <2>1 DEF Follows
<1>7. c[n - 1] <=> last
  <2>1. n - 1 \in 0..(n - 1) /\ (n - 1) + 1 = n
    BY <1>2
  <2> QED BY <1>4, <1>5, <2>1
<1>8. ASSUME NEW i \in 1..(n - 1)
      PROVE  /\ t[i].code = "KEY" =>
                  /\ c[i] <=> t[i].value # 0
                  /\ ~(c[i] <=> c[i - 1])
                  /\ IF i = 1 THEN ~left ELSE t[i - 1].code = "SYN"
             /\ t[i].code # "KEY" => (c[i] <=> c[i - 1])
             /\ t[i].code \in {"ABS_X", "ABS_Y"} => c[i]
  <2>1. /\ i + 1 \in 1..n /\ (i + 1) - 1 = i /\ i + 1 # 1
        /\ i \in 0..(n - 1) /\ i - 1 \in 0..(n - 1) /\ (i - 1) + 1 = i
        /\ i # 1 => i - 1 \in 1..(n - 1)
    BY <1>2, Around
  <2>2. t[i] = k[i + 1] /\ c[i] = b[i + 1] /\ c[i - 1] = b[i]
    BY <1>2, <1>4, <2>1
  <2>3. i # 1 => t[i - 1] = k[i]
    BY <1>2, <2>1
  <2>4. k[i + 1].code = "KEY" => k[i].code = "SYN"
    BY <1>5, <2>1 DEF Follows
  <2>5. t[i].code = "KEY" => (c[i] <=> t[i].value # 0) /\ ~(c[i] <=> c[i - 1])
    BY <1>5, <2>1, <2>2 DEF Follows
  <2>6. t[i].code = "KEY" => IF i = 1 THEN ~left ELSE t[i - 1].code = "SYN"
    <3>1. CASE i = 1
      BY <2>2, <2>4, <3>1
    <3>2. CASE i # 1
      BY <2>2, <2>3, <2>4, <3>2
    <3> QED BY <3>1, <3>2
  <2>7. /\ t[i].code # "KEY" => (c[i] <=> c[i - 1])
        /\ t[i].code \in {"ABS_X", "ABS_Y"} => c[i]
    BY <1>5, <2>1, <2>2 DEF Follows
  <2> QED BY <2>5, <2>6, <2>7
<1>9. IF n - 1 = 0 THEN ~left ELSE t[n - 1].code = "SYN"
  <2>1. k[n].code = "SYN"
    BY <1>2, <1>5 DEF Follows
  <2>2. CASE n = 1
    BY <1>2, <2>1, <2>2
  <2>3. CASE n # 1
    <3>1. n - 1 \in 1..(n - 1) /\ (n - 1) + 1 = n /\ n - 1 # 0
      BY <1>2, <2>3
    <3> QED BY <1>2, <2>1, <3>1
  <2> QED BY <2>2, <2>3
<1>10. Follows(t, n - 1, c, left)
  BY <1>8, <1>9 DEF Follows
<1>11. Tells(t, now, last, left)
  BY <1>2, <1>4, <1>6, <1>7, <1>10 DEF Tells
<1> QED BY <1>11 DEF t

LEMMA TellsMore ==
  ASSUME NEW k \in Seq(Events), NEW R, NEW now \in Fingers, NEW first, NEW needs,
         finger \in Fingers, ReportShape(now, R), Tells(k, first, finger.down, needs)
  PROVE  Tells(k \o R, first, now.down, needs)
<1> DEFINE n == Len(k)
           r == Len(R)
           w == k \o R
<1>1. PICK b \in [0..Len(k) -> BOOLEAN] :
        (b[0] <=> first) /\ (b[Len(k)] <=> finger.down) /\ Follows(k, Len(k), b, needs)
  BY DEF Tells
<1>2. R \in Seq(Events) /\ r \in Nat /\ r # 0 /\ n \in Nat
  BY LenProperties DEF ReportShape
<1>3. Len(w) = n + r /\ \A i \in 1..(n + r) : w[i] = IF i <= n THEN k[i] ELSE R[i - n]
  BY <1>2, ConcatProperties
<1> DEFINE c == [i \in 0..(n + r) |-> IF i <= n THEN b[i] ELSE now.down]
<1>4. now.down \in BOOLEAN /\ finger.down \in BOOLEAN
  BY DEF Fingers
<1>5. c \in [0..(n + r) -> BOOLEAN]
      /\ \A i \in 0..(n + r) : c[i] = IF i <= n THEN b[i] ELSE now.down
  BY <1>1, <1>2, <1>4
<1> HIDE DEF n, r, w, c
<1>6. Follows(k, n, b, needs) /\ (b[n] <=> finger.down) /\ (b[0] <=> first)
  BY <1>1 DEF n
<1>7. (c[0] <=> first) /\ (c[n + r] <=> now.down)
  <2>1. 0 \in 0..(n + r) /\ 0 <= n /\ n + r \in 0..(n + r) /\ ~(n + r <= n)
    BY <1>2
  <2> QED BY <1>5, <1>6, <2>1
<1>8. ASSUME NEW i \in 1..(n + r)
      PROVE  /\ w[i].code = "KEY" =>
                  /\ c[i] <=> w[i].value # 0
                  /\ ~(c[i] <=> c[i - 1])
                  /\ IF i = 1 THEN ~needs ELSE w[i - 1].code = "SYN"
             /\ w[i].code # "KEY" => (c[i] <=> c[i - 1])
             /\ w[i].code \in {"ABS_X", "ABS_Y"} => c[i]
  <2>1. i \in 0..(n + r) /\ i - 1 \in 0..(n + r) /\ (i # 1 => i - 1 \in 1..(n + r))
    BY <1>2
  <2>2. CASE i <= n
    <3>1. i \in 1..n /\ i - 1 <= n
      BY <1>2, <2>2
    <3>2. w[i] = k[i] /\ c[i] = b[i] /\ c[i - 1] = b[i - 1] /\ (i # 1 => w[i - 1] = k[i - 1])
      BY <1>3, <1>5, <2>1, <2>2, <3>1
    <3> QED BY <1>6, <3>1, <3>2 DEF Follows
  <2>3. CASE i = n + 1
    <3>1. ~(i <= n) /\ i - n = 1 /\ i - 1 = n /\ n <= n /\ 1 \in 1..r
      BY <1>2, <2>3
    <3>2. w[i] = R[1] /\ c[i] = now.down /\ c[i - 1] = b[n]
      BY <1>3, <1>5, <2>1, <3>1
    <3>3. /\ R[1].code = "KEY" => ~(now.down <=> finger.down) /\ (R[1].value # 0 <=> now.down)
          /\ R[1].code # "KEY" => (now.down <=> finger.down)
          /\ R[1].code \in {"ABS_X", "ABS_Y"} => now.down
      BY <1>4, <3>1 DEF ReportShape, r
    <3>4. IF i = 1 THEN ~needs ELSE w[i - 1].code = "SYN"
      <4>1. IF n = 0 THEN ~needs ELSE k[n].code = "SYN"
        BY <1>6 DEF Follows
      <4>2. CASE n = 0
        BY <1>2, <2>3, <4>1, <4>2
      <4>3. CASE n # 0
        <5>1. i # 1 /\ w[i - 1] = k[n]
          BY <1>2, <1>3, <2>1, <2>3, <3>1, <4>3
        <5> QED BY <4>1, <4>3, <5>1
      <4> QED BY <4>2, <4>3
    <3> QED BY <1>6, <3>2, <3>3, <3>4
  <2>4. CASE i > n + 1
    <3>1. ~(i <= n) /\ ~(i - 1 <= n) /\ i - n # 1 /\ i - n \in 1..r
      BY <1>2, <2>4
    <3>2. w[i] = R[i - n] /\ c[i] = now.down /\ c[i - 1] = now.down
      BY <1>3, <1>5, <2>1, <3>1
    <3>3. R[i - n].code # "KEY" /\ (R[i - n].code \in {"ABS_X", "ABS_Y"} => now.down)
      BY <3>1 DEF ReportShape, r
    <3> QED BY <3>2, <3>3
  <2> QED BY <1>2, <2>2, <2>3, <2>4
<1>9. IF n + r = 0 THEN ~needs ELSE w[n + r].code = "SYN"
  <2>1. n + r # 0 /\ n + r \in 1..(n + r) /\ ~(n + r <= n) /\ (n + r) - n = r
    BY <1>2
  <2>2. w[n + r] = R[r]
    BY <1>3, <2>1
  <2> QED BY <2>1, <2>2 DEF ReportShape, r
<1>10. Follows(w, n + r, c, needs)
  BY <1>8, <1>9 DEF Follows
<1>11. Tells(w, first, now.down, needs)
  BY <1>3, <1>5, <1>7, <1>10 DEF Tells
<1> QED BY <1>11 DEF w
-----------------------------------------------------------------------------
(* Gestures.                                                               *)

(* event and the queue, as long as nothing was dropped.                    *)
ButtonOK ==
  IF event.NeedsReport THEN event.NewButton \/ event.OldButton ELSE event.NewButton <=> event.OldButton

QueueOK ==
  ~dropped => ButtonOK /\ Tells(kernel, event.NewButton, finger.down, event.NeedsReport)

(* As long as the session is up the phone has seen the last report told, but for
   the message on its way.                                                    *)
ButtonTold ==
  /\ step \in {"init", "loop", "mic", "decode"} \/ (step = "call" /\ ~IsTouch(cmd))
       => (seen.down <=> event.OldButton)
  /\ step = "mic" => cmd = None
  /\ step = "call" /\ IsTouch(cmd) =>
       /\ cmd.action = "DOWN" => ~seen.down /\ event.OldButton
       /\ cmd.action = "UP" => seen.down /\ ~event.OldButton
       /\ cmd.action = "MOVE" => (seen.down <=> event.OldButton) /\ (event.OldButton \/ dropped)

Behind == ~lost => ButtonTold

LEMMA FoldedFields ==
  ASSUME event \in EventType, NEW ev \in Events
  PROVE  /\ ev.code = "KEY" =>
              /\ Folded(ev, event).NeedsReport
              /\ Folded(ev, event).NewButton <=> ev.value # 0
              /\ Folded(ev, event).OldButton <=> event.OldButton
         /\ ev.code \in {"ABS_X", "ABS_Y"} =>
              /\ Folded(ev, event).NeedsReport
              /\ Folded(ev, event).NewButton <=> event.NewButton
              /\ Folded(ev, event).OldButton <=> event.OldButton
         /\ ev.code = "SYN" =>
              /\ ~Folded(ev, event).NeedsReport
              /\ Folded(ev, event).NewButton <=> event.NewButton
              /\ Folded(ev, event).OldButton <=>
                   IF event.NeedsReport THEN event.NewButton ELSE event.OldButton
<1>1. CASE ev.code = "KEY"
  <2>1. Folded(ev, event) = Changed(event, ev.value # 0, event.X, event.Y)
    BY <1>1, Zenon DEF Folded
  <2>2. /\ Changed(event, ev.value # 0, event.X, event.Y).NeedsReport
        /\ Changed(event, ev.value # 0, event.X, event.Y).NewButton <=> ev.value # 0
        /\ Changed(event, ev.value # 0, event.X, event.Y).OldButton <=> event.OldButton
    BY DEF Changed
  <2> QED BY <1>1, <2>1, <2>2
<1>2. CASE ev.code = "ABS_X"
  BY <1>2 DEF Folded, Changed
<1>3. CASE ev.code = "ABS_Y"
  BY <1>3 DEF Folded, Changed
<1>4. CASE ev.code = "SYN"
  BY <1>4 DEF Folded, Reported, EventType
<1> QED BY <1>1, <1>2, <1>3, <1>4

LEMMA QueueReads ==
  ASSUME TouchTypeOK, QueueOK, NEW m, GetAction(m)
  PROVE  QueueOK'
<1>1. CASE UNCHANGED touchVars
  BY <1>1 DEF touchVars, panel, QueueOK, ButtonOK
<1>2. CASE /\ kernel # <<>> /\ ~dropped
           /\ kernel' = Tail(kernel)
           /\ event' = Folded(Head(kernel), event)
           /\ UNCHANGED <<finger, reports, dropped>>
  <2> DEFINE h == kernel[1]
  <2>1. kernel \in Seq(Events) /\ Head(kernel) = h /\ h \in Events
    BY <1>2, HeadTailProperties DEF TouchTypeOK
  <2>2. event \in EventType
    BY DEF TouchTypeOK, EventType, Columns, Rows
  <2>3. ButtonOK /\ Tells(kernel, event.NewButton, finger.down, event.NeedsReport)
    BY <1>2 DEF QueueOK
  <2>4. event' = Folded(h, event)
    BY <1>2, <2>1
  <2>5. /\ h.code = "KEY" => ~event.NeedsReport /\ ~(h.value # 0 <=> event.NewButton)
        /\ h.code \in {"ABS_X", "ABS_Y"} => event.NewButton
    BY <1>2, <2>1, <2>3, TellsHead
  <2> HIDE DEF h
  <2>6. /\ h.code = "KEY" =>
             event'.NeedsReport /\ (event'.NewButton <=> h.value # 0)
             /\ (event'.OldButton <=> event.OldButton)
        /\ h.code \in {"ABS_X", "ABS_Y"} =>
             event'.NeedsReport /\ (event'.NewButton <=> event.NewButton)
        /\ h.code = "SYN" =>
             /\ ~event'.NeedsReport
             /\ event'.NewButton <=> event.NewButton
             /\ event'.OldButton <=> IF event.NeedsReport THEN event.NewButton ELSE event.OldButton
    BY <2>1, <2>2, <2>4, FoldedFields
  <2>7. h.code \in {"SYN", "KEY", "ABS_X", "ABS_Y"}
    BY <2>1 DEF Events
  <2>8. ButtonOK'
    BY <2>3, <2>5, <2>6, <2>7 DEF ButtonOK
  <2>9. event'.NewButton <=> IF h.code = "KEY" THEN h.value # 0 ELSE event.NewButton
    BY <2>6, <2>7
  <2>10. Tells(Tail(kernel), event'.NewButton, finger.down, event'.NeedsReport)
    BY <1>2, <2>1, <2>3, <2>6, <2>9, TellsTail DEF h
  <2> QED BY <1>2, <2>8, <2>10 DEF QueueOK
<1>3. CASE dropped /\ UNCHANGED dropped
  BY <1>3 DEF QueueOK
<1> QED BY <1>1, <1>2, <1>3 DEF GetAction

LEMMA QueueGrows ==
  ASSUME TouchTypeOK, QueueOK, Touched, UNCHANGED event
  PROVE  QueueOK'
<1>1. PICK now \in Fingers : Moves(now)
  BY DEF Touched, Fingers
<1>2. CASE Len(kernel) + Len(Report(now)) <= QueueLen /\ ~dropped
  <2>1. finger' = now /\ kernel' = kernel \o Report(now) /\ dropped' = dropped
    BY <1>1, <1>2 DEF Moves
  <2>2. ReportShape(now, Report(now))
    BY <1>1, ReportOK DEF Moves
  <2>3. kernel \in Seq(Events) /\ finger \in Fingers
    BY DEF TouchTypeOK, Fingers
  <2>4. ButtonOK /\ Tells(kernel, event.NewButton, finger.down, event.NeedsReport)
    BY <1>2 DEF QueueOK
  <2>5. Tells(kernel \o Report(now), event.NewButton, now.down, event.NeedsReport)
    BY <1>1, <2>2, <2>3, <2>4, TellsMore
  <2> QED BY <2>1, <2>4, <2>5 DEF QueueOK, ButtonOK
<1>3. CASE ~(Len(kernel) + Len(Report(now)) <= QueueLen) \/ dropped
  <2>1. dropped'
    BY <1>1, <1>3 DEF Moves
  <2> QED BY <2>1 DEF QueueOK
<1> QED BY <1>2, <1>3

LEMMA QueueStep == ASSUME TypeOK, QueueOK, [Next]_vars PROVE QueueOK'
<1>1. TouchTypeOK
  BY DEF TypeOK
<1>2. CASE UNCHANGED touchVars
  BY <1>2 DEF touchVars, panel, QueueOK, ButtonOK
<1>3. CASE Touched /\ UNCHANGED event
  BY <1>1, <1>3, QueueGrows
<1>4. ASSUME NEW m \in {None, Message(event)}, GetAction(m) PROVE QueueOK'
  BY <1>1, <1>4, QueueReads
<1> QED BY <1>2, <1>3, <1>4
        DEF Next, Main, Display, Outside, InitOk, InitFails, AsksTouch, TakesCapture, Calls, CallFails,
            Decode, Quits, Byebye, ByebyeCrashes, Joins, DequeuesOutput, Renders, DisplayEnds,
            got_signal, CodecFails, vars

(* What is told of the finger follows what the phone has seen.             *)
LEMMA AsksBehind == ASSUME TypeOK, QueueOK, ButtonTold, AsksTouch PROVE ButtonTold'
<1>1. PICK m \in {None, Message(event)} : GetAction(m) /\ cmd' = m
  BY DEF AsksTouch
<1>2. event \in EventType /\ event.NeedsReport \in BOOLEAN
  BY DEF TypeOK, TouchTypeOK, EventType, Columns, Rows
<1>3. (seen.down <=> event.OldButton) /\ seen' = seen /\ step' \in {"mic", "call"}
      /\ (step' = "mic" => cmd' = None)
  BY DEF AsksTouch, AsksMic, ButtonTold
<1>4. IsTouch(Message(event)) /\ ~IsTouch(None)
  BY <1>2, MessageOK DEF IsTouch
<1>5. dropped' = dropped
  BY <1>1 DEF GetAction, touchVars, panel
<1>6. CASE kernel = <<>> /\ m = None /\ UNCHANGED touchVars
  <2>1. cmd' = None /\ event' = event
    BY <1>1, <1>6 DEF touchVars
  <2>2. ~IsTouch(cmd)'
    BY <1>4, <2>1 DEF IsTouch
  <2> QED BY <1>3, <2>1, <2>2 DEF ButtonTold
<1>7. CASE kernel # <<>> /\ m = Made(Head(kernel), event) /\ event' = Folded(Head(kernel), event)
  <2> DEFINE h == Head(kernel)
  <2>1. h \in Events
    BY <1>7, HeadTailProperties DEF TypeOK, TouchTypeOK
  <2>2. h.code \in {"SYN", "KEY", "ABS_X", "ABS_Y"}
    BY <2>1 DEF Events
  <2>3. event' = Folded(h, event) /\ cmd' = Made(h, event)
    BY <1>1, <1>7
  <2> HIDE DEF h
  <2>4. CASE ~(h.code = "SYN" /\ event.NeedsReport)
    <3>1. cmd' = None
      BY <2>3, <2>4 DEF Made
    <3>2. event'.OldButton <=> event.OldButton
      BY <1>2, <2>1, <2>2, <2>3, <2>4, FoldedFields
    <3>3. ~IsTouch(cmd)'
      BY <1>4, <3>1 DEF IsTouch
    <3> QED BY <1>3, <3>1, <3>2, <3>3 DEF ButtonTold
  <2>5. CASE h.code = "SYN" /\ event.NeedsReport
    <3>1. cmd' = Message(event)
      BY <2>3, <2>5 DEF Made
    <3>2. event'.OldButton <=> event.NewButton
      BY <1>2, <2>1, <2>3, <2>5, FoldedFields
    <3>3. /\ cmd'.action = "DOWN" => event.NewButton /\ ~event.OldButton
          /\ cmd'.action = "UP" => ~event.NewButton /\ event.OldButton
          /\ cmd'.action = "MOVE" => (event.NewButton <=> event.OldButton)
      BY <1>2, <3>1 DEF Message, Action, EventType
    <3>4. ~dropped => event.NewButton \/ event.OldButton
      BY <2>5 DEF QueueOK, ButtonOK
    <3>5. IsTouch(cmd)' /\ cmd' # None
      BY <1>4, <3>1 DEF IsTouch
    <3> QED BY <1>3, <1>5, <3>2, <3>3, <3>4, <3>5 DEF ButtonTold
  <2> QED BY <2>4, <2>5
<1> QED BY <1>1, <1>6, <1>7 DEF GetAction

LEMMA CallsBehind == ASSUME TypeOK, ButtonTold, Calls, ~lost' PROVE ButtonTold'
<1>1. event' = event /\ cmd' = None /\ step' \in {"loop", "decode"}
  BY DEF Calls, touchVars
<1>2. seen.down \in BOOLEAN /\ event.OldButton \in BOOLEAN
  BY DEF TypeOK, TouchTypeOK
<1>3. seen'.down <=> event.OldButton
  <2>1. CASE IsTouch(cmd)
    <3>1. cmd.action \in {"DOWN", "UP", "MOVE"}
      BY <2>1 DEF IsTouch, TypeOK
    <3>2. seen' = Sees(cmd)
      BY <2>1 DEF Calls
    <3> QED BY <1>2, <2>1, <3>1, <3>2 DEF ButtonTold, Calls, Sees
  <2>2. CASE ~IsTouch(cmd)
    BY <2>2 DEF Calls, ButtonTold
  <2> QED BY <2>1, <2>2
<1> QED BY <1>1, <1>3 DEF ButtonTold

LEMMA MicBehind == ASSUME ButtonTold, TakesCapture PROVE ButtonTold'
<1>1. event' = event /\ seen' = seen /\ step = "mic" /\ (seen.down <=> event.OldButton) /\ cmd = None
  BY DEF TakesCapture, touchVars, ButtonTold
<1>2. (step' = "mic" /\ cmd' = None) \/ (step' = "call" /\ cmd' \in {None, MicData})
  BY <1>1 DEF TakesCapture
<1>3. ~IsTouch(cmd)'
  BY <1>2 DEF IsTouch
<1> QED BY <1>1, <1>2, <1>3 DEF ButtonTold

(* The panel and the flags do not touch what ButtonTold is about.          *)
LEMMA OthersBehind ==
  ASSUME ButtonTold, UNCHANGED <<step, cmd, seen>>, event' = event, dropped' \/ dropped' = dropped
  PROVE  ButtonTold'
BY DEF ButtonTold, IsTouch

(* A session that is down is not started again.                            *)
LEMMA LostStays == ASSUME lost, [Next]_vars PROVE lost'
BY DEF Next, Main, Display, Outside, InitOk, InitFails, AsksTouch, TakesCapture, Calls, CallFails, Decode,
       Quits, Byebye, ByebyeCrashes, Joins, DequeuesOutput, Renders, DisplayEnds, got_signal, CodecFails,
       mainVars, vars

LEMMA BehindStep == ASSUME TypeOK, QueueOK, Behind, [Next]_vars PROVE Behind'
<1> SUFFICES ASSUME ~lost' PROVE ButtonTold'
  BY DEF Behind
<1>0. ButtonTold
  BY LostStays DEF Behind
<1> USE <1>0
<1>1. CASE AsksTouch
  BY <1>1, AsksBehind
<1>2. CASE TakesCapture
  BY <1>2, MicBehind
<1>3. CASE Calls
  BY <1>3, CallsBehind
<1>4. CASE InitOk \/ Decode
  <2>1. event' = event /\ seen' = seen /\ step' = "loop" /\ (seen.down <=> event.OldButton)
    BY <1>4 DEF InitOk, Decode, touchVars, ButtonTold
  <2> QED BY <2>1 DEF ButtonTold
<1>5. CASE InitFails \/ CallFails \/ Quits \/ Byebye \/ ByebyeCrashes \/ Joins
  <2>1. step' \in {"byebye", "join", "over"}
    BY <1>5 DEF InitFails, CallFails, Quits, Byebye, ByebyeCrashes, Joins
  <2> QED BY <2>1 DEF ButtonTold
<1>6. CASE Display \/ Outside \/ UNCHANGED vars
  <2>1. UNCHANGED <<step, cmd, seen>> /\ event' = event
    BY <1>6 DEF Display, DequeuesOutput, Renders, DisplayEnds, Outside, got_signal, CodecFails,
                mainVars, touchVars, vars
  <2>2. dropped' \/ dropped' = dropped
    BY <1>6 DEF Display, DequeuesOutput, Renders, DisplayEnds, Outside, Touched, Moves, got_signal,
                CodecFails, touchVars, panel, vars
  <2> QED BY <2>1, <2>2, OthersBehind
<1> QED BY <1>1, <1>2, <1>3, <1>4, <1>5, <1>6 DEF Next, Main

(* The two, of every state.                                                *)
LEMMA QueueAlways == Spec => [](QueueOK /\ Behind)
<1>1. Init => QueueOK /\ Behind
  <2> SUFFICES ASSUME Init PROVE QueueOK /\ Behind
    OBVIOUS
  <2>1. event = [NeedsReport |-> FALSE, NewButton |-> FALSE, OldButton |-> FALSE, X |-> 0, Y |-> 0]
        /\ kernel = <<>> /\ finger.down = FALSE /\ seen.down = FALSE /\ step = "init"
    BY DEF Init, TouchInit
  <2>2. Tells(<<>>, FALSE, FALSE, FALSE)
    <3> DEFINE b == [i \in 0..0 |-> FALSE]
    <3>1. Len(<<>>) = 0
      OBVIOUS
    <3>2. b \in [0..0 -> BOOLEAN] /\ b[0] = FALSE
      OBVIOUS
    <3>3. Follows(<<>>, 0, b, FALSE)
      BY DEF Follows
    <3> QED BY <3>1, <3>2, <3>3 DEF Tells
  <2>3. event.NewButton = FALSE /\ event.OldButton = FALSE /\ event.NeedsReport = FALSE
    BY <2>1
  <2> QED BY <2>1, <2>2, <2>3 DEF QueueOK, ButtonOK, Behind, ButtonTold
<1>2. TypeOK /\ QueueOK /\ Behind /\ [Next]_vars => (QueueOK /\ Behind)'
  BY QueueStep, BehindStep
<1> QED BY <1>1, <1>2, TypeCorrect, PTL DEF Spec

(* In what a session sends to the phone a finger goes down that is up and leaves that is
   down, whatever the kernel drops, and moves while it is down if it drops none. *)
THEOREM GesturesHold == Spec => []Gestures
<1>1. TypeOK /\ Behind => Gestures
  BY DEF TypeOK, TouchTypeOK, Behind, ButtonTold, Gestures
<1> QED BY <1>1, QueueAlways, TypeCorrect, PTL

-----------------------------------------------------------------------------
(* What the queue says of the place.                                       *)

(* All events of s with code c have value v.                               *)
Only(s, c, v) == \A i \in 1..Len(s) : s[i].code = c => s[i].value = v

Lacks(s, c) == \A i \in 1..Len(s) : s[i].code # c

LEMMA ConcatPlaces ==
  ASSUME NEW s \in Seq(Events), NEW t \in Seq(Events), NEW c, NEW v
  PROVE  /\ s \o t \in Seq(Events)
         /\ Only(s, c, v) /\ Only(t, c, v) => Only(s \o t, c, v)
         /\ Lacks(s \o t, c) => Lacks(s, c) /\ Lacks(t, c)
<1> DEFINE m == Len(s)  n == Len(t)  w == s \o t
<1>1. /\ m \in Nat /\ n \in Nat
      /\ w \in Seq(Events) /\ Len(w) = m + n
      /\ \A i \in 1..(m + n) : w[i] = IF i <= m THEN s[i] ELSE t[i - m]
  BY LenProperties, ConcatProperties
<1> HIDE DEF m, n, w
<1>2. ASSUME Only(s, c, v), Only(t, c, v), NEW i \in 1..(m + n), w[i].code = c
      PROVE  w[i].value = v
  <2>1. CASE i <= m
    <3>1. i \in 1..m
      BY <1>1, <2>1
    <3> QED BY <1>1, <1>2, <2>1, <3>1 DEF Only, m
  <2>2. CASE ~(i <= m)
    <3>1. i - m \in 1..n
      BY <1>1, <2>2
    <3> QED BY <1>1, <1>2, <2>2, <3>1 DEF Only, n
  <2> QED BY <2>1, <2>2
<1>3. ASSUME Lacks(w, c) PROVE Lacks(s, c) /\ Lacks(t, c)
  <2>1. ASSUME NEW i \in 1..m PROVE s[i].code # c
    <3>1. i \in 1..(m + n) /\ i <= m
      BY <1>1
    <3> QED BY <1>1, <1>3, <3>1 DEF Lacks
  <2>2. ASSUME NEW i \in 1..n PROVE t[i].code # c
    <3>1. i + m \in 1..(m + n) /\ ~(i + m <= m) /\ (i + m) - m = i
      BY <1>1
    <3> QED BY <1>1, <1>3, <3>1 DEF Lacks
  <2> QED BY <2>1, <2>2 DEF Lacks, m, n
<1>4. Only(s, c, v) /\ Only(t, c, v) => Only(w, c, v)
  BY <1>1, <1>2 DEF Only
<1> QED BY <1>1, <1>3, <1>4 DEF w

(* A place of a report is the new one, and it is left out if it has not changed. *)
LEMMA ReportPlaces ==
  ASSUME TouchTypeOK, NEW now \in Fingers
  PROVE  /\ Only(Report(now), "ABS_X", now.at.x)
         /\ Lacks(Report(now), "ABS_X") => now.at.x = finger.at.x
         /\ Only(Report(now), "ABS_Y", now.at.y)
         /\ Lacks(Report(now), "ABS_Y") => now.at.y = finger.at.y
<1> DEFINE K == KeyPart(now)
           X == AbsPart("ABS_X", finger.at.x, now.at.x)
           Y == AbsPart("ABS_Y", finger.at.y, now.at.y)
           x == now.at.x
           y == now.at.y
<1>1. x \in 0..255 /\ y \in 0..255
  BY PlaceOK DEF Fingers
<1>2. K \in Seq(Events) /\ Only(K, "ABS_X", x) /\ Only(K, "ABS_Y", y)
  <2> DEFINE k == Ev("KEY", IF now.down THEN 1 ELSE 0)
  <2>1. k \in Events /\ k.code = "KEY"
    BY KeyOK
  <2>2. K = <<>> \/ K = <<k>>
    BY DEF KeyPart
  <2> HIDE DEF k, K, x, y
  <2>3. <<k>> \in Seq(Events) /\ Len(<<k>>) = 1 /\ <<k>>[1] = k
    BY <2>1, OneElement
  <2>4. CASE K = <<>>
    BY <2>4, EmptySeq DEF Only
  <2>5. CASE K = <<k>>
    BY <2>1, <2>3, <2>5 DEF Only
  <2> QED BY <2>2, <2>4, <2>5
<1>3. ASSUME NEW c \in {"ABS_X", "ABS_Y"}, NEW old, NEW new \in 0..255
      PROVE  /\ AbsPart(c, old, new) \in Seq(Events)
             /\ Only(AbsPart(c, old, new), c, new)
             /\ \A d \in {"ABS_X", "ABS_Y"} : \A v : d # c => Only(AbsPart(c, old, new), d, v)
             /\ Lacks(AbsPart(c, old, new), c) => new = old
  <2> DEFINE e == Ev(c, new)
  <2>1. e \in Events /\ e.code = c /\ e.value = new
    BY DEF Ev, Events
  <2>2. AbsPart(c, old, new) = IF old = new THEN <<>> ELSE <<e>>
    BY DEF AbsPart
  <2> HIDE DEF e
  <2>3. <<e>> \in Seq(Events) /\ Len(<<e>>) = 1 /\ <<e>>[1] = e
    BY <2>1, OneElement
  <2> QED BY <2>1, <2>2, <2>3, EmptySeq DEF Only, Lacks
<1>4. /\ X \in Seq(Events) /\ Only(X, "ABS_X", x) /\ Only(X, "ABS_Y", y)
      /\ Lacks(X, "ABS_X") => x = finger.at.x
  BY <1>1, <1>3
<1>5. /\ Y \in Seq(Events) /\ Only(Y, "ABS_Y", y) /\ Only(Y, "ABS_X", x)
      /\ Lacks(Y, "ABS_Y") => y = finger.at.y
  BY <1>1, <1>3
<1>6. <<Syn>> \in Seq(Events) /\ Only(<<Syn>>, "ABS_X", x) /\ Only(<<Syn>>, "ABS_Y", y)
  BY SynOK, OneElement DEF Only
<1>7. Report(now) = K \o X \o Y \o <<Syn>>
  BY DEF Report, KeyPart, AbsPart
<1> HIDE DEF K, X, Y, x, y
<1>8. /\ K \o X \in Seq(Events) /\ Only(K \o X, "ABS_X", x) /\ Only(K \o X, "ABS_Y", y)
      /\ Lacks(K \o X, "ABS_X") => Lacks(X, "ABS_X")
  BY <1>2, <1>4, ConcatPlaces
<1>9. /\ K \o X \o Y \in Seq(Events) /\ Only(K \o X \o Y, "ABS_X", x) /\ Only(K \o X \o Y, "ABS_Y", y)
      /\ Lacks(K \o X \o Y, "ABS_X") => Lacks(K \o X, "ABS_X")
      /\ Lacks(K \o X \o Y, "ABS_Y") => Lacks(Y, "ABS_Y")
  BY <1>5, <1>8, ConcatPlaces
<1>10. /\ Only(Report(now), "ABS_X", x) /\ Only(Report(now), "ABS_Y", y)
       /\ Lacks(Report(now), "ABS_X") => Lacks(K \o X \o Y, "ABS_X")
       /\ Lacks(Report(now), "ABS_Y") => Lacks(K \o X \o Y, "ABS_Y")
  BY <1>6, <1>7, <1>9, ConcatPlaces
<1> QED BY <1>4, <1>5, <1>8, <1>9, <1>10 DEF x, y

(* The last event of a code tells the place v, and so does event if none waits. *)
Tracks(k, c, told, v, range) ==
  /\ \A i \in 1..Len(k) : k[i].code = c => k[i].value = v \/ \E j \in (i + 1)..Len(k) : k[j].code = c
  /\ Lacks(k, c) => told = Scaled(v, range)

LEMMA TracksTail ==
  ASSUME NEW k \in Seq(Events), k # <<>>, NEW c, NEW told, NEW v, NEW range, NEW left,
         Tracks(k, c, told, v, range),
         left = IF k[1].code = c THEN Scaled(k[1].value, range) ELSE told
  PROVE  Tracks(Tail(k), c, left, v, range)
<1> DEFINE n == Len(k)
           t == Tail(k)
<1>1. n \in Nat /\ n # 0 /\ Len(t) = n - 1 /\ \A i \in 1..(n - 1) : t[i] = k[i + 1]
  BY LenProperties, EmptySeq, HeadTailProperties
<1> HIDE DEF n, t
<1>2. \A i \in 1..n : k[i].code = c => k[i].value = v \/ \E j \in (i + 1)..n : k[j].code = c
  BY DEF Tracks, n
<1>3. ASSUME NEW i \in 1..(n - 1), t[i].code = c, t[i].value # v
      PROVE  \E j \in (i + 1)..(n - 1) : t[j].code = c
  <2>1. i + 1 \in 1..n /\ t[i] = k[i + 1]
    BY <1>1
  <2>2. PICK j \in ((i + 1) + 1)..n : k[j].code = c
    BY <1>2, <1>3, <2>1
  <2>3. j - 1 \in (i + 1)..(n - 1) /\ j - 1 \in 1..(n - 1) /\ (j - 1) + 1 = j
    BY <1>1, <2>2
  <2>4. t[j - 1].code = c
    BY <1>1, <2>2, <2>3
  <2> QED BY <2>3, <2>4
<1>4. ASSUME Lacks(t, c) PROVE left = Scaled(v, range)
  <2>1. \A j \in 2..n : k[j].code # c
    <3>1. ASSUME NEW j \in 2..n PROVE k[j].code # c
      <4>1. j - 1 \in 1..(n - 1) /\ (j - 1) + 1 = j
        BY <1>1
      <4> QED BY <1>1, <1>4, <4>1 DEF Lacks
    <3> QED BY <3>1
  <2>2. CASE k[1].code = c
    <3>1. 1 \in 1..n /\ 1 + 1 = 2
      BY <1>1
    <3>2. k[1].value = v
      BY <1>2, <2>1, <2>2, <3>1
    <3> QED BY <2>2, <3>2
  <2>3. CASE k[1].code # c
    <3>1. \A j \in 1..n : j = 1 \/ j \in 2..n
      BY <1>1
    <3>2. Lacks(k, c)
      BY <2>1, <2>3, <3>1 DEF Lacks, n
    <3> QED BY <2>3, <3>2 DEF Tracks
  <2> QED BY <2>2, <2>3
<1>5. Tracks(t, c, left, v, range)
  BY <1>1, <1>3, <1>4 DEF Tracks
<1> QED BY <1>5 DEF t

LEMMA TracksMore ==
  ASSUME NEW k \in Seq(Events), NEW R \in Seq(Events), NEW c, NEW told, NEW old, NEW new, NEW range,
         Tracks(k, c, told, old, range), Only(R, c, new), Lacks(R, c) => new = old
  PROVE  Tracks(k \o R, c, told, new, range)
<1> DEFINE n == Len(k)  r == Len(R)  w == k \o R
<1>1. n \in Nat /\ r \in Nat /\ Len(w) = n + r
      /\ \A i \in 1..(n + r) : w[i] = IF i <= n THEN k[i] ELSE R[i - n]
  BY LenProperties, ConcatProperties
<1>2. Lacks(w, c) => Lacks(k, c) /\ Lacks(R, c)
  BY ConcatPlaces
<1> HIDE DEF n, r, w
<1>3. \A i \in 1..r : i + n \in 1..(n + r) /\ w[i + n] = R[i]
  <2>1. ASSUME NEW i \in 1..r PROVE i + n \in 1..(n + r) /\ ~(i + n <= n) /\ (i + n) - n = i
    BY <1>1
  <2> QED BY <1>1, <2>1
<1>4. ASSUME NEW i \in 1..(n + r), w[i].code = c, w[i].value # new
      PROVE  \E j \in (i + 1)..(n + r) : w[j].code = c
  <2>1. CASE ~(i <= n)
    <3>1. i - n \in 1..r /\ w[i] = R[i - n]
      BY <1>1, <2>1
    <3> QED BY <1>4, <3>1 DEF Only, r
  <2>2. CASE i <= n /\ Lacks(R, c)
    <3>1. i \in 1..n /\ w[i] = k[i] /\ new = old
      BY <1>1, <2>2
    <3>2. PICK j \in (i + 1)..n : k[j].code = c
      BY <1>4, <3>1 DEF Tracks, n
    <3>3. j \in (i + 1)..(n + r) /\ j \in 1..(n + r) /\ j <= n
      BY <1>1, <3>2
    <3> QED BY <1>1, <3>2, <3>3
  <2>3. CASE i <= n /\ ~Lacks(R, c)
    <3>1. PICK j \in 1..r : R[j].code = c
      BY <2>3 DEF Lacks, r
    <3>2. j + n \in (i + 1)..(n + r)
      BY <1>1, <2>3
    <3> QED BY <1>3, <3>1, <3>2
  <2> QED BY <2>1, <2>2, <2>3
<1>5. Lacks(w, c) => told = Scaled(new, range)
  BY <1>2 DEF Tracks
<1>6. Tracks(w, c, told, new, range)
  BY <1>1, <1>4, <1>5 DEF Tracks
<1> QED BY <1>6 DEF w

PlaceOfQueue ==
  ~dropped => /\ Tracks(kernel, "ABS_X", event.X, finger.at.x, 800)
              /\ Tracks(kernel, "ABS_Y", event.Y, finger.at.y, 480)

(* The phone was told the place of event, unless that is yet to be told.   *)
PlaceTold ==
  /\ step \in {"init", "loop", "mic", "decode"} \/ (step = "call" /\ ~IsTouch(cmd))
       => event.NeedsReport \/ (seen.X = event.X /\ seen.Y = event.Y)
  /\ step = "call" /\ IsTouch(cmd) => ~event.NeedsReport /\ cmd.X = event.X /\ cmd.Y = event.Y
  /\ step = "mic" => cmd = None

PlaceSeen == ~lost => PlaceTold

LEMMA FoldedPlaces ==
  ASSUME event \in EventType, NEW ev \in Events
  PROVE  /\ Folded(ev, event).X = IF ev.code = "ABS_X" THEN Scaled(ev.value, 800) ELSE event.X
         /\ Folded(ev, event).Y = IF ev.code = "ABS_Y" THEN Scaled(ev.value, 480) ELSE event.Y
<1>1. ev.code \in {"SYN", "KEY", "ABS_X", "ABS_Y"}
  BY DEF Events
<1>2. CASE ev.code = "KEY"
  <2>1. Folded(ev, event) = Changed(event, ev.value # 0, event.X, event.Y)
    BY <1>2, Zenon DEF Folded
  <2>2. \A b : Changed(event, b, event.X, event.Y).X = event.X
               /\ Changed(event, b, event.X, event.Y).Y = event.Y
    BY Zenon DEF Changed
  <2> QED BY <1>2, <2>1, <2>2, Zenon
<1>3. CASE ev.code = "ABS_X"
  BY <1>3 DEF Folded, Changed
<1>4. CASE ev.code = "ABS_Y"
  BY <1>4 DEF Folded, Changed
<1>5. CASE ev.code = "SYN"
  BY <1>5 DEF Folded, Reported, EventType
<1> QED BY <1>1, <1>2, <1>3, <1>4, <1>5

LEMMA PlaceReads ==
  ASSUME TouchTypeOK, PlaceOfQueue, NEW m, GetAction(m)
  PROVE  PlaceOfQueue'
<1>1. CASE UNCHANGED touchVars
  BY <1>1 DEF touchVars, panel, PlaceOfQueue
<1>2. CASE /\ kernel # <<>> /\ ~dropped
           /\ kernel' = Tail(kernel)
           /\ event' = Folded(Head(kernel), event)
           /\ UNCHANGED <<finger, reports, dropped>>
  <2>1. kernel \in Seq(Events) /\ Head(kernel) = kernel[1] /\ kernel[1] \in Events
    BY <1>2, HeadTailProperties DEF TouchTypeOK
  <2>2. event \in EventType
    BY DEF TouchTypeOK, EventType, Columns, Rows
  <2>3. /\ event'.X = IF kernel[1].code = "ABS_X" THEN Scaled(kernel[1].value, 800) ELSE event.X
        /\ event'.Y = IF kernel[1].code = "ABS_Y" THEN Scaled(kernel[1].value, 480) ELSE event.Y
    BY <1>2, <2>1, <2>2, FoldedPlaces
  <2>4. /\ Tracks(Tail(kernel), "ABS_X", event'.X, finger.at.x, 800)
        /\ Tracks(Tail(kernel), "ABS_Y", event'.Y, finger.at.y, 480)
    BY <1>2, <2>1, <2>3, TracksTail DEF PlaceOfQueue
  <2> QED BY <1>2, <2>4 DEF PlaceOfQueue
<1>3. CASE dropped /\ UNCHANGED dropped
  BY <1>3 DEF PlaceOfQueue
<1> QED BY <1>1, <1>2, <1>3 DEF GetAction

LEMMA PlaceGrows ==
  ASSUME TouchTypeOK, PlaceOfQueue, Touched, UNCHANGED event
  PROVE  PlaceOfQueue'
<1>1. PICK now \in Fingers : Moves(now)
  BY DEF Touched, Fingers
<1>2. CASE Len(kernel) + Len(Report(now)) <= QueueLen /\ ~dropped
  <2>1. finger' = now /\ kernel' = kernel \o Report(now) /\ dropped' = dropped
    BY <1>1, <1>2 DEF Moves
  <2>2. Report(now) \in Seq(Events)
    BY <1>1, ReportOK DEF Moves, ReportShape
  <2>3. kernel \in Seq(Events)
    BY DEF TouchTypeOK
  <2>4. /\ Tracks(kernel \o Report(now), "ABS_X", event.X, now.at.x, 800)
        /\ Tracks(kernel \o Report(now), "ABS_Y", event.Y, now.at.y, 480)
    BY <1>2, <2>2, <2>3, ReportPlaces, TracksMore DEF PlaceOfQueue
  <2> QED BY <2>1, <2>4 DEF PlaceOfQueue
<1>3. CASE ~(Len(kernel) + Len(Report(now)) <= QueueLen) \/ dropped
  <2>1. dropped'
    BY <1>1, <1>3 DEF Moves
  <2> QED BY <2>1 DEF PlaceOfQueue
<1> QED BY <1>2, <1>3

LEMMA PlaceStep == ASSUME TypeOK, PlaceOfQueue, [Next]_vars PROVE PlaceOfQueue'
<1>1. TouchTypeOK
  BY DEF TypeOK
<1>2. CASE UNCHANGED touchVars
  BY <1>2 DEF touchVars, panel, PlaceOfQueue
<1>3. CASE Touched /\ UNCHANGED event
  BY <1>1, <1>3, PlaceGrows
<1>4. ASSUME NEW m \in {None, Message(event)}, GetAction(m) PROVE PlaceOfQueue'
  BY <1>1, <1>4, PlaceReads
<1> QED BY <1>2, <1>3, <1>4
        DEF Next, Main, Display, Outside, InitOk, InitFails, AsksTouch, TakesCapture, Calls, CallFails,
            Decode, Quits, Byebye, ByebyeCrashes, Joins, DequeuesOutput, Renders, DisplayEnds,
            got_signal, CodecFails, vars

-----------------------------------------------------------------------------
(* What the phone has seen of the place.                                   *)

LEMMA AsksSeen == ASSUME TypeOK, PlaceTold, AsksTouch PROVE PlaceTold'
<1>1. PICK m \in {None, Message(event)} : GetAction(m) /\ cmd' = m
  BY DEF AsksTouch
<1>2. event \in EventType /\ event.NeedsReport \in BOOLEAN
  BY DEF TypeOK, TouchTypeOK, EventType, Columns, Rows
<1>3. (event.NeedsReport \/ (seen.X = event.X /\ seen.Y = event.Y)) /\ seen' = seen
      /\ step' \in {"mic", "call"} /\ (step' = "mic" => cmd' = None)
  BY DEF AsksTouch, AsksMic, PlaceTold
<1>4. IsTouch(Message(event)) /\ ~IsTouch(None)
  BY <1>2, MessageOK DEF IsTouch
<1>5. CASE kernel = <<>> /\ m = None /\ UNCHANGED touchVars
  <2>1. cmd' = None /\ event' = event
    BY <1>1, <1>5 DEF touchVars
  <2>2. ~IsTouch(cmd)'
    BY <1>4, <2>1 DEF IsTouch
  <2> QED BY <1>3, <2>1, <2>2 DEF PlaceTold
<1>6. CASE kernel # <<>> /\ m = Made(Head(kernel), event) /\ event' = Folded(Head(kernel), event)
  <2> DEFINE h == Head(kernel)
  <2>1. h \in Events /\ h.code \in {"SYN", "KEY", "ABS_X", "ABS_Y"}
    <3>1. h \in Events
      BY <1>6, HeadTailProperties DEF TypeOK, TouchTypeOK
    <3> QED BY <3>1 DEF Events
  <2>2. event' = Folded(h, event) /\ cmd' = Made(h, event)
    BY <1>1, <1>6
  <2> HIDE DEF h
  <2>3. CASE ~(h.code = "SYN" /\ event.NeedsReport)
    <3>1. cmd' = None
      BY <2>2, <2>3 DEF Made
    <3>2. event'.NeedsReport \/ (event' = event /\ ~event.NeedsReport)
      <4>1. h.code # "SYN" => event'.NeedsReport
        BY <1>2, <2>1, <2>2, FoldedFields
      <4>2. h.code = "SYN" => event' = event /\ ~event.NeedsReport
        BY <2>2, <2>3 DEF Folded
      <4> QED BY <4>1, <4>2
    <3>3. ~IsTouch(cmd)'
      BY <1>4, <3>1 DEF IsTouch
    <3> QED BY <1>3, <3>1, <3>2, <3>3 DEF PlaceTold
  <2>4. CASE h.code = "SYN" /\ event.NeedsReport
    <3>1. cmd' = Message(event)
      BY <2>2, <2>4 DEF Made
    <3>2. ~event'.NeedsReport /\ event'.X = event.X /\ event'.Y = event.Y
      BY <1>2, <2>1, <2>2, <2>4, FoldedFields, FoldedPlaces
    <3>3. cmd'.X = event.X /\ cmd'.Y = event.Y
      BY <3>1 DEF Message
    <3>4. IsTouch(cmd)' /\ cmd' # None
      BY <1>4, <3>1 DEF IsTouch
    <3> QED BY <1>3, <3>2, <3>3, <3>4 DEF PlaceTold
  <2> QED BY <2>3, <2>4
<1> QED BY <1>1, <1>5, <1>6 DEF GetAction

LEMMA SeenStep == ASSUME TypeOK, PlaceSeen, [Next]_vars PROVE PlaceSeen'
<1> SUFFICES ASSUME ~lost' PROVE PlaceTold'
  BY DEF PlaceSeen
<1>0. PlaceTold
  BY LostStays DEF PlaceSeen
<1> USE <1>0
<1>1. CASE AsksTouch
  BY <1>1, AsksSeen
<1>2. CASE TakesCapture
  <2>1. event' = event /\ seen' = seen /\ step = "mic" /\ cmd = None
    BY <1>2 DEF TakesCapture, touchVars, PlaceTold
  <2>2. (step' = "mic" /\ cmd' = None) \/ (step' = "call" /\ cmd' \in {None, MicData})
    BY <1>2, <2>1 DEF TakesCapture
  <2>3. ~IsTouch(cmd)'
    BY <2>2 DEF IsTouch
  <2> QED BY <2>1, <2>2, <2>3 DEF PlaceTold
<1>3. CASE Calls
  <2>1. event' = event /\ cmd' = None /\ step' \in {"loop", "decode"} /\ step = "call"
    BY <1>3 DEF Calls, touchVars
  <2>2. event.NeedsReport \/ (seen'.X = event.X /\ seen'.Y = event.Y)
    <3>1. CASE IsTouch(cmd)
      BY <1>3, <2>1, <3>1 DEF Calls, Sees, PlaceTold
    <3>2. CASE ~IsTouch(cmd)
      BY <1>3, <2>1, <3>2 DEF Calls, PlaceTold
    <3> QED BY <3>1, <3>2
  <2> QED BY <2>1, <2>2 DEF PlaceTold
<1>4. CASE InitOk \/ Decode
  <2>1. event' = event /\ seen' = seen /\ step' = "loop"
        /\ (event.NeedsReport \/ (seen.X = event.X /\ seen.Y = event.Y))
    BY <1>4 DEF InitOk, Decode, touchVars, PlaceTold
  <2> QED BY <2>1 DEF PlaceTold
<1>5. CASE InitFails \/ CallFails \/ Quits \/ Byebye \/ ByebyeCrashes \/ Joins
  <2>1. step' \in {"byebye", "join", "over"}
    BY <1>5 DEF InitFails, CallFails, Quits, Byebye, ByebyeCrashes, Joins
  <2> QED BY <2>1 DEF PlaceTold
<1>6. CASE Display \/ Outside \/ UNCHANGED vars
  <2>1. UNCHANGED <<step, cmd, seen>> /\ event' = event
    BY <1>6 DEF Display, DequeuesOutput, Renders, DisplayEnds, Outside, got_signal, CodecFails,
                mainVars, touchVars, vars
  <2> QED BY <2>1 DEF PlaceTold, IsTouch
<1> QED BY <1>1, <1>2, <1>3, <1>4, <1>5, <1>6 DEF Next, Main

LEMMA PlacesAlways == Spec => [](PlaceOfQueue /\ PlaceSeen)
<1>1. Init => PlaceOfQueue /\ PlaceSeen
  <2> SUFFICES ASSUME Init PROVE PlaceOfQueue /\ PlaceSeen
    OBVIOUS
  <2>1. kernel = <<>> /\ step = "init" /\ event.X = 0 /\ event.Y = 0 /\ seen.X = 0 /\ seen.Y = 0
        /\ finger.at.x = 0 /\ finger.at.y = 0
    BY DEF Init, TouchInit
  <2>2. Scaled(0, 800) = 0 /\ Scaled(0, 480) = 0
    BY DEF Scaled
  <2>3. Len(kernel) = 0 /\ 1..0 = {}
    BY <2>1
  <2> QED BY <2>1, <2>2, <2>3 DEF PlaceOfQueue, Tracks, PlaceSeen, PlaceTold
<1>2. TypeOK /\ PlaceOfQueue /\ PlaceSeen /\ [Next]_vars => (PlaceOfQueue /\ PlaceSeen)'
  BY PlaceStep, SeenStep
<1> QED BY <1>1, <1>2, TypeCorrect, PTL DEF Spec

(* Whenever no event waits and no message is under way the phone sees the finger
   as it is, wherever the ticks have gone, unless the kernel has dropped events or
   the session is down: a message that it has taken with it is not told again. *)
THEOREM SettledHolds == Spec => []Settled
<1>1. TypeOK /\ QueueOK /\ Behind /\ PlaceOfQueue /\ PlaceSeen => Settled
  <2> SUFFICES ASSUME TypeOK, QueueOK, Behind, PlaceOfQueue, PlaceSeen,
                      kernel = <<>>, ~dropped, ~lost,
                      step \in {"init", "loop", "mic", "call", "decode"},
                      ~(step = "call" /\ IsTouch(cmd))
               PROVE  Shown
    BY DEF Settled
  <2>1. Len(kernel) = 0 /\ 1..0 = {}
    OBVIOUS
  <2>2. (event.NewButton <=> finger.down) /\ ~event.NeedsReport
    <3>1. PICK b \in [0..Len(kernel) -> BOOLEAN] :
            /\ b[0] <=> event.NewButton
            /\ b[Len(kernel)] <=> finger.down
            /\ Follows(kernel, Len(kernel), b, event.NeedsReport)
      BY DEF QueueOK, Tells
    <3>2. b[0] \in BOOLEAN
      BY <2>1, <3>1
    <3> QED BY <2>1, <3>1, <3>2 DEF Follows
  <2>3. seen.down <=> event.OldButton
    BY DEF Behind, ButtonTold
  <2>4. event.NewButton <=> event.OldButton
    BY <2>2 DEF QueueOK, ButtonOK
  <2>5. seen.X = event.X /\ seen.Y = event.Y
    BY <2>2 DEF PlaceSeen, PlaceTold
  <2>6. event.X = Scaled(finger.at.x, 800) /\ event.Y = Scaled(finger.at.y, 480)
    BY <2>1 DEF PlaceOfQueue, Tracks, Lacks
  <2>7. finger.down \in BOOLEAN /\ seen.down \in BOOLEAN /\ event.NewButton \in BOOLEAN
        /\ event.OldButton \in BOOLEAN
    BY DEF TypeOK, TouchTypeOK
  <2> QED BY <2>2, <2>3, <2>4, <2>5, <2>6, <2>7 DEF Shown
<1> QED BY <1>1, QueueAlways, PlacesAlways, TypeCorrect, PTL

-----------------------------------------------------------------------------
(* The end of the program.                                                 *)

(* What the two threads know of each other.                                *)
EndInv ==
  /\ step = "init" => codec = "none" /\ display = "none" /\ ~gStopDisplayThread
  /\ step \in {"loop", "mic", "call", "decode", "byebye"} =>
       codec \in {"started", "failed"} /\ display \in {"running", "render"} /\ ~gStopDisplayThread
  /\ step = "join" => gStopDisplayThread /\ display \in {"running", "render", "ended"}

(* The main thread waits in two places: for a codec that is full, and for the end
   of the display thread.                                                     *)
MainWaits ==
  \/ step = "decode" /\ codec = "started" /\ frames = NumBuffers
  \/ step = "join" /\ ~Joined

(* The steps that are left of the main thread: of the call that runs, of the tick,
   and of AUTO_exit.                                                          *)
MainLeft ==
  CASE step = "init" -> 11
    [] step = "mic" -> IF reader = "tick" THEN 10 ELSE IF reader = "copy" THEN 9 ELSE 8
    [] step = "call" -> 7
    [] step = "decode" -> 6
    [] step = "loop" -> 5
    [] step = "byebye" -> 4
    [] step = "join" -> 3
    [] step = "over" -> 0

(* The steps of the display thread for which the main thread waits at most.   *)
DisplayLeft ==
  IF gStopDisplayThread
  THEN IF display = "render" THEN 2 ELSE IF display = "running" THEN 1 ELSE 0
  ELSE 2 * frames + (IF display = "running" THEN 1 ELSE 0)

(* What the display thread needs to go on.                                 *)
DisplayGoes ==
  \/ display = "render"
  \/ display = "running" /\ (gStopDisplayThread \/ (codec = "started" /\ frames > 0))

LEMMA EndStep == ASSUME TypeOK, EndInv, [Next]_vars PROVE EndInv'
<1>1. CASE Main
  <2>1. CASE Calls
    <3>1. UNCHANGED <<flags, codecVars, display>> /\ step = "call" /\ step' \in {"loop", "decode"}
      BY <2>1 DEF Calls
    <3> QED BY <3>1 DEF EndInv, flags, codecVars
  <2>2. CASE InitOk
    <3>1. step' = "loop" /\ codec' = "started" /\ display' = "running" /\ UNCHANGED flags /\ step = "init"
      BY <2>2 DEF InitOk
    <3> QED BY <3>1 DEF EndInv, flags
  <2> QED BY <1>1, <2>1, <2>2
          DEF EndInv, Main, InitFails, AsksTouch, TakesCapture, CallFails, Decode, Quits,
              Byebye, ByebyeCrashes, Joins, Joined, flags, codecVars
<1>2. CASE Display
  BY <1>2 DEF EndInv, Display, DequeuesOutput, Renders, DisplayEnds, Stops, mainVars, flags, codecVars
<1>3. CASE Outside
  BY <1>3 DEF EndInv, Outside, got_signal, CodecFails, mainVars, flags, codecVars
<1>4. CASE UNCHANGED vars
  BY <1>4 DEF EndInv, vars, mainVars, flags, codecVars
<1> QED BY <1>1, <1>2, <1>3, <1>4 DEF Next

LEMMA EndAlways == Spec => []EndInv
<1>1. Init => EndInv
  BY DEF Init, EndInv
<1> QED BY <1>1, EndStep, TypeCorrect, PTL DEF Spec

(* Where the main thread waits, the display thread goes on: neither a full codec
   nor the join of AUTO_exit makes the two wait for each other.               *)
NoneWaits == MainWaits => DisplayGoes

THEOREM NoneWaitsHolds == Spec => []NoneWaits
<1>1. TypeOK /\ EndInv => NoneWaits
  BY HeadAssumption DEF HeadAssumption, TypeOK, EndInv, NoneWaits, MainWaits, DisplayGoes, Joined
<1> QED BY <1>1, EndAlways, TypeCorrect, PTL

(* After a signal each step of the main thread brings it nearer to the end of the
   program, in whatever call or tick the signal has met it, and no other step
   takes it further away.  Where it waits it waits for a bounded number of steps
   of the display thread, which only a codec that fails can prolong.          *)
NearerStep ==
  /\ gQuit => /\ gQuit' /\ MainLeft \in Nat
              /\ Main => MainLeft' < MainLeft
              /\ ~Main => MainLeft' = MainLeft
  /\ MainWaits => /\ DisplayLeft \in Nat /\ ~Main
                  /\ Display => DisplayLeft' < DisplayLeft
                  /\ ~Display => DisplayLeft' = DisplayLeft

Nearer == [][NearerStep]_vars

LEMMA MainNearer ==
  ASSUME TypeOK, gQuit, Main
  PROVE  gQuit' /\ MainLeft' < MainLeft
<1>1. gQuit'
  BY DEF Main, InitOk, InitFails, AsksTouch, TakesCapture, Calls, CallFails, Decode, Quits, Byebye,
         ByebyeCrashes, Joins, flags
<1> SUFFICES MainLeft' < MainLeft
  BY <1>1
<1>2. CASE TakesCapture
  <2>1. step = "mic" /\ reader \in {"tick", "copy", "subtract"}
    BY <1>2 DEF TakesCapture, TypeOK, MicTypeOK
  <2>2. CASE step' = "call"
    BY <2>1, <2>2 DEF MainLeft
  <2>3. CASE HasData /\ step' = step
    BY <2>1, <2>3 DEF HasData, MainLeft
  <2>4. CASE Copies /\ step' = step
    BY <2>1, <2>4 DEF Copies, MainLeft
  <2> QED BY <1>2, <2>2, <2>3, <2>4 DEF TakesCapture
<1>3. CASE InitOk \/ InitFails \/ Calls \/ CallFails \/ Decode \/ Quits \/ Byebye \/ ByebyeCrashes \/ Joins
  <2>1. \/ step = "init" /\ step' \in {"loop", "over"}
        \/ step = "call" /\ step' \in {"loop", "decode", "byebye"}
        \/ step = "decode" /\ step' = "loop"
        \/ step = "loop" /\ step' = "byebye"
        \/ step = "byebye" /\ step' \in {"join", "over"}
        \/ step = "join" /\ step' = "over"
    BY <1>3 DEF InitOk, InitFails, Calls, CallFails, Decode, Quits, Byebye, ByebyeCrashes, Joins
  <2> QED BY <2>1 DEF MainLeft
<1> QED BY <1>2, <1>3 DEF Main, AsksTouch

LEMMA OthersNearer ==
  ASSUME Display \/ Outside \/ UNCHANGED vars
  PROVE  UNCHANGED <<step, reader, frames>> \/ (Renders /\ UNCHANGED <<step, reader>>)
BY DEF Display, DequeuesOutput, Renders, DisplayEnds, Outside, Capture, StartsRead, ReadReturns, Stores,
       got_signal, CodecFails, tickVars, micVars, mainVars, codecVars, vars

THEOREM NearerHolds == Spec => Nearer
<1>1. ASSUME TypeOK, EndInv, CodecInv, Next PROVE NearerStep
  <2>1. MainLeft \in Nat
    BY <1>1 DEF TypeOK, MainLeft
  <2>2. frames \in Nat /\ NumBuffers \in Nat \ {0}
    BY <1>1, HeadAssumption DEF HeadAssumption, TypeOK
  <2>3. DisplayLeft \in Nat
    BY <2>2 DEF DisplayLeft
  <2>4. ASSUME ~Main PROVE (gQuit => gQuit') /\ MainLeft' = MainLeft
    <3>1. Display \/ Outside
      BY <1>1, <2>4 DEF Next
    <3>2. gQuit => gQuit'
      BY <3>1 DEF Display, DequeuesOutput, Renders, DisplayEnds, Outside, got_signal, CodecFails, flags
    <3>3. step' = step /\ reader' = reader
      BY <3>1, OthersNearer
    <3> QED BY <3>2, <3>3 DEF MainLeft
  <2>5. ASSUME MainWaits PROVE ~Main
    <3>1. CASE step = "decode" /\ codec = "started" /\ frames = NumBuffers
      BY <2>2, <3>1 DEF Main, InitOk, InitFails, AsksTouch, TakesCapture, Calls, CallFails, Decode, Quits,
                        Byebye, ByebyeCrashes, Joins
    <3>2. CASE step = "join" /\ ~Joined
      BY <3>2 DEF Main, InitOk, InitFails, AsksTouch, TakesCapture, Calls, CallFails, Decode, Quits,
                  Byebye, ByebyeCrashes, Joins
    <3> QED BY <2>5, <3>1, <3>2 DEF MainWaits
  <2>6. ASSUME MainWaits, Display PROVE DisplayLeft' < DisplayLeft
    <3>1. gStopDisplayThread' = gStopDisplayThread /\ codec' = codec
      BY <2>6 DEF Display, DequeuesOutput, Renders, DisplayEnds, flags, codecVars
    <3>2. gStopDisplayThread \/ codec = "started"
      BY <1>1, <2>6 DEF MainWaits, EndInv
    <3>3. CASE DequeuesOutput
      BY <2>2, <3>1, <3>3 DEF DequeuesOutput, DisplayLeft, Stops, codecVars
    <3>4. CASE Renders
      BY <1>1, <2>2, <3>1, <3>2, <3>4 DEF Renders, DisplayLeft, CodecInv
    <3>5. CASE DisplayEnds
      BY <2>2, <3>1, <3>5 DEF DisplayEnds, DisplayLeft, Stops, codecVars
    <3> QED BY <2>6, <3>3, <3>4, <3>5 DEF Display
  <2>7. ASSUME MainWaits, ~Display PROVE DisplayLeft' = DisplayLeft
    <3>1. Outside
      BY <1>1, <2>5, <2>7 DEF Next
    <3>2. UNCHANGED <<gStopDisplayThread, display, frames>>
      BY <3>1 DEF Outside, got_signal, CodecFails, flags, codecVars
    <3> QED BY <3>2 DEF DisplayLeft
  <2> QED BY <1>1, <2>1, <2>3, <2>4, <2>5, <2>6, <2>7, MainNearer DEF NearerStep
<1> QED BY <1>1, EndAlways, Always, PTL DEF Spec, Nearer
=============================================================================
