--------------------------- MODULE VideoPathProof ---------------------------
(***************************************************************************)
(* The way of the video, for units of any number of fragments, any number  *)
(* of units and of lost sessions, and every size of the ring: the ring is  *)
(* a FIFO queue, the decoder gets every unit whole, and what waits for the *)
(* application are whole units in the order of the phone, as long as the   *)
(* messages of other channels are not taken for video.                     *)
(*                                                                         *)
(* The ring and the assembly are proved apart; their composition is shown  *)
(* to be a behaviour of each, and only the order of the units, which is    *)
(* about both, needs an invariant of its own.                              *)
(***************************************************************************)
EXTENDS VideoPath, SequenceTheorems, TLAPS

-----------------------------------------------------------------------------
(* The ring.                                                               *)

Data == Frames \cup {Nothing}

LEMMA RingInitType == RingInit => RingTypeOK
BY RingAssumption DEF RingInit, RingTypeOK, Slots

LEMMA RingNextType == RingTypeOK /\ [RingNext]_ringVars => RingTypeOK'
<1> SUFFICES ASSUME RingTypeOK, [RingNext]_ringVars PROVE RingTypeOK'
  OBVIOUS
<1> USE RingAssumption DEF RingTypeOK, Slots, Step
<1>1. CASE Read
  BY <1>1 DEF Read
<1>2. CASE ReadNothing
  BY <1>2 DEF ReadNothing
<1>3. ASSUME NEW f \in Frames, Write(f) PROVE RingTypeOK'
  BY <1>3 DEF Write
<1>4. ASSUME NEW f \in Frames, Drop(f) PROVE RingTypeOK'
  BY <1>4 DEF Drop
<1>5. CASE UNCHANGED ringVars
  BY <1>5 DEF ringVars
<1> QED BY <1>1, <1>2, <1>3, <1>4, <1>5 DEF RingNext

(* Both indices stay inside the ring, whatever order it is filled and emptied in. *)
THEOREM RingTypeCorrect == RingSpec => []RingTypeOK
BY RingInitType, RingNextType, PTL DEF RingSpec

-----------------------------------------------------------------------------
(* The arithmetic of the indices.                                          *)

LEMMA BufsRange == RingTypeOK => Bufs \in 0..(NumBufs - 1)
BY RingAssumption DEF RingTypeOK, Slots, Bufs

LEMMA SlotRange == ASSUME RingTypeOK, NEW i \in 1..Bufs PROVE SlotAt(i) \in Slots
BY RingAssumption, BufsRange DEF RingTypeOK, Slots, SlotAt

QueuedOK == Queued \in Seq(Data) /\ Len(Queued) = Bufs

LEMMA QueuedSeq == RingTypeOK => QueuedOK
<1> SUFFICES ASSUME RingTypeOK PROVE QueuedOK
  OBVIOUS
<1>1. Bufs \in Nat
  BY BufsRange, RingAssumption
<1>2. \A i \in 1..Bufs : buf_bufs[SlotAt(i)] \in Data
  BY SlotRange DEF RingTypeOK, Data
<1> HIDE DEF Bufs, SlotAt
<1> QED BY <1>1, <1>2 DEF Queued, QueuedOK

LEMMA NextQueuedSeq == RingTypeOK' => QueuedOK'
BY QueuedSeq, PTL

-----------------------------------------------------------------------------
(* One lemma per action of the ring: what it does to the abstract queue.   *)

LEMMA WriteAppends ==
  ASSUME RingTypeOK, RingTypeOK', NEW f \in Frames, Write(f) PROVE Queued' = Append(Queued, f)
<1>1. Bufs' = Bufs + 1
  BY RingAssumption DEF Write, Bufs, HasRoom, Step, RingTypeOK, Slots
<1>2. SlotAt(Bufs)' = Step(buf_tail)
  BY RingAssumption DEF Write, Bufs, SlotAt, Step, RingTypeOK, Slots
<1>3. Queued'[Bufs + 1] = f
  <2>1. Bufs + 1 \in 1..Bufs'
    BY <1>1, BufsRange, RingAssumption
  <2>2. Queued'[Bufs'] = buf_bufs'[SlotAt(Bufs)']
    BY <2>1, <1>1 DEF Queued
  <2> QED BY <1>1, <1>2, <2>2, RingAssumption DEF Write, RingTypeOK, Slots, Step
<1>4. ASSUME NEW i \in 1..Bufs PROVE Queued'[i] = Queued[i]
  <2>1. i \in 1..Bufs'
    BY <1>1, BufsRange, RingAssumption
  <2>2. SlotAt(i)' = SlotAt(i) /\ SlotAt(i) # Step(buf_tail) /\ SlotAt(i) \in Slots
    BY RingAssumption DEF Write, Bufs, HasRoom, SlotAt, Step, RingTypeOK, Slots
  <2>3. buf_bufs'[SlotAt(i)] = buf_bufs[SlotAt(i)]
    BY <2>2 DEF Write, RingTypeOK
  <2>4. Queued'[i] = buf_bufs'[SlotAt(i)'] /\ Queued[i] = buf_bufs[SlotAt(i)]
    BY <2>1 DEF Queued
  <2> QED BY <2>2, <2>3, <2>4
<1>5. Queued \in Seq(Data) /\ Len(Queued) = Bufs /\ Queued' \in Seq(Data) /\ Len(Queued') = Bufs'
  BY QueuedSeq, NextQueuedSeq DEF QueuedOK
<1>6. Append(Queued, f) \in Seq(Data) /\ Len(Append(Queued, f)) = Bufs + 1
  BY <1>5 DEF Data
<1>7. \A i \in 1..(Bufs + 1) : Append(Queued, f)[i] = IF i = Bufs + 1 THEN f ELSE Queued[i]
  BY <1>5, BufsRange, RingAssumption
<1> QED
  <2>1. \A i \in 1..Len(Queued') : Queued'[i] = Append(Queued, f)[i]
    BY <1>1, <1>3, <1>4, <1>5, <1>7, BufsRange, RingAssumption
  <2> HIDE DEF Queued, Bufs
  <2> QED BY <1>1, <1>5, <1>6, <2>1, SeqEqual

LEMMA ReadTakesHead ==
  ASSUME RingTypeOK, RingTypeOK', Read
  PROVE  Queued # <<>> /\ ret' = Head(Queued) /\ Queued' = Tail(Queued)
<1>1. Bufs' = Bufs - 1 /\ Bufs > 0
  BY RingAssumption DEF Read, Bufs, Step, RingTypeOK, Slots
<1>2. Queued \in Seq(Data) /\ Len(Queued) = Bufs /\ Queued' \in Seq(Data) /\ Len(Queued') = Bufs'
  BY QueuedSeq, NextQueuedSeq DEF QueuedOK
<1>3. Queued # <<>>
  BY <1>1, <1>2
<1>4. ret' = Queued[1]
  <2>1. SlotAt(1) = Step(buf_head)
    BY RingAssumption DEF SlotAt, Step, RingTypeOK, Slots
  <2>2. 1 \in 1..Bufs
    BY <1>1, BufsRange, RingAssumption
  <2> QED BY <2>1, <2>2 DEF Read, Queued
<1>5. ASSUME NEW i \in 1..Bufs' PROVE Queued'[i] = Queued[i + 1]
  <2>1. i + 1 \in 1..Bufs
    BY <1>1, BufsRange, RingAssumption
  <2>2. SlotAt(i)' = SlotAt(i + 1)
    BY <2>1, RingAssumption DEF Read, Bufs, SlotAt, Step, RingTypeOK, Slots
  <2> QED BY <2>1, <2>2 DEF Read, Queued
<1>6. /\ Tail(Queued) \in Seq(Data)
      /\ Len(Tail(Queued)) = Bufs - 1
      /\ \A i \in 1..(Bufs - 1) : Tail(Queued)[i] = Queued[i + 1]
  BY <1>2, <1>3, HeadTailProperties
<1>7. Queued' = Tail(Queued)
  <2>1. \A i \in 1..Len(Queued') : Queued'[i] = Tail(Queued)[i]
    BY <1>1, <1>2, <1>5, <1>6
  <2> HIDE DEF Queued, Bufs
  <2> QED BY <1>1, <1>2, <1>6, <2>1, SeqEqual
<1> QED BY <1>3, <1>4, <1>7

LEMMA RingStepImplements == RingTypeOK /\ RingTypeOK' /\ [RingNext]_ringVars => [Fifo!FifoNext]_(Fifo!fifoVars)
<1> SUFFICES ASSUME RingTypeOK, RingTypeOK', [RingNext]_ringVars
             PROVE Fifo!FifoNext \/ UNCHANGED Fifo!fifoVars
  OBVIOUS
<1>1. CASE Read
  BY <1>1, ReadTakesHead DEF Fifo!FifoNext, Fifo!Get
<1>2. CASE ReadNothing
  <2>1. Queued' = Queued
    BY <1>2 DEF ReadNothing, Queued, Bufs, SlotAt
  <2>2. Queued = <<>>
    BY <1>2, BufsRange, QueuedSeq, RingAssumption DEF ReadNothing, QueuedOK
  <2> QED BY <1>2, <2>1, <2>2 DEF ReadNothing, Fifo!FifoNext, Fifo!GetNothing
<1>3. ASSUME NEW f \in Frames, Write(f) PROVE Fifo!FifoNext
  <2>1. Len(Queued) < NumBufs - 1
    BY <1>3, QueuedSeq DEF Write, HasRoom, QueuedOK
  <2> QED BY <1>3, <2>1, WriteAppends DEF Write, Fifo!FifoNext, Fifo!Put
<1>4. ASSUME NEW f \in Frames, Drop(f) PROVE Fifo!FifoNext
  <2>1. Queued' = Queued
    BY <1>4 DEF Drop, Queued, Bufs, SlotAt
  <2>2. f \in TooBig \/ Len(Queued) = NumBufs - 1
    BY <1>4, QueuedSeq, BufsRange, RingAssumption DEF Drop, HasRoom, QueuedOK
  <2> QED BY <1>4, <2>1, <2>2 DEF Drop, Fifo!FifoNext, Fifo!Refuse
<1>5. CASE UNCHANGED ringVars
  BY <1>5 DEF ringVars, Fifo!fifoVars, Queued, Bufs, SlotAt
<1> QED BY <1>1, <1>2, <1>3, <1>4, <1>5 DEF RingNext

(* Every behaviour of the ring is one of a bounded first-in first-out queue:
   no buffer overwritten before it is read, none returned twice or out of order,
   none refused while a slot is free.                                         *)
THEOREM RingImplementsFifo == RingSpec => FifoImplemented
<1>1. RingInit => Fifo!FifoInit
  <2> SUFFICES ASSUME RingInit PROVE Fifo!FifoInit
    OBVIOUS
  <2>1. Bufs = 0
    BY DEF RingInit, Bufs
  <2>2. Queued = <<>>
    BY <2>1, RingInitType, QueuedSeq DEF QueuedOK
  <2> QED BY <2>2 DEF RingInit, Fifo!FifoInit
<1> QED BY <1>1, RingInitType, RingNextType, RingStepImplements, PTL DEF RingSpec, FifoImplemented, Fifo!FifoSpec

-----------------------------------------------------------------------------
(* The assembly.  assy_size is never reset, so what assy holds between two units
   says nothing: the invariant speaks of it only inside a unit.               *)

(* No message of another channel looks like video to iaap_msg_process.     *)
OthersTold == \A m \in Others : ~TakenForVideo("other", m.flags, m.msg_type)

InsideUnit == 1 < next /\ next <= frags

IInv ==
  /\ TypeOK
  /\ AssemblyFits
  /\ next <= frags => unit > 0
  /\ InsideUnit => assy = Whole(unit, next - 1)

Piece == [unit |-> unit, part |-> next]

(* What Whole builds is a sequence of fragments of the length asked for.   *)
LEMMA WholeSeq ==
  ASSUME NEW u \in Nat, NEW n \in Nat
  PROVE  Whole(u, n) \in Seq(Fragments) /\ Len(Whole(u, n)) = n
<1>1. \A k \in 1..n : [unit |-> u, part |-> k] \in Fragments
  BY DEF Fragments
<1> QED
  BY <1>1 DEF Whole

(* Adding the next fragment to the first n makes the first n + 1.          *)
LEMMA WholeAppend ==
  ASSUME NEW u \in Nat, NEW n \in Nat
  PROVE  Append(Whole(u, n), [unit |-> u, part |-> n + 1]) = Whole(u, n + 1)
<1> DEFINE f == [unit |-> u, part |-> n + 1]
           s == Append(Whole(u, n), f)
<1>1. f \in Fragments
  BY DEF Fragments
<1>2. s \in Seq(Fragments) /\ Len(s) = n + 1
  BY <1>1, WholeSeq
<1>3. \A k \in 1..(n + 1) : s[k] = Whole(u, n + 1)[k]
  BY <1>1, WholeSeq DEF Whole
<1>4. Whole(u, n + 1) \in Seq(Fragments) /\ Len(Whole(u, n + 1)) = n + 1
  BY WholeSeq
<1> QED
  BY <1>2, <1>3, <1>4, SeqEqual

(* A unit of one fragment.                                                 *)
LEMMA WholeOne ==
  ASSUME NEW u \in Nat
  PROVE  <<[unit |-> u, part |-> 1]>> = Whole(u, 1)
<1>1. \A k \in 1..1 : <<[unit |-> u, part |-> 1]>>[k] = Whole(u, 1)[k]
  BY DEF Whole
<1>2. [unit |-> u, part |-> 1] \in Fragments
  BY DEF Fragments
<1>3. /\ <<[unit |-> u, part |-> 1]>> \in Seq(Fragments)
      /\ Len(<<[unit |-> u, part |-> 1]>>) = 1
  BY <1>2
<1>4. Whole(u, 1) \in Seq(Fragments) /\ Len(Whole(u, 1)) = 1
  BY WholeSeq
<1> QED
  BY <1>1, <1>3, <1>4, SeqEqual

(* Nothing is received yet.                                                *)
LEMMA InitIInv == Init => IInv
BY VideoAssumption DEF Init, IInv, TypeOK, AssemblyFits, InsideUnit, Fragments

(* What a message of the unit does, by its place in the unit.              *)
LEMMA Collects ==
  ASSUME IInv, VideoMessage
  PROVE  /\ next \in 1..frags /\ next' = next + 1
         /\ UNCHANGED <<unit, frags>>
         /\ next < frags => assy' = Whole(unit, next) /\ UNCHANGED video
         /\ next = frags => video' = Whole(unit, frags)
         /\ next = frags => assy' = assy \/ assy' = Whole(unit, frags)
<1> DEFINE n == next
<1>1. /\ next \in Nat /\ frags \in Nat /\ unit \in Nat
      /\ 1 <= next /\ next <= frags /\ next' = next + 1
      /\ UNCHANGED <<unit, frags>>
  BY VideoAssumption DEF VideoMessage, IInv, TypeOK
<1>2. PICK msg_type \in {0, 1, 2} :
        /\ n = 1 => msg_type \in {0, 1}
        /\ Message("VID", Flags, msg_type, TRUE, Piece)
  BY DEF VideoMessage, Piece
<1>3. TakenForVideo("VID", Flags, msg_type)
  BY <1>1, <1>2 DEF TakenForVideo, Flags
<1>4. Process(Flags, TRUE, Piece)
  BY <1>2, <1>3 DEF Message
<1>5. CASE frags = 1
  <2>1. Unfragmented(Piece)
    BY <1>4, <1>5 DEF Process, Flags
  <2>2. n = 1 /\ Piece = [unit |-> unit, part |-> 1]
    BY <1>1, <1>5 DEF Piece
  <2> QED
    BY <1>1, <1>5, <2>1, <2>2, WholeOne DEF Unfragmented
<1>6. CASE frags # 1 /\ n = 1
  <2>1. FirstFragment(Piece)
    BY <1>4, <1>6 DEF Process, Flags
  <2>2. Piece = [unit |-> unit, part |-> 1]
    BY <1>6 DEF Piece
  <2> QED
    BY <1>1, <1>6, <2>1, <2>2, WholeOne DEF FirstFragment
<1>7. CASE frags # 1 /\ n # 1
  <2>1. assy = Whole(unit, n - 1)
    BY <1>1, <1>7 DEF IInv, InsideUnit
  <2>2. Append(assy, Piece) = Whole(unit, n)
    <3>1. n - 1 \in Nat /\ (n - 1) + 1 = n
      BY <1>1, <1>7
    <3> QED
      BY <1>1, <2>1, <3>1, WholeAppend DEF Piece
  <2>3. CASE n = frags
    BY <1>1, <1>4, <1>7, <2>2, <2>3 DEF Process, Flags, LastFragment
  <2>4. CASE n # frags
    BY <1>1, <1>4, <1>7, <2>2, <2>4 DEF Process, Flags, MiddleFragment
  <2> QED
    BY <2>3, <2>4
<1> QED
  BY <1>1, <1>5, <1>6, <1>7

(* The messages of other channels leave the assembly alone.                *)
LEMMA OthersIgnored ==
  ASSUME OthersTold, OtherMessage
  PROVE  UNCHANGED vars
BY DEF OthersTold, OtherMessage, Message, Ignored, vars, phone

(* Every step keeps the first next - 1 fragments of the unit in assy.      *)
LEMMA NextIInv ==
  ASSUME OthersTold, IInv, [Next]_vars
  PROVE  IInv'
<1> USE VideoAssumption
<1>1. CASE Begin
  <2>1. ~InsideUnit'
    BY <1>1 DEF Begin, InsideUnit
  <2>2. unit' \in 0..MaxUnits
    BY <1>1 DEF Begin, IInv, TypeOK, VideoAssumption
  <2>3. frags' \in 1..MaxFrags /\ next' = 1
    BY <1>1 DEF Begin
  <2>4. next' \in 1..(MaxFrags + 1) /\ next' <= frags' + 1
    <3>1. 1 \in 1..(MaxFrags + 1)
      BY DEF VideoAssumption
    <3>2. \A n \in 1..MaxFrags : 1 <= n + 1
      BY DEF VideoAssumption
    <3> QED
      BY <2>3, <3>1, <3>2
  <2>5. TypeOK' /\ AssemblyFits'
    BY <1>1, <2>2, <2>3, <2>4 DEF Begin, IInv, TypeOK, AssemblyFits
  <2>6. unit' > 0
    BY <1>1 DEF Begin, IInv, TypeOK
  <2> QED
    BY <2>1, <2>5, <2>6 DEF IInv
<1>2. CASE VideoMessage
  <2>1. /\ next \in 1..frags /\ next' = next + 1
        /\ UNCHANGED <<unit, frags>>
        /\ next < frags => assy' = Whole(unit, next) /\ UNCHANGED video
        /\ next = frags => video' = Whole(unit, frags)
        /\ next = frags => assy' = assy \/ assy' = Whole(unit, frags)
    BY <1>2, Collects
  <2>2. /\ unit \in Nat /\ frags \in Nat /\ frags <= MaxFrags /\ next \in Nat
        /\ assy \in Seq(Fragments) /\ Len(assy) <= MaxFrags
        /\ video \in Seq(Fragments) /\ Len(video) <= MaxFrags
    BY <2>1 DEF IInv, TypeOK, AssemblyFits
  <2>3. assy' \in Seq(Fragments) /\ Len(assy') <= MaxFrags
    BY <2>1, <2>2, WholeSeq
  <2>4. video' \in Seq(Fragments) /\ Len(video') <= MaxFrags
    BY <2>1, <2>2, WholeSeq
  <2>5. InsideUnit' => assy' = Whole(unit, next)
    BY <2>1, <2>2 DEF InsideUnit
  <2>6. next' - 1 = next
    BY <2>1, <2>2
  <2> QED
    BY <2>1, <2>2, <2>3, <2>4, <2>5, <2>6 DEF IInv, TypeOK, AssemblyFits
<1>3. CASE OtherMessage
  BY <1>3, OthersIgnored DEF vars, phone, IInv, TypeOK, AssemblyFits, InsideUnit, Whole
<1>4. CASE UNCHANGED vars
  BY <1>4 DEF vars, phone, IInv, TypeOK, AssemblyFits, InsideUnit, Whole
<1> QED
  BY <1>1, <1>2, <1>3, <1>4 DEF Next

LEMMA IInvAlways ==
  ASSUME OthersTold
  PROVE  Spec => []IInv
<1>1. IInv /\ [Next]_vars => IInv'
  BY NextIInv
<1> QED
  BY InitIInv, <1>1, PTL DEF Spec

(* The assembly buffer, which is written without a look at its size, never holds
   more than one unit of the phone.                                           *)
THEOREM AssemblyFitsHolds ==
  ASSUME OthersTold
  PROVE  Spec => []AssemblyFits
BY IInvAlways, PTL DEF IInv

(* Every unit that arrives completely is handed to the decoder whole, and nothing
   else ever is, also across sessions that end inside a unit.                 *)
THEOREM UnitsAreWhole ==
  ASSUME OthersTold
  PROVE  Spec => UnitsHandedWhole
<1>1. IInv /\ [Next]_vars => [HandStep]_vars
  <2> SUFFICES ASSUME IInv, Next PROVE HandStep
    BY DEF HandStep
  <2>1. CASE Begin
    BY <2>1 DEF Begin, HandStep, IInv, TypeOK
  <2>2. CASE VideoMessage
    <3>1. next \in Nat /\ frags \in Nat
      BY DEF IInv, TypeOK
    <3> QED
      BY <2>2, <3>1, Collects DEF HandStep
  <2>3. CASE OtherMessage
    BY <2>3, OthersIgnored, VideoAssumption DEF HandStep, vars, phone, IInv, TypeOK
  <2> QED
    BY <2>1, <2>2, <2>3 DEF Next
<1> QED
  BY IInvAlways, <1>1, PTL DEF Spec, UnitsHandedWhole

-----------------------------------------------------------------------------
(* The way from one to the other.                                          *)

LEMMA PathIsAssembly == PathSpec => Spec
<1>1. [PathNext]_pathVars => [Next]_vars
  BY DEF PathNext, PathVideo, PathOther, PathRead, pathVars, assembly, vars, Next
<1> QED BY <1>1, PTL DEF PathSpec, PathInit, Spec

(* A unit is completed by its last message only, and is one of the frames. *)
LEMMA Completes ==
  ASSUME IInv, PathVideo, video' # video
  PROVE  /\ next = frags /\ next' = frags + 1 /\ unit' = unit /\ frags' = frags
         /\ unit \in 1..MaxUnits /\ frags \in 1..MaxFrags
         /\ video' = Whole(unit, frags) /\ video' \in Frames
<1>1. /\ next \in 1..frags /\ next' = next + 1
      /\ UNCHANGED <<unit, frags>>
      /\ next < frags => assy' = Whole(unit, next) /\ UNCHANGED video
      /\ next = frags => video' = Whole(unit, frags)
  BY Collects DEF PathVideo
<1>2. unit \in 0..MaxUnits /\ frags \in 1..MaxFrags /\ (next <= frags => unit > 0)
  BY DEF IInv, TypeOK
<1>3. next <= frags /\ ~(next < frags) => next = frags
  BY <1>1, <1>2, VideoAssumption DEF VideoAssumption
<1>4. next = frags
  BY <1>1, <1>2, <1>3, VideoAssumption DEF VideoAssumption
<1>5. unit \in 1..MaxUnits
  BY <1>2, <1>4, VideoAssumption DEF VideoAssumption
<1> QED BY <1>1, <1>2, <1>4, <1>5, UnitsAssumption DEF UnitsAssumption

LEMMA PathStepIsRing == IInv /\ [PathNext]_pathVars => [RingNext]_ringVars
<1> SUFFICES ASSUME IInv, [PathNext]_pathVars PROVE RingNext \/ UNCHANGED ringVars
  OBVIOUS
<1>1. CASE PathVideo
  BY <1>1, Completes DEF PathVideo, Decode, RingNext
<1>2. CASE PathOther \/ PathRead \/ UNCHANGED pathVars
  BY <1>2 DEF PathOther, PathRead, RingNext, pathVars
<1> QED BY <1>1, <1>2 DEF PathNext

LEMMA PathIsRing ==
  ASSUME OthersTold
  PROVE  PathSpec => []IInv /\ RingSpec
<1>1. PathInit => RingInit
  BY DEF PathInit
<1>2. PathSpec => []IInv
  BY IInvAlways, PathIsAssembly, PTL
<1> QED BY <1>1, <1>2, PathStepIsRing, PTL DEF PathSpec, RingSpec

(* Both indices stay inside the ring and what is put together stays a sequence of
   fragments, while the phone and the application go on in any order.         *)
THEOREM TypeCorrect ==
  ASSUME OthersTold
  PROVE  PathSpec => []PathTypeOK
<1>1. IInv /\ RingTypeOK => PathTypeOK
  BY DEF IInv, PathTypeOK
<1> QED BY <1>1, PathIsRing, RingTypeCorrect, PTL

(* The unit a frame is of.                                                 *)
UnitOf(f) == f[1].unit

LEMMA FrameOK ==
  ASSUME NEW f \in Frames
  PROVE  UnitOf(f) \in 1..MaxUnits /\ f = Whole(UnitOf(f), Len(f))
<1>1. PICK u \in 1..MaxUnits, n \in 1..MaxFrags : f = Whole(u, n)
  BY UnitsAssumption DEF UnitsAssumption
<1>2. u \in Nat /\ n \in Nat /\ 1 \in 1..n
  BY <1>1, VideoAssumption DEF VideoAssumption
<1>3. Len(f) = n
  BY <1>1, <1>2, WholeSeq
<1>4. UnitOf(f) = u
  BY <1>1, <1>2 DEF UnitOf, Whole
<1> QED BY <1>1, <1>3, <1>4

(* q is a sequence of units in their order, none later than u, the one the phone
   is at, which is not among them before it is complete.                      *)
InOrder(q, u, sending) ==
  /\ \A i \in 1..Len(q) :
       q[i] \in Frames /\ UnitOf(q[i]) <= u /\ (sending => UnitOf(q[i]) < u)
  /\ \A i, j \in 1..Len(q) : i < j => UnitOf(q[i]) < UnitOf(q[j])

LEMMA OrderAppended ==
  ASSUME NEW q \in Seq(Data), NEW u \in Nat, NEW f \in Frames, InOrder(q, u, TRUE), UnitOf(f) = u
  PROVE  InOrder(Append(q, f), u, FALSE)
<1> DEFINE a == Append(q, f)
<1>1. /\ Len(q) \in Nat /\ Len(a) = Len(q) + 1
      /\ \A i \in 1..(Len(q) + 1) : a[i] = IF i = Len(q) + 1 THEN f ELSE q[i]
  BY LenProperties DEF Data
<1> HIDE DEF a
<1>2. ASSUME NEW i \in 1..Len(a)
      PROVE  a[i] \in Frames /\ UnitOf(a[i]) <= u
  <2>1. CASE i = Len(q) + 1
    BY <1>1, <2>1
  <2>2. CASE i # Len(q) + 1
    <3>1. i \in 1..Len(q) /\ a[i] = q[i]
      BY <1>1, <2>2
    <3> QED BY <3>1 DEF InOrder
  <2> QED BY <2>1, <2>2
<1>3. ASSUME NEW i \in 1..Len(a), NEW j \in 1..Len(a), i < j
      PROVE  UnitOf(a[i]) < UnitOf(a[j])
  <2>1. i \in 1..Len(q) /\ a[i] = q[i]
    BY <1>1, <1>3
  <2>2. CASE j = Len(q) + 1
    BY <1>1, <2>1, <2>2 DEF InOrder
  <2>3. CASE j # Len(q) + 1
    <3>1. j \in 1..Len(q) /\ a[j] = q[j]
      BY <1>1, <2>3
    <3> QED BY <1>3, <2>1, <3>1 DEF InOrder
  <2> QED BY <2>2, <2>3
<1>4. InOrder(a, u, FALSE)
  BY <1>2, <1>3 DEF InOrder
<1> QED BY <1>4 DEF a

LEMMA OrderTail ==
  ASSUME NEW q \in Seq(Data), q # <<>>, NEW u, NEW sending, InOrder(q, u, sending)
  PROVE  InOrder(Tail(q), u, sending)
<1>1. Len(q) \in Nat /\ Len(Tail(q)) = Len(q) - 1 /\ \A i \in 1..(Len(q) - 1) : Tail(q)[i] = q[i + 1]
  BY HeadTailProperties, LenProperties
<1>2. \A i \in 1..(Len(q) - 1) : i + 1 \in 1..Len(q)
  BY <1>1
<1>3. \A i, j \in 1..(Len(q) - 1) : i < j => i + 1 < j + 1
  BY <1>1
<1> QED BY <1>1, <1>2, <1>3 DEF InOrder

(* A unit that begins is a later one.                                      *)
LEMMA OrderLater ==
  ASSUME NEW q \in Seq(Data), NEW u \in Nat, NEW sending, InOrder(q, u, sending)
  PROVE  InOrder(q, u + 1, TRUE) /\ InOrder(q, u, FALSE)
<1>1. ASSUME NEW i \in 1..Len(q) PROVE UnitOf(q[i]) < u + 1 /\ UnitOf(q[i]) <= u + 1
  <2>1. q[i] \in Frames /\ UnitOf(q[i]) <= u
    BY DEF InOrder
  <2>2. UnitOf(q[i]) \in Nat
    BY <2>1, FrameOK, VideoAssumption DEF VideoAssumption
  <2> QED BY <2>1, <2>2
<1> QED BY <1>1 DEF InOrder

PathInv == RingTypeOK /\ IInv

QueueInOrder == InOrder(Queued, unit, next <= frags)

LEMMA QueueStep ==
  ASSUME PathInv, PathInv', QueueInOrder, [PathNext]_pathVars
  PROVE  QueueInOrder'
<1>1. Queued \in Seq(Data) /\ Queued' \in Seq(Data)
  BY QueuedSeq, NextQueuedSeq DEF PathInv, QueuedOK
<1>2. unit \in Nat /\ frags \in Nat /\ next \in Nat
  BY VideoAssumption DEF VideoAssumption, PathInv, IInv, TypeOK
<1>3. ASSUME UNCHANGED ringVars PROVE Queued' = Queued
  BY <1>3 DEF ringVars, Queued, Bufs, SlotAt
<1> HIDE DEF Queued
<1>4. CASE Begin /\ UNCHANGED ringVars
  <2>1. unit' = unit + 1 /\ Queued' = Queued
    BY <1>3, <1>4 DEF Begin
  <2>2. InOrder(Queued, unit + 1, TRUE)
    BY <1>1, <1>2, OrderLater DEF QueueInOrder
  <2> QED BY <2>1, <2>2 DEF QueueInOrder, InOrder
<1>5. CASE PathVideo /\ video' = video
  <2>1. next' = next + 1 /\ unit' = unit /\ frags' = frags /\ Queued' = Queued
    BY <1>3, <1>5 DEF PathVideo, VideoMessage
  <2>2. next' <= frags' => next <= frags
    BY <1>2, <2>1
  <2> QED BY <2>1, <2>2 DEF QueueInOrder, InOrder
<1>6. CASE PathVideo /\ video' # video
  <2>1. /\ next = frags /\ next' = frags + 1 /\ unit' = unit /\ frags' = frags
        /\ frags \in 1..MaxFrags /\ unit \in 1..MaxUnits
        /\ video' = Whole(unit, frags) /\ video' \in Frames
    BY <1>6, Completes DEF PathInv
  <2>2. UnitOf(video') = unit
    <3>1. 1 \in 1..frags
      BY <1>2, <2>1, VideoAssumption DEF VideoAssumption
    <3> QED BY <2>1, <3>1 DEF UnitOf, Whole
  <2>3. next <= frags /\ ~(next' <= frags')
    BY <1>2, <2>1
  <2>4. Queued' = Queued \/ Queued' = Append(Queued, video')
    <3>1. CASE Write(video')
      BY <2>1, <3>1, WriteAppends DEF PathInv
    <3>2. CASE Drop(video')
      <4>1. UNCHANGED <<buf_tail, buf_head, buf_bufs>>
        BY <3>2 DEF Drop
      <4> QED BY <4>1 DEF Queued, Bufs, SlotAt
    <3> QED BY <1>6, <3>1, <3>2 DEF PathVideo, Decode
  <2>5. InOrder(Append(Queued, video'), unit, FALSE)
    <3>1. InOrder(Queued, unit, TRUE)
      BY <2>3 DEF QueueInOrder, InOrder
    <3> QED BY <1>1, <1>2, <2>1, <2>2, <3>1, OrderAppended
  <2>6. InOrder(Queued, unit, FALSE)
    BY <1>1, <1>2, OrderLater DEF QueueInOrder
  <2>7. InOrder(Queued', unit, FALSE)
    BY <2>4, <2>5, <2>6
  <2> QED BY <2>1, <2>3, <2>7 DEF QueueInOrder, InOrder
<1>7. CASE OtherMessage /\ UNCHANGED ringVars
  BY <1>3, <1>7 DEF OtherMessage, phone, QueueInOrder
<1>8. CASE PathRead
  <2>1. UNCHANGED <<unit, frags, next>>
    BY <1>8 DEF PathRead, assembly, phone
  <2>2. CASE Read
    BY <1>1, <2>1, <2>2, ReadTakesHead, OrderTail DEF PathInv, QueueInOrder
  <2>3. CASE ReadNothing
    <3>1. Queued' = Queued
      BY <2>3 DEF ReadNothing, Queued, Bufs, SlotAt
    <3> QED BY <2>1, <3>1 DEF QueueInOrder
  <2> QED BY <1>8, <2>2, <2>3 DEF PathRead
<1>9. CASE UNCHANGED pathVars
  BY <1>3, <1>9 DEF pathVars, assembly, phone, QueueInOrder
<1> QED BY <1>4, <1>5, <1>6, <1>7, <1>8, <1>9 DEF PathNext, PathOther

(* What waits for the application are whole units in the order of the phone,
   whatever was dropped between them and however often the session was lost.  *)
THEOREM QueuedInOrderHolds ==
  ASSUME OthersTold
  PROVE  PathSpec => []QueuedInOrder
<1>1. PathInit => QueueInOrder
  <2> SUFFICES ASSUME PathInit PROVE QueueInOrder
    OBVIOUS
  <2>1. Bufs = 0 /\ RingTypeOK
    BY RingInitType DEF PathInit, RingInit, Bufs
  <2>2. Len(Queued) = 0
    BY <2>1, QueuedSeq DEF QueuedOK
  <2> HIDE DEF Queued
  <2> QED BY <2>2 DEF QueueInOrder, InOrder
<1>2. PathInv /\ QueueInOrder => QueuedInOrder
  <2> SUFFICES ASSUME PathInv, QueueInOrder PROVE QueuedInOrder
    OBVIOUS
  <2>1. Len(Queued) = Bufs
    BY QueuedSeq DEF PathInv, QueuedOK
  <2> HIDE DEF Queued, Bufs
  <2>2. \A i \in 1..Bufs : Queued[i] \in Frames
    BY <2>1 DEF QueueInOrder, InOrder
  <2>3. \A i, j \in 1..Bufs : i < j => UnitOf(Queued[i]) < UnitOf(Queued[j])
    BY <2>1 DEF QueueInOrder, InOrder
  <2>4. \A i \in 1..Bufs : Queued[i] = Whole(UnitOf(Queued[i]), Len(Queued[i]))
    BY <2>2, FrameOK
  <2> QED BY <2>3, <2>4 DEF QueuedInOrder, UnitOf
<1>3. PathInv /\ PathInv' /\ QueueInOrder /\ [PathNext]_pathVars => QueueInOrder'
  BY QueueStep
<1>4. PathSpec => []PathInv
  <2>1. RingTypeOK /\ IInv => PathInv
    BY DEF PathInv
  <2> QED BY <2>1, PathIsRing, RingTypeCorrect, PTL
<1> QED BY <1>1, <1>2, <1>3, <1>4, PTL DEF PathSpec
(* Together they keep what each promises alone: the ring is a FIFO queue of what
   the assembly completes, and the assembly completes whole units only, within
   its buffer.                                                                *)
THEOREM PathKeeps ==
  ASSUME OthersTold
  PROVE  PathSpec => FifoImplemented /\ UnitsHandedWhole /\ []AssemblyFits
BY PathIsAssembly, PathIsRing, RingImplementsFifo, UnitsAreWhole, AssemblyFitsHolds, PTL
=============================================================================
