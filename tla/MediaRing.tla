------------------------------ MODULE MediaRing ------------------------------
(***************************************************************************)
(* The ring of media buffers of hu_uti.c, which exists twice with the same *)
(* code, for audio and for video, between the decoders of hu_aap.c that    *)
(* fill it and jni_aa_cmd that empties it.                                 *)
(*                                                                         *)
(* Both ends run on the one thread that calls jni_aa_cmd, so the slot that *)
(* a call of the ring returns has been filled, or copied out, before the   *)
(* next call of the ring, and the counting semaphores are always free:     *)
(* getting a slot and copying is one step.                                 *)
(***************************************************************************)
EXTENDS Integers, Sequences

CONSTANTS
  NumBufs,    \* slots of the ring, 16 in hu_uti.c
  Frames,     \* media buffers
  TooBig,     \* those that are larger than a slot
  Nothing,    \* NULL from the reader's call
  Stored,     \* a slot from the writer's call
  Refused     \* NULL from the writer's call

(* The indices are wrapped with the mask NumBufs - 1.                      *)
ASSUME RingAssumption ==
  /\ NumBufs \in Nat \ {0, 1}
  /\ \E k \in 1..NumBufs : NumBufs = 2 ^ k
  /\ TooBig \subseteq Frames

VARIABLES
  buf_tail,   \* the slot written last
  buf_head,   \* the slot read last
  buf_bufs,   \* the contents of the slots
  ret         \* what the last call returned

ringVars == <<buf_tail, buf_head, buf_bufs, ret>>

Slots == 0..(NumBufs - 1)

RingTypeOK ==
  /\ buf_tail \in Slots
  /\ buf_head \in Slots
  /\ buf_bufs \in [Slots -> Frames \cup {Nothing}]
  /\ ret \in Frames \cup {Nothing, Stored, Refused}

RingInit ==
  /\ buf_tail = 0
  /\ buf_head = 0
  /\ buf_bufs = [i \in Slots |-> Nothing]
  /\ ret = Nothing

-----------------------------------------------------------------------------
(* The buffers in the ring.                                                *)
Bufs == LET bufs == buf_tail - buf_head
        IN IF bufs < 0 THEN bufs + NumBufs ELSE bufs

(* Mutant: the index is not masked.                                        *)
StepNotMasked(i) == i + 1

(* An index one further: the mask of NumBufs, a power of two, takes one that
   has left the ring at the upper end back by its length.                     *)
Step(i) == IF i + 1 > NumBufs - 1 THEN i + 1 - NumBufs ELSE i + 1

(* Mutant: a writer may fill the last slot too.                            *)
RoomForAll == Bufs < NumBufs

(* One slot is never used: full and empty would look the same.             *)
HasRoom == Bufs < NumBufs - 1

(* *_write_tail_buf_get, and the memcpy of its caller.                     *)
Write(f) ==
  /\ f \notin TooBig
  /\ HasRoom
  /\ buf_tail' = Step(buf_tail)
  /\ buf_bufs' = [buf_bufs EXCEPT ![Step(buf_tail)] = f]
  /\ ret' = Stored
  /\ UNCHANGED buf_head

(* It returned NULL: the media is dropped.                                 *)
Drop(f) ==
  /\ f \in TooBig \/ ~HasRoom
  /\ ret' = Refused
  /\ UNCHANGED <<buf_tail, buf_head, buf_bufs>>

(* *_read_head_buf_get, and the memcpy of jni_aa_cmd.                      *)
Read ==
  /\ Bufs > 0
  /\ buf_head' = Step(buf_head)
  /\ ret' = buf_bufs[Step(buf_head)]
  /\ UNCHANGED <<buf_tail, buf_bufs>>

ReadNothing ==
  /\ Bufs <= 0
  /\ ret' = Nothing
  /\ UNCHANGED <<buf_tail, buf_head, buf_bufs>>

RingNext == Read \/ ReadNothing \/ \E f \in Frames : Write(f) \/ Drop(f)

RingSpec == RingInit /\ [][RingNext]_ringVars

-----------------------------------------------------------------------------
(* The slot i places behind the head.                                      *)
SlotAt(i) == IF buf_head + i > NumBufs - 1 THEN buf_head + i - NumBufs ELSE buf_head + i

Queued == [i \in 1..Bufs |-> buf_bufs[SlotAt(i)]]

Fifo == INSTANCE MediaFifo WITH queue <- Queued, Capacity <- NumBufs - 1

(* The ring is a first-in first-out queue of NumBufs - 1 buffers: a reader gets
   every buffer that was queued, once, whole and in order, over any number of
   wraps of the two indices, and a buffer is dropped only when it is too big or
   the other slots are all waiting to be read ("Maximum of NUM_aud_buf_BUFS - 1 in progress",
   hu_uti.c:1136).                                                             *)
FifoImplemented == Fifo!FifoSpec
=============================================================================
