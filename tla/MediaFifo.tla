------------------------------ MODULE MediaFifo ------------------------------
(***************************************************************************)
(* What the head unit is promised of the audio and of the video ring: a    *)
(* bounded first-in first-out queue of media buffers.  A buffer that finds *)
(* the queue full is dropped; one that was queued is neither lost, changed *)
(* nor overtaken.                                                          *)
(***************************************************************************)
EXTENDS Naturals, Sequences

CONSTANTS
  Frames,     \* the media buffers
  TooBig,     \* those that cannot be queued
  Capacity,   \* how many of them are queued at most
  Nothing,    \* what a reader gets from an empty queue
  Stored,     \* what a writer gets whose buffer was queued
  Refused     \* what a writer gets whose buffer was not

VARIABLES
  queue,      \* the queued buffers, oldest first
  ret         \* what the last call returned

fifoVars == <<queue, ret>>

FifoInit == queue = <<>> /\ ret = Nothing

Put(f) ==
  /\ f \notin TooBig /\ Len(queue) < Capacity
  /\ queue' = Append(queue, f)
  /\ ret' = Stored

Refuse(f) ==
  /\ f \in TooBig \/ Len(queue) = Capacity
  /\ ret' = Refused
  /\ UNCHANGED queue

Get ==
  /\ queue # <<>>
  /\ ret' = Head(queue)
  /\ queue' = Tail(queue)

GetNothing ==
  /\ queue = <<>>
  /\ ret' = Nothing
  /\ UNCHANGED queue

FifoNext == Get \/ GetNothing \/ \E f \in Frames : Put(f) \/ Refuse(f)

FifoSpec == FifoInit /\ [][FifoNext]_fifoVars
=============================================================================
