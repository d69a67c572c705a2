----------------------------- MODULE MicCapture -----------------------------
(***************************************************************************)
(* The microphone of the head unit (AndroidAutoMic.cpp): audioInputThread  *)
(* captures into gAudioBuff, and the main thread takes the capture out with*)
(* MIC_getData.  No lock and no condition is between them, only the plain  *)
(* int gAudioDataSize: the capture thread waits until it is 0, the main    *)
(* thread until it is not.                                                 *)
(*                                                                         *)
(* A step is a load or a store of gAudioDataSize, or an access to the      *)
(* buffer.  They take effect in program order: each is followed by a call  *)
(* (AudioRecord::read, usleep, gettimeofday) that orders it.               *)
(*                                                                         *)
(* The operators whose comment starts with Mutant are slips of the         *)
(* definition after them that the run must notice; they are not used.      *)
(***************************************************************************)
EXTENDS Integers

CONSTANTS
  BuffSize,     \* AAUTO_MIC_BUFF_SIZE, 1024
  HeadSize,     \* AAUTO_MIC_HEAD_SIZE, 14
  CmdSize,      \* sizeof( cmd_buf ), 2048
  Results,      \* what AudioRecord::read may return: bytes, or an error below 0
  IntLimit,     \* 2^31: an int wraps there
  MaxCaptures   \* captures until the model stops, a bound

ASSUME MicAssumption ==
  /\ BuffSize \in Nat /\ HeadSize \in Nat /\ CmdSize \in Nat
  /\ HeadSize <= BuffSize /\ BuffSize + HeadSize <= CmdSize
  /\ IntLimit \in Nat /\ CmdSize < IntLimit
  /\ Results \subseteq (-IntLimit)..BuffSize
  /\ MaxCaptures \in Nat

VARIABLES
  gAudioDataSize,
  buff,      \* the number of the capture in gAudioBuff; Torn while it is written
  captured,  \* captures with data so far
  size,      \* what the last AudioRecord::read returned
  failed,    \* whether one has returned an error
  writer,    \* the capture thread: "wait", "read" or "store"
  reader,    \* the main thread: "tick", "copy" or "subtract"
  copied,    \* bytes_to_copy
  msg        \* the last microphone message: its capture and its bytes

captureVars == <<gAudioDataSize, buff, captured, size, failed, writer>>
tickVars == <<reader, copied, msg>>
micVars == <<captureVars, tickVars>>

Torn == -1

Ints == (-IntLimit)..(IntLimit - 1)

(* Arithmetic of int.                                                      *)
Wrapped(n) == ((n + IntLimit) % (2 * IntLimit)) - IntLimit

MicTypeOK ==
  /\ gAudioDataSize \in Ints
  /\ buff \in -1..MaxCaptures
  /\ captured \in 0..MaxCaptures
  /\ size \in Ints
  /\ failed \in BOOLEAN
  /\ writer \in {"wait", "read", "store"}
  /\ reader \in {"tick", "copy", "subtract"}
  /\ copied \in 0..CmdSize
  /\ msg \in [cap : -1..MaxCaptures, bytes : 0..CmdSize]

MicInit ==
  /\ gAudioDataSize = 0
  /\ buff = 0 /\ captured = 0 /\ size = 0 /\ failed = FALSE
  /\ writer = "wait"
  /\ reader = "tick" /\ copied = 0
  /\ msg = [cap |-> 0, bytes |-> 0]

-----------------------------------------------------------------------------
(* audioInputThread                                                        *)

(* Mutant: the capture thread does not wait for the main thread.           *)
AlwaysFree == gAudioDataSize >= 0

Free == gAudioDataSize = 0

StartsRead ==
  /\ writer = "wait" /\ Free /\ captured < MaxCaptures
  /\ writer' = "read"
  /\ buff' = Torn
  /\ UNCHANGED <<gAudioDataSize, captured, size, failed, tickVars>>

(* AudioRecord::read returns n.  With no data there is no capture, and the
   buffer is read again.  An error is stored like a size.                     *)
ReadReturns(n) ==
  /\ writer = "read"
  /\ writer' = "store"
  /\ captured' = IF n > 0 THEN captured + 1 ELSE captured
  /\ buff' = IF n > 0 THEN captured + 1 ELSE buff
  /\ size' = n
  /\ failed' = (failed \/ n < 0)
  /\ UNCHANGED <<gAudioDataSize, tickVars>>

Stores ==
  /\ writer = "store"
  /\ gAudioDataSize' = size
  /\ writer' = "wait"
  /\ UNCHANGED <<buff, captured, size, failed, tickVars>>

-----------------------------------------------------------------------------
(* MIC_getData                                                             *)

(* bytes_to_copy for a capture of n bytes.  The comparison is one of unsigned
   numbers, where a negative n is larger than any size.                       *)
ToCopy(n) ==
  LET m == IF n \in 0..CmdSize THEN n ELSE CmdSize
  IN IF m > CmdSize - HeadSize THEN m - HeadSize ELSE m

NoData ==
  /\ reader = "tick" /\ gAudioDataSize = 0
  /\ UNCHANGED micVars

HasData ==
  /\ reader = "tick" /\ gAudioDataSize # 0
  /\ reader' = "copy"
  /\ copied' = ToCopy(gAudioDataSize)
  /\ UNCHANGED <<captureVars, msg>>

Copies ==
  /\ reader = "copy"
  /\ msg' = [cap |-> buff, bytes |-> copied]
  /\ reader' = "subtract"
  /\ UNCHANGED <<captureVars, copied>>

(* Mutant: an int that does not wrap.                                      *)
LeftUnwrapped(n, m) == n - m

Left(n, m) == Wrapped(n - m)

Subtracts ==
  /\ reader = "subtract"
  /\ gAudioDataSize' = Left(gAudioDataSize, copied)
  /\ reader' = "tick"
  /\ UNCHANGED <<buff, captured, size, failed, writer, copied, msg>>

Capture == StartsRead \/ Stores \/ \E n \in Results : ReadReturns(n)

GetData == NoData \/ HasData \/ Copies \/ Subtracts

MicNext == Capture \/ GetData

MicSpec == MicInit /\ [][MicNext]_micVars

-----------------------------------------------------------------------------
(* gAudioBuff and gAudioDataSize are shared without a lock: still every capture
   is sent, whole, exactly once and in order, and never while it is written, as
   long as no AudioRecord::read has failed.                                   *)
MicStep == msg' # msg /\ ~failed => msg' = [cap |-> msg.cap + 1, bytes |-> size]

HandedOver == [][MicStep]_micVars
=============================================================================
