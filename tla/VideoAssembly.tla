---------------------------- MODULE VideoAssembly ----------------------------
(***************************************************************************)
(* How hu_aap.c puts the video of the phone together: iaap_msg_process     *)
(* picks the messages that are video, iaap_video_process collects the      *)
(* fragments of a unit in assy and hands every complete unit to            *)
(* iaap_video_decode.                                                      *)
(*                                                                         *)
(* The phone sends one unit after the other, in one message or in a first, *)
(* middle ones and a last; messages of other channels come in between.     *)
(* Whenever the session is lost the phone begins anew with another unit;   *)
(* assy and assy_size are not touched then.                                *)
(*                                                                         *)
(* The operators whose comment starts with Mutant are slips of the         *)
(* definition after them that the run must notice; they are not used.      *)
(***************************************************************************)
EXTENDS Naturals, Sequences

CONSTANTS
  MaxFrags,   \* fragments of a unit at most, what the phone fits into 1 MB
  MaxUnits,   \* units the phone sends, a bound of the model
  Others      \* messages of other channels: records of flags and msg_type

ASSUME VideoAssumption ==
  /\ MaxFrags \in Nat \ {0}
  /\ MaxUnits \in Nat
  /\ Others \subseteq [flags : 8..11, msg_type : 0..2]

VARIABLES
  unit,    \* the number of the unit the phone is sending
  frags,   \* how many messages it takes
  next,    \* which of them comes next; frags + 1 after the last
  assy,    \* what assy holds up to assy_size, as a sequence of fragments
  video    \* what was last handed to iaap_video_decode

phone == <<unit, frags, next>>
vars == <<phone, assy, video>>

(* A fragment, by its unit and its place in it; unit 0 is not video.       *)
Fragments == [unit : Nat, part : Nat]

Foreign == [unit |-> 0, part |-> 0]

TypeOK ==
  /\ unit \in 0..MaxUnits
  /\ frags \in 1..MaxFrags
  /\ next \in 1..(MaxFrags + 1) /\ next <= frags + 1
  /\ assy \in Seq(Fragments)
  /\ video \in Seq(Fragments) /\ Len(video) <= MaxFrags

Init ==
  /\ unit = 0 /\ frags = 1 /\ next = 2
  /\ assy = << >>
  /\ video = << >>

-----------------------------------------------------------------------------
(* iaap_msg_process and iaap_video_process.                                *)

(* Mutant: only the channel and the number tell what video is.             *)
TakenByNumber(chan, flags, msg_type) == chan = "VID" /\ msg_type = 0

(* && binds tighter than ||: only the number 0 needs the video channel.  A
   middle or last fragment has data in the place of its number.               *)
TakenForVideo(chan, flags, msg_type) ==
  \/ chan = "VID" /\ msg_type = 0
  \/ msg_type = 1
  \/ flags \in {8, 9, 10}

(* Mutant: a first fragment is added to what is there.                     *)
FirstAppends(f) == assy' = Append(assy, f) /\ UNCHANGED video

(* A first fragment begins the assembly anew.                              *)
FirstFragment(f) == assy' = <<f>> /\ UNCHANGED video

MiddleFragment(f) == assy' = Append(assy, f) /\ UNCHANGED video

(* Mutant: the unit is handed on without its last fragment.                *)
LastNotAdded(f) == assy' = Append(assy, f) /\ video' = assy

(* assy_size is left as it is.                                             *)
LastFragment(f) == assy' = Append(assy, f) /\ video' = assy'

Unfragmented(f) == video' = <<f>> /\ UNCHANGED assy

Ignored == UNCHANGED <<assy, video>>

(* The branches for a message with data f.  startCode: the bytes 0, 0, 0, 1 are
   where an H.264 unit would have them, without which a message that is not
   fragmented and a first fragment are reported as an error.                  *)
Process(flags, startCode, f) ==
  \/ flags = 8 /\ MiddleFragment(f)
  \/ flags = 10 /\ LastFragment(f)
  \/ flags = 9 /\ startCode /\ FirstFragment(f)
  \/ flags = 11 /\ startCode /\ Unfragmented(f)
  \/ flags \in {9, 11} /\ ~startCode /\ Ignored

Message(chan, flags, msg_type, startCode, f) ==
  IF TakenForVideo(chan, flags, msg_type) THEN Process(flags, startCode, f) ELSE Ignored

-----------------------------------------------------------------------------
(* The phone begins its next unit: after the last one, or in a new session. *)
Begin ==
  /\ unit < MaxUnits
  /\ unit' = unit + 1
  /\ frags' \in 1..MaxFrags
  /\ next' = 1
  /\ UNCHANGED <<assy, video>>

(* first + last = 11, first = 9, middle = 8, last = 10                     *)
Flags == IF frags = 1 THEN 11 ELSE IF next = 1 THEN 9 ELSE IF next = frags THEN 10 ELSE 8

(* The numbers of video data are 0 (with a timestamp) and 1; inside a unit there
   may be anything.                                                           *)
VideoMessage ==
  /\ next <= frags
  /\ next' = next + 1
  /\ \E msg_type \in IF next = 1 THEN {0, 1} ELSE {0, 1, 2} :
       Message("VID", Flags, msg_type, TRUE, [unit |-> unit, part |-> next])
  /\ UNCHANGED <<unit, frags>>

(* Messages of other channels that the branches for audio output, before this
   one, do not take; their data looks like anything but video.                *)
OtherMessage ==
  /\ \E m \in Others : Message("other", m.flags, m.msg_type, FALSE, Foreign)
  /\ UNCHANGED phone

Next == Begin \/ VideoMessage \/ OtherMessage

Spec == Init /\ [][Next]_vars

-----------------------------------------------------------------------------
(* The whole unit u, of n fragments.                                       *)
Whole(u, n) == [k \in 1..n |-> [unit |-> u, part |-> k]]

(* Every unit that arrives completely goes to the decoder, with all of its
   fragments in order and with nothing else, and nothing goes there at any other
   time, although nothing resets assy_size when a session ends in the middle of a
   unit or when a unit was handed on.                                         *)
HandStep ==
  IF next = frags /\ next' = frags + 1 /\ unit' = unit
  THEN video' = Whole(unit, frags)
  ELSE video' = video

UnitsHandedWhole == [][HandStep]_vars

(* "Up to 1 megabyte" (hu_aap.c:85): the fragments are added without a look at the
   size of assy, and it holds never more than the largest unit of the phone.  *)
AssemblyFits == Len(assy) <= MaxFrags

(* "If Video..." (hu_aap.c:1079): what iaap_msg_process takes for video, and the
   decoder gets in the end, is video.                                         *)
OnlyVideo == \A k \in 1..Len(video) : video[k].unit > 0
=============================================================================
