--------------------------- MODULE AapFramingProof ---------------------------
(***************************************************************************)
(* The receive loop of hu_aap.c, for packets and reads of every length.    *)
(*                                                                         *)
(* What the loop counts is right wherever a read ends, in a header too:    *)
(* the counters keep their ranges, have_len says where the received bytes  *)
(* end, decrypted messages stay behind the packets, and the loop ends.     *)
(* What it finds is right as long as no read ends inside a header          *)
(* (Splits = {}): the second invariant follows one packet through the      *)
(* steps, and where the code looks for it is where it is.                  *)
(***************************************************************************)
EXTENDS AapFraming, TLAPS

(* A packet is 4 or 8 bytes of header and no more than MaxLen others.      *)
LEMMA PacketTypes ==
  ASSUME NEW p \in Packets
  PROVE  p.hdr \in {4, 8} /\ p.len \in 0..MaxLen
BY DEF Packets

-----------------------------------------------------------------------------
(* The counters, whatever the headers are made of.                         *)

Counted ==
  /\ TypeOK
  /\ pc # "idle" => pos + have_len = end /\ dirty <= pos
  /\ pc = "parse" => have_len > 0
  /\ pc = "decrypt" => have_len >= enc_len

LEMMA InitCounted == Init => Counted
BY FramingAssumption DEF Init, Counted, TypeOK, Packets

LEMMA ParseCounted == ASSUME Counted, Parse PROVE Counted'
<1>1. PICK p \in Packets, seen \in Packets :
        /\ pkt' = p
        /\ enc_len' = seen.len
        /\ pos' = pos + Skips(seen)
        /\ have_len' = have_len - Skips(seen)
  BY DEF Parse
<1>2. Skips(seen) \in {4, 8} /\ seen.len \in 0..MaxLen
  BY PacketTypes DEF Skips
<1>3. /\ pc = "parse"
      /\ UNCHANGED <<start, end, dirty>>
      /\ pc' = IF have_len' < enc_len' THEN "fill" ELSE "decrypt"
  BY DEF Parse
<1>4. pos \in Nat /\ have_len \in Nat /\ have_len > 0 /\ dirty \in Nat
  BY <1>3 DEF Counted, TypeOK
<1>5. TypeOK'
  BY <1>1, <1>2, <1>3, <1>4, FramingAssumption DEF Counted, TypeOK
<1>6. pos' + have_len' = end' /\ dirty' <= pos'
  BY <1>1, <1>2, <1>3, <1>4 DEF Counted
<1>7. pc' = "decrypt" => have_len' >= enc_len'
  BY <1>3, <1>5 DEF TypeOK
<1> QED BY <1>3, <1>5, <1>6, <1>7 DEF Counted

LEMMA NextCounted == ASSUME Counted, [Next]_vars PROVE Counted'
<1> USE FramingAssumption DEF Counted, TypeOK
<1>1. CASE Read
  BY <1>1 DEF Read
<1>2. CASE Stops
  BY <1>2 DEF Stops
<1>3. CASE Parse
  BY <1>3, ParseCounted
<1>4. CASE Fill
  BY <1>4 DEF Fill, Need
<1>5. CASE Decrypt
  <2>1. pkt.hdr \in {4, 8} /\ pkt.len \in 0..MaxLen
    BY PacketTypes
  <2> QED BY <1>5, <2>1 DEF Decrypt, More, Advanced
<1>6. CASE UNCHANGED vars
  BY <1>6 DEF vars, world
<1> QED BY <1>1, <1>2, <1>3, <1>4, <1>5, <1>6 DEF Next, ReadTooShort, FillFails, DecryptFails

LEMMA CountedAlways == Spec => []Counted
<1>1. Counted /\ [Next]_vars => Counted'
  BY NextCounted
<1> QED BY InitCounted, <1>1, PTL DEF Spec

(* The counters of the loop stay numbers of bytes of a packet or of a read, and
   have_len goes below zero by less than a header, wherever a read ends.      *)
THEOREM TypeCorrect == Spec => []TypeOK
BY CountedAlways, PTL DEF Counted

(* The decrypted messages, which share the buffer with the received packets,
   never overwrite one that is still to be processed: not even when the loop
   takes old bytes for a header.                                              *)
THEOREM NothingOverwritten == Spec => []NextUntouched
<1>1. Counted => NextUntouched
  BY DEF Counted, NextUntouched
<1> QED BY CountedAlways, <1>1, PTL

(* The rest of a packet lands right behind the received bytes, wherever a read
   ends: the part of BytesAccounted that does not depend on the headers.      *)
THEOREM EndKnown == Spec => [](pc # "idle" => pos + have_len = end)
<1>1. Counted => (pc # "idle" => pos + have_len = end)
  BY DEF Counted
<1> QED BY CountedAlways, <1>1, PTL

-----------------------------------------------------------------------------
(* The end of the loop.                                                    *)

(* How many steps the loop may still take: at most three for every byte left. *)
StepsLeft ==
  CASE pc = "idle" -> 0
    [] pc = "parse" -> 3 * have_len
    [] pc = "fill" -> 2
    [] pc = "decrypt" -> 3 * (have_len - enc_len) + 1

LEMMA LeftNat == ASSUME Counted PROVE StepsLeft \in Nat
BY DEF Counted, TypeOK, StepsLeft

LEMMA StepEnds == ASSUME Counted, Counted', Next, pc # "idle" PROVE StepsLeft' < StepsLeft
<1> USE FramingAssumption DEF Counted, TypeOK, StepsLeft
<1>1. CASE Stops
  BY <1>1 DEF Stops
<1>2. CASE Parse
  <2>1. PICK seen \in Packets : have_len' = have_len - Skips(seen)
    BY <1>2 DEF Parse
  <2>2. Skips(seen) \in {4, 8}
    BY PacketTypes DEF Skips
  <2>3. pc' \in {"fill", "decrypt"} /\ pc = "parse"
    BY <1>2 DEF Parse
  <2> QED BY <2>1, <2>2, <2>3
<1>3. CASE Fill
  BY <1>3 DEF Fill
<1>4. CASE Decrypt
  BY <1>4 DEF Decrypt, More
<1> QED BY <1>1, <1>2, <1>3, <1>4 DEF Next, Read, ReadTooShort, FillFails, DecryptFails

(* A poll ends whatever the phone sends, wherever a read ends and whatever the
   headers are made of: each step of the loop takes off a number that is not
   negative.                                                                  *)
LoopEnds == [][pc # "idle" => StepsLeft \in Nat /\ StepsLeft' < StepsLeft]_vars

THEOREM LoopEndsHolds == Spec => LoopEnds
<1>1. Counted /\ Counted' /\ [Next]_vars => [pc # "idle" => StepsLeft \in Nat /\ StepsLeft' < StepsLeft]_vars
  BY LeftNat, StepEnds
<1> QED BY <1>1, CountedAlways, PTL DEF Spec, LoopEnds

-----------------------------------------------------------------------------
(* What the loop finds, if no read ends inside a header.                   *)

(* What Parse leaves behind: the packet was found, with its true length, and it
   does not end 1 to 3 bytes before the received bytes do.                    *)
Found ==
  /\ pos = start + pkt.hdr
  /\ enc_len = pkt.len
  /\ end - (start + pkt.hdr + pkt.len) \notin 1..3

Placed ==
  /\ BytesAccounted
  /\ pc = "parse" => pos = start /\ have_len >= 4
  /\ pc \in {"fill", "decrypt"} => Found

LEMMA InitPlaced == Init => Placed
BY DEF Init, Placed, BytesAccounted

(* Each step of the loop takes the packet to the form the next one relies on. *)
LEMMA NextPlaced ==
  ASSUME Splits = {}, Counted, Placed, [Next]_vars
  PROVE  Placed'
<1> USE FramingAssumption
<1>0. pkt.hdr \in {4, 8} /\ pkt.len \in 0..MaxLen
  BY PacketTypes DEF Counted, TypeOK
<1>1. CASE Read
  BY <1>1 DEF Read, Counted, TypeOK, Placed, BytesAccounted
<1>2. CASE Stops
  BY <1>2 DEF Stops, Placed, BytesAccounted
<1>3. CASE Parse
  <2>1. PICK p \in Packets, seen \in Packets :
          /\ EndsAllowed(p) /\ Reads(p, seen)
          /\ pkt' = p
          /\ enc_len' = seen.len
          /\ pos' = pos + Skips(seen)
          /\ have_len' = have_len - Skips(seen)
    BY <1>3 DEF Parse
  <2>2. pc = "parse" /\ pos = start /\ have_len >= 4 /\ start' = start /\ end' = end
        /\ pc' \in {"fill", "decrypt"}
    BY <1>3 DEF Parse, Placed
  <2>3. seen = p
    BY <2>1, <2>2 DEF Reads
  <2>4. p.hdr \in {4, 8} /\ p.len \in 0..MaxLen
    BY PacketTypes
  <2>5. pos' = pos + p.hdr /\ have_len' = have_len - p.hdr /\ enc_len' = p.len
    BY <2>1, <2>3 DEF Skips
  <2>6. Found'
    BY <2>1, <2>2, <2>4, <2>5 DEF Found, EndsAllowed, Counted, TypeOK
  <2>7. BytesAccounted'
    BY <2>2, <2>4, <2>5 DEF BytesAccounted, Counted, TypeOK
  <2> QED BY <2>2, <2>6, <2>7 DEF Placed
<1>4. CASE Fill
  BY <1>0, <1>4 DEF Fill, Need, Found, Counted, TypeOK, Placed, BytesAccounted
<1>5. CASE Decrypt
  BY <1>0, <1>5 DEF Decrypt, More, Advanced, Found, Counted, TypeOK, Placed, BytesAccounted
<1>6. CASE UNCHANGED vars
  BY <1>6 DEF vars, world, Found, Placed, BytesAccounted
<1> QED BY <1>1, <1>2, <1>3, <1>4, <1>5, <1>6 DEF Next, ReadTooShort, FillFails, DecryptFails

LEMMA PlacedAlways ==
  ASSUME Splits = {}
  PROVE  Spec => []Placed
<1>1. Counted /\ Placed /\ [Next]_vars => Placed'
  BY NextPlaced
<1> QED BY InitPlaced, <1>1, CountedAlways, PTL DEF Spec

(* If no read ends inside a header, TLS is handed exactly the packets of the
   phone, one at a time and whole (hu_aap_recv_process).                      *)
THEOREM PacketsAreWhole ==
  ASSUME Splits = {}
  PROVE  Spec => []WholePackets
<1>1. Counted /\ Placed => WholePackets
  <2> SUFFICES ASSUME Counted, Placed, pc = "decrypt" PROVE WholePackets
    BY DEF WholePackets
  <2> QED
    BY PacketTypes DEF WholePackets, Found, Counted, TypeOK, Placed, BytesAccounted
<1> QED
  BY CountedAlways, PlacedAlways, <1>1, PTL

(* Then no byte is lost or counted twice either: have_len always tells where the
   received bytes end, and a poll returns with all of them used up.           *)
THEOREM AllBytesAccounted ==
  ASSUME Splits = {}
  PROVE  Spec => []BytesAccounted
BY PlacedAlways, PTL DEF Placed
=============================================================================
