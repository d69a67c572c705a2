------------------------------ MODULE AapFraming ------------------------------
(***************************************************************************)
(* hu_aap_recv_process (hu_aap.c): how the packets of the phone are found  *)
(* in what the USB reads return.  A packet is a header of 4 bytes (8 in the*)
(* first fragment of a video message) and len encrypted bytes.  A read may *)
(* return several packets and a part of one more; the rest of that one is  *)
(* then read behind it, for exactly the number of bytes that miss.         *)
(*                                                                         *)
(* The operators whose comment starts with Mutant are slips of the         *)
(* definition after them that the run must notice; they are not used.      *)
(*                                                                         *)
(* Bytes are only counted.  pos, have_len and enc_len are what the code    *)
(* computes; start, end and pkt are the truth: where in rx_buf the next    *)
(* packet begins, where the received bytes end, and how long it is.  The   *)
(* decrypted message goes to the beginning of rx_buf itself (dec_buf), where*)
(* later packets may still wait: the first dirty bytes are overwritten.    *)
(***************************************************************************)
EXTENDS Integers

CONSTANTS
  MaxRead,   \* bytes one read returns at most, 65536 in hu_usb.c
  MaxLen,    \* largest encrypted length, 65535: the field has two bytes
  Splits     \* a read may end after so many bytes of the header of a packet

ASSUME FramingAssumption ==
  /\ MaxRead \in Nat /\ MaxRead >= 6
  /\ MaxLen \in Nat /\ MaxLen >= 3
  /\ Splits \subseteq 1..3

VARIABLES
  pc,        \* "idle", "parse", "fill" or "decrypt"
  pos,       \* buf - rx_buf
  have_len,  \* bytes the code takes to be unprocessed
  enc_len,   \* length it found in the header
  start,     \* where the current packet begins in rx_buf
  end,       \* where the received bytes end in rx_buf
  dirty,     \* how far this call has overwritten rx_buf with decrypted bytes
  pkt        \* the current packet: length of its header and of its body

world == <<start, end, pkt>>
vars == <<pc, pos, have_len, enc_len, dirty, world>>

Packets == [hdr : {4, 8}, len : 0..MaxLen]

TypeOK ==
  /\ pc \in {"idle", "parse", "fill", "decrypt"}
  /\ pos \in Nat
  /\ have_len \in Int /\ have_len >= -7
  /\ enc_len \in 0..MaxLen
  /\ start \in Int
  /\ end \in Nat
  /\ dirty \in 0..MaxLen
  /\ pkt \in Packets

Init ==
  /\ pc = "idle"
  /\ pos = 0 /\ have_len = 0 /\ enc_len = 0
  /\ start = 0 /\ end = 0 /\ dirty = 0
  /\ pkt = [hdr |-> 4, len |-> 0]

-----------------------------------------------------------------------------
(* The session is stopped: what comes next is another connection, which begins
   with a packet.                                                             *)
Stops ==
  /\ pc' = "idle"
  /\ have_len' = 0
  /\ start' = 0 /\ end' = 0
  /\ UNCHANGED <<pos, enc_len, dirty, pkt>>

(* The first read; what it returns goes to the beginning of rx_buf.        *)
Read ==
  /\ pc = "idle"
  /\ \E n \in 6..MaxRead :
       /\ pos' = 0 /\ have_len' = n
       /\ start' = start - end /\ end' = n
  /\ dirty' = 0
  /\ pc' = "parse"
  /\ UNCHANGED <<enc_len, pkt>>

(* Fewer bytes than min_size_hdr.                                          *)
ReadTooShort == pc = "idle" /\ Stops

(* Mutant: the length bytes of a first video fragment are not skipped.     *)
SkipsFour(p) == 4

(* What the code takes off for the header of p.                            *)
Skips(p) == p.hdr

(* Mutant: what is missing is counted from the header on.                  *)
NeedFromHeader(h, len) == len - h + 4

(* need_len, with h bytes of the packet behind its header there already.  h is
   negative if the extra length bytes of a first fragment have not come yet.  *)
Need(h, len) == len - h

(* The packet p is next.  Where the bytes end inside it is up to the phone, but
   not inside the header of the packet that follows, except as Splits allows. *)
EndsAllowed(p) == end - (start + p.hdr + p.len) \notin (1..3) \ Splits

(* A header that has not been received as a whole, or that is not where the code
   looks for it, is made of old bytes of rx_buf.                              *)
Reads(p, seen) == have_len >= 4 /\ pos = start => seen = p

Parse ==
  /\ pc = "parse"
  /\ \E p, seen \in Packets :
       /\ EndsAllowed(p) /\ Reads(p, seen)
       /\ pkt' = p
       /\ enc_len' = seen.len
       /\ pos' = pos + Skips(seen)
       /\ have_len' = have_len - Skips(seen)
  /\ pc' = IF have_len' < enc_len' THEN "fill" ELSE "decrypt"
  /\ UNCHANGED <<start, end, dirty>>

(* The rest of the packet is read to & buf [have_len].                     *)
Fill ==
  /\ pc = "fill"
  /\ end' = pos + have_len + Need(have_len, enc_len)
  /\ have_len' = enc_len
  /\ pc' = "decrypt"
  /\ UNCHANGED <<pos, enc_len, dirty, start, pkt>>

FillFails == pc = "fill" /\ Stops

(* Mutant: another packet is looked for when nothing is left.              *)
MoreOrNothing(h) == h >= 0

(* The loop goes on with h bytes left.                                     *)
More(h) == h > 0

(* Mutant: buf stays at the packet that was processed.                     *)
NotAdvanced(len) == pos

Advanced(len) == pos + len

(* iaap_recv_dec_process, and on to the next packet.  TLS decrypts to no more
   bytes than it was given; giving it none is an error.                       *)
Decrypt ==
  /\ pc = "decrypt" /\ enc_len > 0
  /\ \E n \in 0..enc_len : dirty' = IF n > dirty THEN n ELSE dirty
  /\ have_len' = have_len - enc_len
  /\ pos' = Advanced(enc_len)
  /\ start' = start + pkt.hdr + pkt.len
  /\ pc' = IF More(have_len') THEN "parse" ELSE "idle"
  /\ UNCHANGED <<enc_len, end, pkt>>

DecryptFails == pc = "decrypt" /\ Stops

Next ==
  \/ Read \/ ReadTooShort \/ Parse
  \/ Fill \/ FillFails \/ Decrypt \/ DecryptFails

Spec == Init /\ [][Next]_vars

-----------------------------------------------------------------------------
(* "Read() may contain multiple packets, returning all or the end of one packet,
   plus all or the beginning of the next packet" (hu_aap.c:1265): what is handed
   to TLS is exactly one packet of the phone, the next one, and all of it.    *)
WholePackets ==
  pc = "decrypt" =>
    /\ pos = start + pkt.hdr
    /\ enc_len = pkt.len
    /\ pos + enc_len <= end

(* have_len, which goes below zero inside a first video fragment, always says
   where the received bytes end: the rest of a packet lands right behind them,
   and a read ends with every byte accounted for.                             *)
BytesAccounted ==
  /\ pc # "idle" => pos + have_len = end
  /\ pc = "idle" => start = end

(* "Use same buffer !!!" (hu_aap.c:96): the decrypted messages of a poll, which
   are written over rx_buf from its beginning, never reach the packets that are
   still to be processed.                                                     *)
NextUntouched == pc \in {"parse", "decrypt"} => dirty <= pos
=============================================================================
