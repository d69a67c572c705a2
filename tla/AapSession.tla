----------------------------- MODULE AapSession -----------------------------
(***************************************************************************)
(* The Android Auto session of the head unit: hu_aap.c over the USB        *)
(* transport of hu_usb.c and the TLS client of hu_ssl.c.                   *)
(*                                                                         *)
(* One thread runs everything (jni_aa_cmd, hu.c), so there is one program  *)
(* counter; what interleaves with it is the phone and the cable, which     *)
(* decide how each libusb call ends.  One action is one such call and the  *)
(* code up to the next one.  pc = "idle" is a point where no call into     *)
(* jni_aa_cmd is running and the application may make the next one.        *)
(*                                                                         *)
(* A stop is one step: the value Stoppin is set and replaced inside        *)
(* hu_aap_stop and hu_usb_stop with no call in between that reads it.      *)
(***************************************************************************)
EXTENDS Integers

CONSTANTS
  MaxTries,   \* openings of the device in one hu_usb_start (4 in hu_usb.c)
  MaxPkts,    \* packets one read may return, a bound of the model
  MaxCtx      \* libusb contexts leaked before the model stops leaking, a bound

ASSUME BoundsAssumption ==
  /\ MaxTries \in Nat \ {0}
  /\ MaxPkts \in Nat \ {0}
  /\ MaxCtx \in Nat

VARIABLES
  iaap_state,      \* state of the session
  iusb_state,      \* state of the USB transport
  transport_type,  \* 1 = USB, 2 = WiFi
  iusb_dev_hndl,   \* the device handle: NULL or open
  ctxRefs,         \* libusb_init calls not yet undone by libusb_exit
  tries,           \* passes of the loop of hu_usb_start while it runs
  hs_ctr,          \* finished rounds of the loop of hu_ssl_handshake
  tls,             \* how far the global SSL object has got
  packets,         \* packets of the current read still to be processed
  tail,            \* the last of them: "whole" or "partial" in the buffer
  replies,         \* messages the running handler has still to send
  handler,         \* the running handler: "byebye" or any "other"
  pc,              \* where the thread is
  sent,            \* the last message sent to the phone since the device was opened
  last             \* the last finished call and its result

usbVars == <<iusb_state, iusb_dev_hndl, ctxRefs>>
rxVars == <<packets, tail, replies, handler>>
vars == <<iaap_state, iusb_state, transport_type, iusb_dev_hndl, ctxRefs,
          tries, hs_ctr, tls, packets, tail, replies, handler, pc, sent, last>>

-----------------------------------------------------------------------------
(* The values.                                                             *)

Live == {"Startin", "Started"}       \* transfers are refused in other states
States == Live \cup {"Initial", "Stopped"}

(* none: never created; stale: created for an earlier connection; fresh: no
   answer yet; hello, keys: the first, the second answer of the phone is whole
   in the input BIO; *_bad: only a part of it came, or TLS refuses it;
   finished: TLS is done.                                                     *)
TlsStates == {"none", "stale", "fresh", "hello", "hello_bad",
              "keys", "keys_bad", "finished"}

Usable == {"keys", "finished"}       \* SSL_read and SSL_write can succeed

UsbPcs == {"usb_try", "usb_oap"}
StartPcs == UsbPcs \cup {"vers_send", "vers_recv", "hs_init", "hs_send",
                         "hs_recv", "auth_send"}
Pcs == StartPcs \cup {"idle", "rx", "reply", "bye"}

Calls == [op : {"none", "start", "recv", "send", "bye"}, ret : -3..0]

(* The messages of a start in their order, then the encrypted ones.        *)
Rank == [nothing |-> 0, VersReq |-> 1, ClientHello |-> 2, ClientKeys |-> 3,
         AuthComplete |-> 4, Enc |-> 5]

Messages == {"nothing", "VersReq", "ClientHello", "ClientKeys", "AuthComplete", "Enc"}

TypeOK ==
  /\ iaap_state \in States
  /\ iusb_state \in States
  /\ transport_type \in {1, 2}
  /\ iusb_dev_hndl \in {"NULL", "open"}
  /\ ctxRefs \in Nat
  /\ tries \in 0..MaxTries
  /\ hs_ctr \in 0..2
  /\ tls \in TlsStates
  /\ packets \in 0..MaxPkts
  /\ tail \in {"whole", "partial"}
  /\ replies \in 0..2
  /\ handler \in {"other", "byebye"}
  /\ pc \in Pcs
  /\ sent \in Messages
  /\ last \in Calls

Init ==
  /\ iaap_state = "Initial" /\ iusb_state = "Initial"
  /\ transport_type = 1
  /\ iusb_dev_hndl = "NULL"
  /\ ctxRefs = 0
  /\ tries = 0 /\ hs_ctr = 0
  /\ tls = "none"
  /\ packets = 0 /\ tail = "whole" /\ replies = 0 /\ handler = "other"
  /\ pc = "idle"
  /\ sent = "nothing"
  /\ last = [op |-> "none", ret |-> 0]

-----------------------------------------------------------------------------
(* Pieces of the handlers.  The operators whose comment starts with Mutant are
   not used: each is a slip of the definition after it that the run of this
   module must notice.                                                        *)

(* Mutant: the device is closed without libusb_exit.                       *)
DeinitNeverExits == iusb_dev_hndl' = "NULL" /\ UNCHANGED ctxRefs

(* Mutant: the handle is closed and not set to NULL.                       *)
DeinitKeepsHandle ==
  /\ UNCHANGED iusb_dev_hndl
  /\ ctxRefs' = IF iusb_dev_hndl = "open" THEN ctxRefs - 1 ELSE ctxRefs

(* iusb_deinit: with no handle it returns before libusb_exit.              *)
Deinit ==
  /\ iusb_dev_hndl' = "NULL"
  /\ ctxRefs' = IF iusb_dev_hndl = "open" THEN ctxRefs - 1 ELSE ctxRefs

UsbStop == Deinit /\ iusb_state' = "Stopped"

(* Mutant: the transport is left running.                                  *)
AapStopKeepsUsb ==
  /\ iaap_state' = IF iaap_state \in Live THEN "Stopped" ELSE iaap_state
  /\ UNCHANGED usbVars

(* hu_aap_stop: nothing unless the session is live.                        *)
AapStop ==
  IF iaap_state \in Live
  THEN /\ iaap_state' = "Stopped"
       /\ IF transport_type = 1 THEN UsbStop ELSE UNCHANGED usbVars
  ELSE UNCHANGED <<iaap_state, usbVars>>

Returns(op, r) == pc' = "idle" /\ last' = [op |-> op, ret |-> r]

(* Mutant: no state is looked at before a transfer.                        *)
TransportNotChecked == transport_type = 1

(* A transfer can only succeed on a started transport (iusb_bulk_transfer). *)
TransportUp == iaap_state \in Live /\ transport_type = 1 /\ iusb_state = "Started"

(* A failed send: a fatal error stops the transport inside the transfer; that
   error, a short send and a timeout all stop the session in hu_aap_tra_send. *)
SendFails == AapStop

(* Mutant: the result of SSL_write is not looked at.                       *)
EncSendUnchecked(r) ==
  /\ iaap_state = "Started" /\ r = 0
  /\ sent' = "Enc"
  /\ UNCHANGED <<iaap_state, usbVars, tls>>

(* hu_aap_enc_send returning r.  A failure of SSL returns -1; a failure of the
   transport stops the session too, but its result is not looked at.          *)
EncSend(r) ==
  \/ /\ iaap_state # "Started" /\ r = -1
     /\ UNCHANGED <<iaap_state, usbVars, tls, sent>>
  \/ /\ iaap_state = "Started" /\ r = -1
     /\ AapStop
     /\ UNCHANGED <<tls, sent>>
  \/ /\ iaap_state = "Started" /\ tls \in Usable /\ r = 0
     /\ tls' = "finished"
     /\ SendFails
     /\ UNCHANGED sent
  \/ /\ iaap_state = "Started" /\ tls \in Usable /\ TransportUp /\ r = 0
     /\ tls' = "finished"
     /\ sent' = "Enc"
     /\ UNCHANGED <<iaap_state, usbVars>>

-----------------------------------------------------------------------------
(* hu_aap_start and what it calls.                                         *)

StartAgain ==
  /\ pc = "idle" /\ iaap_state = "Started"
  /\ Returns("start", 0)
  /\ UNCHANGED <<iaap_state, usbVars, transport_type, tries, hs_ctr, tls, rxVars, sent>>

(* Endpoints 255/255: WiFi, whose calls are commented out, so it fails.    *)
StartWifi ==
  /\ pc = "idle" /\ iaap_state # "Started"
  /\ transport_type' = 2
  /\ iaap_state' = "Stopped"
  /\ Returns("start", -1)
  /\ UNCHANGED <<usbVars, tries, hs_ctr, tls, rxVars, sent>>

StartUsb ==
  /\ pc = "idle" /\ iaap_state # "Started"
  /\ iaap_state' = "Startin"
  /\ transport_type' = 1
  /\ IF iusb_state = "Started"
     THEN pc' = "vers_send" /\ UNCHANGED <<iusb_state, tries>>
     ELSE pc' = "usb_try" /\ iusb_state' = "Startin" /\ tries' = 0
  /\ UNCHANGED <<iusb_dev_hndl, ctxRefs, hs_ctr, tls, rxVars, sent, last>>

UsbStartFails(r) ==
  /\ iusb_state' = "Stopped"
  /\ iaap_state' = "Stopped"
  /\ tries' = 0
  /\ Returns("start", r)
  /\ UNCHANGED <<transport_type, hs_ctr, tls, rxVars, sent>>

(* iusb_init fails: in libusb_init, or later with the context taken.       *)
UsbInitFails ==
  /\ pc = "usb_try" /\ tries < MaxTries
  /\ iusb_dev_hndl' = "NULL"
  /\ \E taken \in {0, 1} :
       /\ taken = 1 => ctxRefs < MaxCtx
       /\ ctxRefs' = ctxRefs + taken - (IF iusb_dev_hndl = "open" THEN 1 ELSE 0)
  /\ UsbStartFails(-1)

(* iusb_init succeeds: a device in accessory mode ends the loop.           *)
UsbOpens ==
  /\ pc = "usb_try" /\ tries < MaxTries
  /\ iusb_dev_hndl' = "open"
  /\ ctxRefs' = ctxRefs + 1
  /\ sent' = "nothing"
  /\ tls' = IF tls = "none" THEN "none" ELSE "stale"
  /\ \/ pc' = "vers_send" /\ iusb_state' = "Started" /\ tries' = 0
     \/ pc' = "usb_oap" /\ tries' = tries + 1 /\ UNCHANGED iusb_state
  /\ UNCHANGED <<iaap_state, transport_type, hs_ctr, rxVars, last>>

(* Mutant: the switch to accessory mode does not count as a try.           *)
OapStartsUncounted ==
  /\ pc = "usb_oap"
  /\ Deinit
  /\ pc' = "usb_try"
  /\ tries' = tries - 1
  /\ UNCHANGED <<iaap_state, iusb_state, transport_type, hs_ctr, tls, rxVars, sent, last>>

(* iusb_oap_start switched the phone to accessory mode: it will come back as
   another device, so close this one and look again.                          *)
OapStarts ==
  /\ pc = "usb_oap"
  /\ Deinit
  /\ pc' = "usb_try"
  /\ UNCHANGED <<iaap_state, iusb_state, transport_type, tries, hs_ctr, tls,
                 rxVars, sent, last>>

OapFails ==
  /\ pc = "usb_oap"
  /\ Deinit
  /\ UsbStartFails(-2)

UsbGivesUp ==
  /\ pc = "usb_try" /\ tries = MaxTries
  /\ Deinit
  /\ UsbStartFails(-3)

(* Mutant: a start that fails does not stop what it started.               *)
StartFailsLeavesUp ==
  /\ Returns("start", -1)
  /\ UNCHANGED <<iaap_state, usbVars, transport_type, tries, hs_ctr, rxVars, sent>>

(* A start that fails once the transport is up.                            *)
StartFails ==
  /\ AapStop
  /\ Returns("start", -1)
  /\ UNCHANGED <<transport_type, tries, hs_ctr, rxVars, sent>>

VersSend ==
  /\ pc = "vers_send"
  /\ \/ /\ TransportUp
        /\ sent' = "VersReq"
        /\ pc' = "vers_recv"
        /\ UNCHANGED <<iaap_state, usbVars, transport_type, tries, hs_ctr, rxVars, last>>
     \/ StartFails
  /\ UNCHANGED tls

VersRecv ==
  /\ pc = "vers_recv"
  /\ \/ /\ TransportUp
        /\ pc' = "hs_init"
        /\ UNCHANGED <<iaap_state, usbVars, transport_type, tries, hs_ctr, rxVars, sent, last>>
     \/ StartFails
  /\ UNCHANGED tls

HsInit ==
  /\ pc = "hs_init"
  /\ \/ /\ tls' = "fresh"
        /\ hs_ctr' = 0
        /\ pc' = "hs_send"
        /\ UNCHANGED <<iaap_state, usbVars, transport_type, tries, rxVars, sent, last>>
     \/ tls' \in {tls, "none", "fresh"} /\ StartFails

(* Mutant: one round of the loop too many.                                 *)
ThreeRounds == 3

HsRounds == 2

(* What TLS has to send: its Hello, the answer to the phone's Hello, or the
   alert that refuses it.                                                     *)
HsMessage == IF hs_ctr = 0 THEN "ClientHello" ELSE "ClientKeys"
NoOutput == hs_ctr = 1 /\ tls = "hello_bad"

(* How far the answer of the phone gets TLS.                               *)
HsAnswer == IF hs_ctr = 0 THEN {"hello", "hello_bad"}
            ELSE {"keys_bad"} \cup (IF tls = "hello" THEN {"keys"} ELSE {})

(* The result of the send is only logged: after a failed one the loop goes on
   to its read, which the stopped session refuses.                            *)
HsSend ==
  /\ pc = "hs_send"
  /\ \/ NoOutput /\ StartFails
     \/ /\ pc' = "hs_recv"
        /\ \/ TransportUp /\ sent' = HsMessage /\ UNCHANGED <<iaap_state, usbVars>>
           \/ SendFails /\ UNCHANGED sent
        /\ UNCHANGED <<transport_type, tries, hs_ctr, rxVars, last>>
  /\ UNCHANGED tls

HsRecv ==
  /\ pc = "hs_recv"
  /\ \/ /\ TransportUp
        /\ tls' \in HsAnswer
        /\ hs_ctr' = hs_ctr + 1
        /\ pc' = IF hs_ctr + 1 < HsRounds THEN "hs_send" ELSE "auth_send"
        /\ UNCHANGED <<iaap_state, usbVars, transport_type, tries, rxVars, sent, last>>
     \/ StartFails /\ UNCHANGED tls

AuthSend ==
  /\ pc = "auth_send"
  /\ \/ /\ TransportUp
        /\ sent' = "AuthComplete"
        /\ iaap_state' = "Started"
        /\ Returns("start", 0)
        /\ UNCHANGED <<usbVars, transport_type, tries, hs_ctr, rxVars>>
     \/ StartFails
  /\ UNCHANGED tls

-----------------------------------------------------------------------------
(* hu_aap_recv_process and the handlers of received messages.              *)

callVars == <<transport_type, tries, hs_ctr, sent>>

PollRefused ==
  /\ pc = "idle" /\ iaap_state \notin Live
  /\ Returns("recv", -1)
  /\ UNCHANGED <<iaap_state, usbVars, tls, rxVars, callVars>>

PollTimesOut ==
  /\ pc = "idle" /\ TransportUp
  /\ Returns("recv", 0)
  /\ UNCHANGED <<iaap_state, usbVars, tls, rxVars, callVars>>

(* A fatal error of the transfer, or fewer bytes than a header.            *)
PollFails ==
  /\ pc = "idle" /\ iaap_state \in Live
  /\ AapStop
  /\ Returns("recv", -1)
  /\ UNCHANGED <<tls, rxVars, callVars>>

PollGets ==
  /\ pc = "idle" /\ TransportUp
  /\ packets' \in 1..MaxPkts
  /\ tail' \in {"whole", "partial"}
  /\ pc' = "rx"
  /\ UNCHANGED <<iaap_state, usbVars, tls, replies, handler, last, callVars>>

(* The rest of a packet that is not complete is read without a time limit.
   Anything but the exact number of bytes is an error.                        *)
RxCompletes ==
  /\ pc = "rx" /\ packets = 1 /\ tail = "partial"
  /\ TransportUp
  /\ tail' = "whole"
  /\ UNCHANGED <<iaap_state, usbVars, tls, packets, replies, handler, pc, last, callVars>>

(* The packet cannot be completed or decrypted.                            *)
RxFails ==
  /\ pc = "rx" /\ packets > 0
  /\ AapStop
  /\ packets' = 0 /\ tail' = "whole"
  /\ Returns("recv", -1)
  /\ UNCHANGED <<tls, replies, handler, callVars>>

(* Decrypted: the handler of the message has n messages to send.  Whatever it
   returns, iaap_recv_dec_process returns 0 and the loop goes on.             *)
RxMessage(n, h) ==
  /\ pc = "rx" /\ packets > 0 /\ (packets > 1 \/ tail = "whole")
  /\ tls \in Usable
  /\ tls' = "finished"
  /\ replies' = n
  /\ handler' = h
  /\ pc' = "reply"
  /\ UNCHANGED <<iaap_state, usbVars, packets, tail, last, callVars>>

RxOther == \E n \in 0..2 : RxMessage(n, "other")   \* a message that wants n answers
RxByebye == RxMessage(1, "byebye")                   \* aa_pro_ctr_a0f

(* A handler gives up after a send that returned an error.                 *)
Reply ==
  /\ pc = "reply" /\ replies > 0
  /\ \E r \in {-1, 0} :
       /\ EncSend(r)
       /\ replies' = IF r = 0 THEN replies - 1 ELSE 0
  /\ UNCHANGED <<packets, tail, handler, pc, last, transport_type, tries, hs_ctr>>

HandlerReturns ==
  /\ pc = "reply" /\ replies = 0
  /\ IF handler = "byebye" THEN AapStop ELSE UNCHANGED <<iaap_state, usbVars>>
  /\ handler' = "other"
  /\ packets' = packets - 1
  /\ pc' = "rx"
  /\ UNCHANGED <<tls, tail, replies, last, callVars>>

RxDone ==
  /\ pc = "rx" /\ packets = 0
  /\ Returns("recv", 0)
  /\ UNCHANGED <<iaap_state, usbVars, tls, rxVars, callVars>>

-----------------------------------------------------------------------------
(* Messages the application sends: touch, microphone, Byebye.              *)

AppSend ==
  /\ pc = "idle"
  /\ \E r \in {-1, 0} : EncSend(r) /\ Returns("send", r)
  /\ UNCHANGED <<transport_type, tries, hs_ctr, rxVars>>

AppByebye ==
  /\ pc = "idle"
  /\ \E r \in {-1, 0} : EncSend(r)
  /\ pc' = "bye"
  /\ UNCHANGED <<transport_type, tries, hs_ctr, rxVars, last>>

ByebyeStops ==
  /\ pc = "bye"
  /\ AapStop
  /\ Returns("bye", 0)
  /\ UNCHANGED <<tls, rxVars, callVars>>

-----------------------------------------------------------------------------
StartStep ==
  \/ UsbInitFails \/ UsbOpens \/ OapStarts \/ OapFails \/ UsbGivesUp
  \/ VersSend \/ VersRecv \/ HsInit \/ HsSend \/ HsRecv \/ AuthSend

CallStep ==
  \/ StartAgain \/ StartWifi \/ StartUsb
  \/ PollRefused \/ PollTimesOut \/ PollFails \/ PollGets
  \/ AppSend \/ AppByebye

RxStep == RxCompletes \/ RxFails \/ RxOther \/ RxByebye \/ Reply \/ HandlerReturns \/ RxDone

Next == StartStep \/ CallStep \/ RxStep \/ ByebyeStops

Spec == Init /\ [][Next]_vars

-----------------------------------------------------------------------------
(* Properties.                                                             *)

(* hu_aap.c and hu_usb.c each keep a state and never compare them.  A started
   session has a started transport with an open device, and a session that is
   down holds no device, whichever of the many error paths brought it down.   *)
LinkAgreement ==
  /\ iaap_state = "Started" => iusb_state = "Started" /\ iusb_dev_hndl = "open"
  /\ iaap_state \in {"Initial", "Stopped"} =>
       iusb_state \in {"Initial", "Stopped"} /\ iusb_dev_hndl = "NULL"

(* The contexts that no close will give back: iusb_deinit gives back one, and only
   with an open handle.                                                       *)
Leaked == ctxRefs - (IF iusb_dev_hndl = "open" THEN 1 ELSE 0)

(* Every device that is closed, on whichever of the many paths, gives back the
   context it was opened with, once: the only step that leaks a context is an open
   that fails after libusb_init, it leaks one, and no step frees one that is not
   its own, although iusb_init's error paths and iusb_deinit take and return
   contexts unevenly.                                                         *)
LeakStep ==
  Leaked' # Leaked =>
    Leaked' = Leaked + 1 /\ pc = "usb_try" /\ pc' = "idle" /\ last' = [op |-> "start", ret |-> -1]

ContextsGivenBack == [][LeakStep]_vars

(* On every connection the phone is sent the Version Request, the two TLS
   messages and Auth Complete in this order, none of them twice, and encrypted
   messages only after that, also when an earlier session was torn down half
   way through its start.                                                     *)
WireStep == sent' # sent => sent' = "nothing" \/ Rank[sent'] = Rank[sent] + 1

WireOrder == [][WireStep]_vars

(* Nothing is encrypted with an SSL object left from an earlier connection or
   whose handshake has not been finished.                                     *)
EncryptedMeansFinished == sent = "Enc" /\ iusb_dev_hndl = "open" => tls = "finished"

(* The result jni_aa_cmd gives its caller: a start reports success exactly when
   the session is up, and a call that failed leaves the session down.         *)
ResultAgrees ==
  pc = "idle" =>
    /\ last.op = "start" => (last.ret = 0 <=> iaap_state = "Started")
    /\ last.ret < 0 => iaap_state \in {"Initial", "Stopped"}

(* A handler whose message is answered in two parts, or a loop that goes on
   after a failed send, may try to send on a session that is already down: the
   phone is sent nothing but on a live session with its device open.          *)
SendStep ==
  sent' # sent /\ sent' # "nothing" => iaap_state \in Live /\ iusb_dev_hndl = "open"

NoSendWhenDown == [][SendStep]_vars

(* The session implements its abstract life cycle.                         *)
Phase == IF iaap_state = "Startin" THEN "connecting"
         ELSE IF iaap_state = "Started" THEN "up" ELSE "down"

Progress == IF Phase = "down" \/ iusb_dev_hndl = "NULL" THEN 0
            ELSE IF sent = "Enc" THEN 4 ELSE Rank[sent]

Link == INSTANCE AapLink WITH phase <- Phase, progress <- Progress

LinkImplemented == Link!LinkSpec

(* hu_ssl_handshake: "Handshake did not finish !!!!" (hu_ssl.c:293) would be
   reported for a session that starts before TLS has finished.                *)
StartedMeansFinished == iaap_state = "Started" => tls = "finished"
=============================================================================
