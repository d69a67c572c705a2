--------------------------- MODULE AapSessionProof ---------------------------
(***************************************************************************)
(* Proofs about AapSession, for every number of tries, packets and leaked  *)
(* contexts.                                                               *)
(***************************************************************************)
EXTENDS AapSession, TLAPS

(* The three situations the two state variables can be in between libusb
   calls, and the program counters at which each of them holds.               *)

Down ==
  /\ iaap_state \in {"Initial", "Stopped"}
  /\ iusb_state \in {"Initial", "Stopped"}
  /\ iusb_dev_hndl = "NULL"
  /\ sent \in Messages

(* Connected, in the start, and m is the last message sent.                *)
Conn(m) ==
  /\ iaap_state = "Startin" /\ iusb_state = "Started" /\ iusb_dev_hndl = "open"
  /\ sent = m

Up ==
  /\ iaap_state = "Started" /\ iusb_state = "Started" /\ iusb_dev_hndl = "open"
  /\ sent \in {"AuthComplete", "Enc"}
  /\ tls \in {"keys", "keys_bad", "finished"}
  /\ sent = "Enc" => tls = "finished"

PcInv ==
  /\ pc = "usb_try" => /\ iaap_state = "Startin" /\ iusb_state = "Startin"
                       /\ iusb_dev_hndl = "NULL"
                       /\ sent \in Messages
  /\ pc = "usb_oap" => /\ iaap_state = "Startin" /\ iusb_state = "Startin"
                       /\ iusb_dev_hndl = "open"
                       /\ sent = "nothing"
  /\ pc = "vers_send" => Conn("nothing")
  /\ pc \in {"vers_recv", "hs_init"} => Conn("VersReq")
  /\ pc = "hs_send" => \/ hs_ctr = 0 /\ Conn("VersReq") /\ tls = "fresh"
                       \/ hs_ctr = 1 /\ Conn("ClientHello") /\ tls \in {"hello", "hello_bad"}
  /\ pc = "hs_recv" => \/ hs_ctr = 0 /\ (Conn("ClientHello") \/ Down)
                       \/ hs_ctr = 1 /\ (Conn("ClientKeys") \/ Down)
  /\ pc = "auth_send" => Conn("ClientKeys") /\ tls \in {"keys", "keys_bad"}
  /\ pc \in {"idle", "rx", "reply", "bye"} => Up \/ Down

(* libusb is used between libusb_init and libusb_exit only.               *)
ContextHeld == iusb_dev_hndl = "open" => ctxRefs >= 1

IInv ==
  /\ TypeOK
  /\ iaap_state \in Live => transport_type = 1
  /\ ContextHeld
  /\ pc = "reply" => packets > 0
  /\ PcInv

-----------------------------------------------------------------------------
(* The invariant is inductive.                                             *)
LEMMA InitIInv == Init => IInv
<1> SUFFICES ASSUME Init PROVE IInv
  OBVIOUS
<1>1. TypeOK
  <2>1. last \in Calls
    BY DEF Init, Calls
  <2>2. 0 \in 0..MaxTries /\ 0 \in 0..MaxPkts
    BY BoundsAssumption
  <2>3. iaap_state \in States /\ iusb_state \in States
    BY DEF Init, States
  <2>4. tls \in TlsStates /\ pc \in Pcs /\ sent \in Messages
    BY DEF Init, TlsStates, Pcs, Messages
  <2>5. iusb_dev_hndl \in {"NULL", "open"} /\ tail \in {"whole", "partial"} /\ handler \in {"other", "byebye"}
    BY DEF Init
  <2>6. transport_type \in {1, 2} /\ ctxRefs \in Nat /\ tries \in 0..MaxTries /\ packets \in 0..MaxPkts
    BY <2>2 DEF Init
  <2>7. hs_ctr \in 0..2 /\ replies \in 0..2
    BY DEF Init
  <2> QED BY <2>1, <2>3, <2>4, <2>5, <2>6, <2>7 DEF TypeOK
<1>2. Down
  BY DEF Init, Down, Messages
<1> QED BY <1>1, <1>2 DEF Init, IInv, ContextHeld, PcInv, Live

LEMMA NextIInv == IInv /\ [Next]_vars => IInv'
<1> SUFFICES ASSUME IInv, [Next]_vars PROVE IInv'
  OBVIOUS
<1> USE BoundsAssumption DEF IInv, TypeOK, ContextHeld, PcInv, Down, Up, Conn, States, Live,
     TlsStates, Pcs, StartPcs, UsbPcs, Calls, Messages, Returns, Usable, usbVars, rxVars,
     callVars, AapStop, UsbStop, Deinit, SendFails, TransportUp, EncSend, UsbStartFails,
     StartFails, NoOutput, HsRounds, HsMessage, HsAnswer, RxMessage
<1>1. CASE UsbInitFails
  BY <1>1 DEF UsbInitFails
<1>2. CASE UsbOpens
  BY <1>2 DEF UsbOpens
<1>3. CASE OapStarts
  BY <1>3 DEF OapStarts
<1>4. CASE OapFails
  BY <1>4 DEF OapFails
<1>5. CASE UsbGivesUp
  BY <1>5 DEF UsbGivesUp
<1>6. CASE VersSend
  BY <1>6 DEF VersSend
<1>7. CASE VersRecv
  BY <1>7 DEF VersRecv
<1>8. CASE HsInit
  BY <1>8 DEF HsInit
<1>9. CASE HsSend
  BY <1>9 DEF HsSend
<1>10. CASE HsRecv
  BY <1>10 DEF HsRecv
<1>11. CASE AuthSend
  BY <1>11 DEF AuthSend
<1>12. CASE StartAgain
  BY <1>12 DEF StartAgain
<1>13. CASE StartWifi
  BY <1>13 DEF StartWifi
<1>14. CASE StartUsb
  BY <1>14 DEF StartUsb
<1>15. CASE PollRefused
  BY <1>15 DEF PollRefused
<1>16. CASE PollTimesOut
  BY <1>16 DEF PollTimesOut
<1>17. CASE PollFails
  BY <1>17 DEF PollFails
<1>18. CASE PollGets
  BY <1>18 DEF PollGets
<1>19. CASE AppSend
  BY <1>19 DEF AppSend
<1>20. CASE AppByebye
  BY <1>20 DEF AppByebye
<1>21. CASE RxCompletes
  BY <1>21 DEF RxCompletes
<1>22. CASE RxFails
  BY <1>22 DEF RxFails
<1>23. CASE RxOther
  BY <1>23 DEF RxOther
<1>24. CASE RxByebye
  BY <1>24 DEF RxByebye
<1>25. CASE Reply
  BY <1>25 DEF Reply
<1>26. CASE HandlerReturns
  BY <1>26 DEF HandlerReturns
<1>27. CASE RxDone
  BY <1>27 DEF RxDone
<1>28. CASE ByebyeStops
  BY <1>28 DEF ByebyeStops
<1>29. CASE UNCHANGED vars
  BY <1>29 DEF vars
<1> QED BY <1>1, <1>2, <1>3, <1>4, <1>5, <1>6, <1>7, <1>8, <1>9, <1>10,
  <1>11, <1>12, <1>13, <1>14, <1>15, <1>16, <1>17, <1>18, <1>19, <1>20,
  <1>21, <1>22, <1>23, <1>24, <1>25, <1>26, <1>27, <1>28, <1>29
  DEF Next, StartStep, CallStep, RxStep

-----------------------------------------------------------------------------
(* The properties.                                                         *)

LEMMA IInvAlways == Spec => []IInv
BY InitIInv, NextIInv, PTL DEF Spec

(* Every variable keeps its type: no counter of hu_usb_start, of the handshake
   or of the packets of a read leaves its range.                              *)
THEOREM TypeCorrect == Spec => []TypeOK
<1>1. IInv => TypeOK
  BY DEF IInv
<1> QED BY <1>1, IInvAlways, PTL

(* hu_aap.c and hu_usb.c agree on whether there is a session, on every path of
   every call.                                                                *)
THEOREM LinkAgreementHolds == Spec => []LinkAgreement
<1>1. IInv => LinkAgreement
  <2> SUFFICES ASSUME IInv PROVE LinkAgreement
    OBVIOUS
  <2>1. pc \in Pcs
    BY DEF IInv, TypeOK
  <2> QED BY <2>1 DEF IInv, PcInv, LinkAgreement, Down, Up, Conn, Pcs, StartPcs, UsbPcs
<1> QED BY <1>1, IInvAlways, PTL

(* Every close of a device gives back the context of its open, once, on every path
   of hu_usb_start and of a stop: contexts are leaked by opens that fail, one each,
   and by nothing else.                                                       *)
THEOREM ContextsGivenBackHolds == Spec => ContextsGivenBack
<1>1. ASSUME IInv, Next PROVE LeakStep
  <2> USE DEF IInv, TypeOK, PcInv, LeakStep, Leaked
  <2>1. CASE UsbInitFails
    BY <1>1, <2>1 DEF UsbInitFails, UsbStartFails, Returns
  <2>2. CASE UsbOpens
    BY <1>1, <2>2 DEF UsbOpens
  <2>3. ASSUME Deinit PROVE Leaked' = Leaked
    BY <1>1, <2>3 DEF Deinit
  <2>4. ASSUME AapStop \/ UNCHANGED usbVars PROVE Leaked' = Leaked
    BY <2>3, <2>4 DEF AapStop, UsbStop, usbVars
  <2>5. CASE OapStarts \/ OapFails \/ UsbGivesUp
    BY <2>3, <2>5 DEF OapStarts, OapFails, UsbGivesUp
  <2>6. CASE VersSend \/ VersRecv \/ HsInit \/ HsSend \/ HsRecv \/ AuthSend
    BY <2>4, <2>6 DEF VersSend, VersRecv, HsInit, HsSend, HsRecv, AuthSend, StartFails, SendFails, usbVars
  <2>7. CASE CallStep
    BY <2>4, <2>7 DEF CallStep, StartAgain, StartWifi, StartUsb, PollRefused, PollTimesOut, PollFails,
                  PollGets, AppSend, AppByebye, EncSend, SendFails, usbVars
  <2>8. CASE RxStep \/ ByebyeStops
    BY <2>4, <2>8 DEF RxStep, RxCompletes, RxFails, RxOther, RxByebye, RxMessage, Reply, HandlerReturns,
                  RxDone, ByebyeStops, EncSend, SendFails, usbVars
  <2> QED BY <1>1, <2>1, <2>2, <2>5, <2>6, <2>7, <2>8 DEF Next, StartStep
<1>2. IInv /\ [Next]_vars => [LeakStep]_vars
  BY <1>1
<1> QED BY <1>2, IInvAlways, PTL DEF Spec, ContextsGivenBack

(* Once an encrypted message is out on a connection, its TLS is finished.  *)
THEOREM EncryptedMeansFinishedHolds == Spec => []EncryptedMeansFinished
<1>1. IInv => EncryptedMeansFinished
  <2> SUFFICES ASSUME IInv PROVE EncryptedMeansFinished
    OBVIOUS
  <2>1. pc \in Pcs
    BY DEF IInv, TypeOK
  <2> QED BY <2>1 DEF IInv, PcInv, EncryptedMeansFinished, Down, Up, Conn, Pcs, StartPcs, UsbPcs
<1> QED BY <1>1, IInvAlways, PTL

(* What every step does, one case per action.                              *)
LinkStep == Link!LinkNext \/ UNCHANGED Link!linkVars

LEMMA StepFacts ==
  IInv /\ IInv' /\ ResultAgrees /\ [Next]_vars
    => WireStep /\ SendStep /\ ResultAgrees' /\ LinkStep
<1> SUFFICES ASSUME IInv, IInv', ResultAgrees, [Next]_vars
             PROVE WireStep /\ SendStep /\ ResultAgrees' /\ LinkStep
  OBVIOUS
<1> USE BoundsAssumption DEF IInv, TypeOK, ContextHeld, PcInv, Down, Up, Conn, States, Live,
     TlsStates, Pcs, StartPcs, UsbPcs, Calls, Messages, Returns, Usable, usbVars, rxVars, callVars, AapStop, UsbStop,
     Deinit, SendFails, TransportUp, EncSend, UsbStartFails, StartFails, NoOutput, HsRounds,
     HsMessage, HsAnswer, RxMessage,
     Rank, WireStep, SendStep, ResultAgrees, LinkStep, Phase, Progress,
     Link!LinkNext, Link!linkVars, Link!Connect, Link!Advance, Link!Establish, Link!Lose
<1>1. CASE UsbInitFails
  BY <1>1 DEF UsbInitFails
<1>2. CASE UsbOpens
  BY <1>2 DEF UsbOpens
<1>3. CASE OapStarts
  BY <1>3 DEF OapStarts
<1>4. CASE OapFails
  BY <1>4 DEF OapFails
<1>5. CASE UsbGivesUp
  BY <1>5 DEF UsbGivesUp
<1>6. CASE VersSend
  BY <1>6 DEF VersSend
<1>7. CASE VersRecv
  BY <1>7 DEF VersRecv
<1>8. CASE HsInit
  BY <1>8 DEF HsInit
<1>9. CASE HsSend
  BY <1>9 DEF HsSend
<1>10. CASE HsRecv
  BY <1>10 DEF HsRecv
<1>11. CASE AuthSend
  BY <1>11 DEF AuthSend
<1>12. CASE StartAgain
  BY <1>12 DEF StartAgain
<1>13. CASE StartWifi
  BY <1>13 DEF StartWifi
<1>14. CASE StartUsb
  BY <1>14 DEF StartUsb
<1>15. CASE PollRefused
  BY <1>15 DEF PollRefused
<1>16. CASE PollTimesOut
  BY <1>16 DEF PollTimesOut
<1>17. CASE PollFails
  BY <1>17 DEF PollFails
<1>18. CASE PollGets
  BY <1>18 DEF PollGets
<1>19. CASE AppSend
  BY <1>19 DEF AppSend
<1>20. CASE AppByebye
  BY <1>20 DEF AppByebye
<1>21. CASE RxCompletes
  BY <1>21 DEF RxCompletes
<1>22. CASE RxFails
  BY <1>22 DEF RxFails
<1>23. CASE RxOther
  BY <1>23 DEF RxOther
<1>24. CASE RxByebye
  BY <1>24 DEF RxByebye
<1>25. CASE Reply
  BY <1>25 DEF Reply
<1>26. CASE HandlerReturns
  BY <1>26 DEF HandlerReturns
<1>27. CASE RxDone
  BY <1>27 DEF RxDone
<1>28. CASE ByebyeStops
  BY <1>28 DEF ByebyeStops
<1>29. CASE UNCHANGED vars
  BY <1>29 DEF vars
<1> QED BY <1>1, <1>2, <1>3, <1>4, <1>5, <1>6, <1>7, <1>8, <1>9, <1>10,
  <1>11, <1>12, <1>13, <1>14, <1>15, <1>16, <1>17, <1>18, <1>19, <1>20,
  <1>21, <1>22, <1>23, <1>24, <1>25, <1>26, <1>27, <1>28, <1>29
  DEF Next, StartStep, CallStep, RxStep

LEMMA ResultAlways == Spec => []ResultAgrees
<1>1. Init => ResultAgrees
  BY DEF Init, ResultAgrees
<1>2. IInv /\ IInv' /\ ResultAgrees /\ [Next]_vars => ResultAgrees'
  BY StepFacts
<1> QED BY <1>1, <1>2, IInvAlways, PTL DEF Spec

(* A call's result and the session it leaves agree, for every way a libusb call
   of hu_aap_start, hu_aap_recv_process or hu_aap_enc_send can end.           *)
THEOREM ResultAgreesHolds == Spec => []ResultAgrees
BY ResultAlways

(* On one connection the phone sees the messages of a start in their order,
   each once, and encrypted ones only after Auth Complete.                    *)
THEOREM WireOrderHolds == Spec => WireOrder
<1>1. IInv /\ IInv' /\ ResultAgrees /\ [Next]_vars => [WireStep]_vars
  BY StepFacts
<1> QED BY <1>1, IInvAlways, ResultAlways, PTL DEF WireOrder, Spec

(* Nothing goes out on a session that hu_aap_stop has been through, whatever
   handler or loop is still running.                                          *)
THEOREM NoSendWhenDownHolds == Spec => NoSendWhenDown
<1>1. IInv /\ IInv' /\ ResultAgrees /\ [Next]_vars => [SendStep]_vars
  BY StepFacts
<1> QED BY <1>1, IInvAlways, ResultAlways, PTL DEF NoSendWhenDown, Spec

(* The session of hu_aap.c and hu_usb.c implements the life cycle AapLink. *)
THEOREM Implements == Spec => LinkImplemented
<1>1. Init => Link!LinkInit
  BY DEF Init, Link!LinkInit, Phase, Progress, Rank
<1>2. IInv /\ IInv' /\ ResultAgrees /\ [Next]_vars => [Link!LinkNext]_(Link!linkVars)
  BY StepFacts DEF LinkStep
<1> QED BY <1>1, <1>2, IInvAlways, ResultAlways, PTL DEF LinkImplemented, Link!LinkSpec, Spec

-----------------------------------------------------------------------------
(* Calls end.                                                              *)

Partial == IF tail = "partial" THEN 1 ELSE 0

(* The libusb calls, and the steps between them, that the running call may still
   make: two for each opening of the device that is left, then those of a start;
   or five for each packet of a read, and the one that completes the last.    *)
StepsLeft ==
  CASE pc = "usb_oap" -> 2 * (MaxTries - tries) + 21
    [] pc = "usb_try" -> 2 * (MaxTries - tries) + 20
    [] pc = "vers_send" -> 10
    [] pc = "vers_recv" -> 9
    [] pc = "hs_init" -> 8
    [] pc = "hs_send" -> 7 - 2 * hs_ctr
    [] pc = "hs_recv" -> 6 - 2 * hs_ctr
    [] pc = "auth_send" -> 3
    [] pc = "rx" -> 5 * packets + Partial + 1
    [] pc = "reply" -> 5 * (packets - 1) + Partial + replies + 2
    [] pc = "bye" -> 1
    [] pc = "idle" -> 0

Ends == pc # "idle" => StepsLeft \in Nat /\ StepsLeft' < StepsLeft

LEMMA StartEnds == ASSUME IInv, StartStep PROVE Ends
<1> USE BoundsAssumption DEF IInv, TypeOK, PcInv, Ends, StepsLeft, Returns, UsbStartFails, StartFails
<1>1. CASE UsbInitFails
  BY <1>1 DEF UsbInitFails
<1>2. CASE UsbOpens
  BY <1>2 DEF UsbOpens
<1>3. CASE OapStarts
  BY <1>3 DEF OapStarts
<1>4. CASE OapFails
  BY <1>4 DEF OapFails
<1>5. CASE UsbGivesUp
  BY <1>5 DEF UsbGivesUp
<1>6. CASE VersSend
  BY <1>6 DEF VersSend
<1>7. CASE VersRecv
  BY <1>7 DEF VersRecv
<1>8. CASE HsInit
  BY <1>8 DEF HsInit
<1>9. CASE HsSend
  BY <1>9 DEF HsSend
<1>10. CASE HsRecv
  BY <1>10 DEF HsRecv, HsRounds
<1>11. CASE AuthSend
  BY <1>11 DEF AuthSend
<1> QED BY <1>1, <1>2, <1>3, <1>4, <1>5, <1>6, <1>7, <1>8, <1>9, <1>10, <1>11 DEF StartStep

LEMMA RxEnds == ASSUME IInv, RxStep PROVE Ends
<1> USE BoundsAssumption DEF IInv, TypeOK, Ends, StepsLeft, Partial, Returns, callVars, rxVars
<1>1. CASE RxCompletes
  BY <1>1 DEF RxCompletes
<1>2. CASE RxFails
  BY <1>2 DEF RxFails
<1>3. CASE RxOther \/ RxByebye
  BY <1>3 DEF RxOther, RxByebye, RxMessage
<1>4. CASE Reply
  BY <1>4 DEF Reply
<1>5. CASE HandlerReturns
  BY <1>5 DEF HandlerReturns
<1>6. CASE RxDone
  BY <1>6 DEF RxDone
<1> QED BY <1>1, <1>2, <1>3, <1>4, <1>5, <1>6 DEF RxStep

(* No call of hu_aap.c goes on for ever, however often the phone re-enumerates
   and however its libusb calls end: every step takes off a number that is not
   negative.  What remains for CallsReturn is that each libusb call returns.  *)
CallEnds == [][Ends]_vars

THEOREM CallEndsHolds == Spec => CallEnds
<1>1. ASSUME IInv, Next PROVE Ends
  <2>1. CASE StartStep
    BY <1>1, <2>1, StartEnds
  <2>2. CASE RxStep
    BY <1>1, <2>2, RxEnds
  <2>3. CASE ByebyeStops
    BY <2>3 DEF ByebyeStops, Returns, Ends, StepsLeft
  <2>4. CASE CallStep
    BY <2>4 DEF CallStep, StartAgain, StartWifi, StartUsb, PollRefused, PollTimesOut, PollFails, PollGets,
                AppSend, AppByebye, Ends
  <2> QED BY <1>1, <2>1, <2>2, <2>3, <2>4 DEF Next
<1>2. IInv /\ [Next]_vars => [Ends]_vars
  BY <1>1
<1> QED BY <1>2, IInvAlways, PTL DEF Spec, CallEnds
=============================================================================
