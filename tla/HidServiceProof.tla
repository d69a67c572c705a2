--------------------------- MODULE HidServiceProof ---------------------------
(***************************************************************************)
(* Theorems about HidService, for every set of binder threads and every    *)
(* length of the descriptor.                                               *)
(***************************************************************************)
EXTENDS HidService, TLAPS

(* A thread between its transfers has found an open handle, and hid_init sets
   one up only after it has found a device.                                   *)
Opened ==
  /\ phase \in {"setup", "tick"} => dev_handle = "open"
  /\ phase = "setup" => done <= Chunks
  /\ phase \in {"register", "binder", "libusb_init", "open"} => done = 0

IInv == TypeOK /\ Opened /\ NoStuckKey

LEMMA InitInv == Init => IInv
<1> SUFFICES ASSUME Init PROVE IInv
  OBVIOUS
<1> USE ServiceAssumption DEF ServiceAssumption, Init
<1>1. TypeOK
  <2>1. context \in BOOLEAN /\ lost \in BOOLEAN
    OBVIOUS
  <2>2. \A t \in Threads : pc[t] # "idle" => key[t] \in Keys
    OBVIOUS
  <2>3. key \in [Threads -> Keys \cup {NoKey}]
    OBVIOUS
  <2>4. done \in 0..(Chunks + 1) /\ heard \in 0..done
    OBVIOUS
  <2> QED BY <2>1, <2>2, <2>3, <2>4 DEF TypeOK, Phases
<1>2. Opened
  BY DEF Opened
<1>3. NoStuckKey
  BY DEF NoStuckKey
<1> QED BY <1>1, <1>2, <1>3 DEF IInv

LEMMA MainInv == IInv /\ Main => IInv'
<1> SUFFICES ASSUME IInv, Main PROVE IInv'
  OBVIOUS
<1> USE ServiceAssumption
    DEF ServiceAssumption, IInv, TypeOK, Opened, NoStuckKey, Dead, Phases, callVars, phoneVars
<1>1. CASE RegisterService
  BY <1>1 DEF RegisterService
<1>2. CASE InitBinder
  BY <1>2 DEF InitBinder
<1>3. ASSUME NEW ok \in BOOLEAN, LibusbInit(ok) PROVE IInv'
  BY <1>3 DEF LibusbInit
<1>4. CASE NoContext
  BY <1>4 DEF NoContext
<1>5. CASE DeviceFound
  BY <1>5 DEF DeviceFound
<1>6. CASE NoDevice
  BY <1>6 DEF NoDevice
<1>7. ASSUME NEW taken \in BOOLEAN, SetUp(taken) PROVE IInv'
  BY <1>7 DEF SetUp, AllSent
<1>8. CASE Quits
  BY <1>8 DEF Quits
<1> QED BY <1>1, <1>2, <1>3, <1>4, <1>5, <1>6, <1>7, <1>8 DEF Main

LEMMA ThreadInv == ASSUME IInv, NEW t \in Threads, Thread(t) PROVE IInv'
<1> USE DEF IInv, TypeOK, Opened, NoStuckKey, Dead, initVars
<1>1. ASSUME NEW command \in Keys, Called(t, command) PROVE IInv'
  BY <1>1 DEF Called, phoneVars
<1>2. CASE NoHandle(t)
  BY <1>2 DEF NoHandle, callVars, phoneVars, Phases
<1>3. ASSUME NEW o \in Outcomes, Presses(t, o) PROVE IInv'
  <2>1. TypeOK' /\ Opened'
    BY <1>3 DEF Presses, AfterPress
  <2>2. CASE Reaches(o)
    <3>1. down' = key[t] /\ pc'[t] = "held" /\ key' = key
      BY <1>3, <2>2 DEF Presses, AfterPress
    <3> QED BY <2>1, <3>1
  <2>3. CASE ~Reaches(o)
    <3>1. down' = down /\ lost' = lost /\ key' = key /\ phase' = phase
      BY <1>3, <2>3 DEF Presses
    <3>2. \A u \in Threads : pc[u] = "held" => pc'[u] = "held"
      BY <1>3 DEF Presses, AfterPress
    <3> QED BY <2>1, <3>1, <3>2
  <2> QED BY <2>2, <2>3
<1>4. ASSUME NEW o \in Outcomes, Releases(t, o) PROVE IInv'
  <2>1. TypeOK' /\ Opened'
    BY <1>4 DEF Releases, Released, NoKey
  <2>2. Reaches(o) => down' = NoKey
    BY <1>4 DEF Releases, Released
  <2>3. ~Reaches(o) => lost'
    BY <1>4 DEF Releases
  <2> QED BY <2>1, <2>2, <2>3
<1> QED BY <1>1, <1>2, <1>3, <1>4 DEF Thread, Sends

LEMMA NextInv == IInv /\ [Next]_vars => IInv'
<1> SUFFICES ASSUME IInv, [Next]_vars PROVE IInv'
  OBVIOUS
<1>1. CASE UNCHANGED vars
  BY <1>1 DEF vars, initVars, callVars, phoneVars, IInv, TypeOK, Opened, NoStuckKey, Dead
<1> QED BY <1>1, MainInv, ThreadInv DEF Next

LEMMA AlwaysInv == Spec => []IInv
BY InitInv, NextInv, PTL DEF Spec

(* Every reachable state of the service is well typed.                      *)
THEOREM TypeCorrect == Spec => []TypeOK
<1>1. IInv => TypeOK
  BY DEF IInv
<1> QED BY <1>1, AlwaysInv, PTL

(* However the calls of any number of threads overlap and whatever transfers
   fail, a key that is down has a call that will release it, unless a release
   was lost.                                                                  *)
THEOREM NoStuckKeyHolds == Spec => []NoStuckKey
<1>1. IInv => NoStuckKey
  BY DEF IInv
<1> QED BY <1>1, AlwaysInv, PTL

(* A service that has started has an open device.                           *)
THEOREM TickMeansOpenHolds == Spec => []TickMeansOpen
<1>1. IInv => TickMeansOpen
  BY DEF IInv, Opened, TickMeansOpen
<1> QED BY <1>1, AlwaysInv, PTL
=============================================================================
