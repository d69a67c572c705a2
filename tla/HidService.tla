----------------------------- MODULE HidService -----------------------------
(***************************************************************************)
(* The AOAP media service (main_aoap_streaming.cpp, AOAPService.cpp,       *)
(* AOAPMediaControl.cpp) with the HID pipe under it (usbhost_hid.c).       *)
(*                                                                         *)
(* The main thread registers the service, starts the binder threads, opens *)
(* the phone and then only sleeps.  Every binder thread serves one call at *)
(* a time; a call presses a key on the phone, sleeps 50 ms and releases    *)
(* it, over the one dev_handle and without a lock.  The phone knows one    *)
(* key at a time: each report replaces the one before.                     *)
(*                                                                         *)
(* The operators whose comment starts with Mutant are slips of the         *)
(* definition after them that a run must notice; they are not used.        *)
(***************************************************************************)
EXTENDS Integers

CONSTANTS
  Threads,   \* the binder threads
  Chunks     \* transfers that carry ReportDescriptor, 4

ASSUME ServiceAssumption == Chunks \in Nat

VARIABLES
  phase,       \* where AOAPService::init and main are
  context,     \* whether libusb_init succeeded
  dev_handle,  \* "NULL" or "open"
  done,        \* set-up transfers of hid_init so far
  heard,       \* those of them that the phone has taken
  pc,          \* of each thread: "idle", "press" or "held"
  key,         \* of each thread: the HID_COMMAND it sends
  down,        \* the key that is down on the phone, or NoKey
  lost         \* whether the last release was lost on its way

initVars == <<phase, context, dev_handle, done, heard>>
callVars == <<pc, key>>
phoneVars == <<down, lost>>
vars == <<initVars, callVars, phoneVars>>

Keys == {"STOP", "TOGGLEPLAY", "NEXT", "PREV"}
NoKey == "none"

Phases == {"register", "binder", "libusb_init", "open", "setup", "tick", "exited", "crashed"}

Served == phase \in {"libusb_init", "open", "setup", "tick"}
Dead == phase \in {"exited", "crashed"}

TypeOK ==
  /\ phase \in Phases
  /\ context \in BOOLEAN
  /\ dev_handle \in {"NULL", "open"}
  /\ done \in 0..(Chunks + 1) /\ heard \in 0..done
  /\ pc \in [Threads -> {"idle", "press", "held"}]
  /\ key \in [Threads -> Keys \cup {NoKey}]
  /\ \A t \in Threads : pc[t] # "idle" => key[t] \in Keys
  /\ down \in Keys \cup {NoKey}
  /\ lost \in BOOLEAN

Init ==
  /\ phase = "register"
  /\ context = FALSE /\ dev_handle = "NULL" /\ done = 0 /\ heard = 0
  /\ pc = [t \in Threads |-> "idle"]
  /\ key = [t \in Threads |-> NoKey]
  /\ down = NoKey /\ lost = FALSE

-----------------------------------------------------------------------------
(* AOAPService::init                                                       *)

RegisterService ==
  /\ phase = "register"
  /\ phase' = "binder"
  /\ UNCHANGED <<context, dev_handle, done, heard, callVars, phoneVars>>

InitBinder ==
  /\ phase = "binder"
  /\ phase' = "libusb_init"
  /\ UNCHANGED <<context, dev_handle, done, heard, callVars, phoneVars>>

(* hid_init keeps the results of libusb in r, which is unsigned: r < 0 is never
   true, and it goes on after each failure as after a success.               *)
LibusbInit(ok) ==
  /\ phase = "libusb_init"
  /\ context' = ok
  /\ dev_handle' = "NULL"
  /\ phase' = "open"
  /\ UNCHANGED <<done, heard, callVars, phoneVars>>

(* The search for a device dereferences the context.                       *)
NoContext ==
  /\ phase = "open" /\ ~context
  /\ phase' = "crashed"
  /\ UNCHANGED <<context, dev_handle, done, heard, callVars, phoneVars>>

DeviceFound ==
  /\ phase = "open" /\ context
  /\ dev_handle' = "open"
  /\ phase' = "setup"
  /\ UNCHANGED <<context, done, heard, callVars, phoneVars>>

(* Mutant: bRes |= !hid_init(), and the service goes on without a device.  *)
NoDeviceIgnored ==
  /\ phase = "open" /\ context
  /\ context' = FALSE
  /\ phase' = "tick"
  /\ UNCHANGED <<dev_handle, done, heard, callVars, phoneVars>>

NoDevice ==
  /\ phase = "open" /\ context
  /\ context' = FALSE
  /\ phase' = "exited"
  /\ UNCHANGED <<dev_handle, done, heard, callVars, phoneVars>>

(* Mutant: one transfer too many, while( iSize <= sizeof( ReportDescriptor ) ). *)
AllSentLate == done > Chunks

AllSent == done = Chunks

(* ACCESSORY_REGISTER_HID, then one transfer for each part of the descriptor. *)
SetUp(taken) ==
  /\ phase = "setup"
  /\ done' = done + 1
  /\ heard' = IF taken THEN heard + 1 ELSE heard
  /\ phase' = IF AllSent THEN "tick" ELSE "setup"
  /\ UNCHANGED <<context, dev_handle, callVars, phoneVars>>

(* SIGINT ends the loop of main, and exit ends the threads where they are. *)
Quits ==
  /\ phase = "tick"
  /\ phase' = "exited"
  /\ UNCHANGED <<context, dev_handle, done, heard, callVars, phoneVars>>

-----------------------------------------------------------------------------
(* Calls                                                                   *)

(* AOAPService::enable, disable and onEvent, and AOAPMediaControl::onEvent: all
   that differs is the key they send.  Other events return without a step.    *)
Called(t, command) ==
  /\ Served /\ pc[t] = "idle"
  /\ pc' = [pc EXCEPT ![t] = "press"]
  /\ key' = [key EXCEPT ![t] = command]
  /\ UNCHANGED <<initVars, phoneVars>>

(* The phone takes reports once it has the whole descriptor.               *)
Listens == heard = Chunks + 1

(* Mutant: the bytes of the first report are sent again.                   *)
ReleasedStays(k) == k

Released(k) == NoKey

(* A transfer that fails may still have reached the phone.                 *)
Outcomes == {"sent", "failed late", "failed"}

Reaches(outcome) == Listens /\ outcome # "failed"

NoHandle(t) ==
  /\ Served /\ pc[t] = "press" /\ dev_handle = "NULL"
  /\ phase' = "crashed"
  /\ UNCHANGED <<context, dev_handle, done, heard, callVars, phoneVars>>

(* Mutant: hid_send returns when the first transfer fails.                 *)
AfterPressGivesUp(outcome) == IF outcome = "sent" THEN "held" ELSE "idle"

AfterPress(outcome) == "held"

Presses(t, outcome) ==
  /\ Served /\ pc[t] = "press" /\ dev_handle = "open"
  /\ outcome = "sent" => Listens
  /\ pc' = [pc EXCEPT ![t] = AfterPress(outcome)]
  /\ down' = IF Reaches(outcome) THEN key[t] ELSE down
  /\ lost' = (lost /\ ~Reaches(outcome))
  /\ UNCHANGED <<initVars, key>>

Releases(t, outcome) ==
  /\ Served /\ pc[t] = "held"
  /\ outcome = "sent" => Listens
  /\ pc' = [pc EXCEPT ![t] = "idle"]
  /\ key' = [key EXCEPT ![t] = NoKey]
  /\ down' = IF Reaches(outcome) THEN Released(key[t]) ELSE down
  /\ lost' = ~Reaches(outcome)
  /\ UNCHANGED initVars

Main ==
  \/ RegisterService \/ InitBinder
  \/ \E ok \in BOOLEAN : LibusbInit(ok)
  \/ NoContext \/ DeviceFound \/ NoDevice
  \/ \E taken \in BOOLEAN : SetUp(taken)
  \/ Quits

Sends(t) == NoHandle(t) \/ \E o \in Outcomes : Presses(t, o) \/ Releases(t, o)

Thread(t) == Sends(t) \/ \E command \in Keys : Called(t, command)

Next == Main \/ \E t \in Threads : Thread(t)

Spec == Init /\ [][Next]_vars

(* Both transfers of a call have limits of 100 ms, and so it ends.         *)
FairSpec == Spec /\ \A t \in Threads : WF_vars(Sends(t))

-----------------------------------------------------------------------------
(* hid_send only logs a failed transfer and goes on: whatever fails, and however
   calls overlap, a key that is down will be released by the call that pressed
   it, unless the transfer of a release was lost.                             *)
NoStuckKey ==
  ~Dead /\ down # NoKey /\ ~lost =>
    \E t \in Threads : pc[t] = "held" /\ key[t] = down

(* The loop of main is entered only with an open device: after the start no call
   can meet the NULL handle that calls before it can.                         *)
TickMeansOpen == phase = "tick" => dev_handle = "open"

(* Every key that goes down comes up again, if the process lives and the release
   is not lost.                                                               *)
KeyReleased == (down # NoKey) ~> (down = NoKey \/ lost \/ Dead)

(* hid_init says that the set-up has failed ("Register HID error",
   "SET_HID_REPORT_DESC error") when it has: a service that starts has a phone
   that takes its reports.                                                    *)
StartedMeansListens == phase = "tick" => Listens
=============================================================================
