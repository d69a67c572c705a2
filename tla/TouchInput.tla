----------------------------- MODULE TouchInput -----------------------------
(***************************************************************************)
(* The touch panel of the head unit (AndroidAutoTouch.cpp): each call of   *)
(* TOUCH_getAction reads at most one event of the kernel and folds it into *)
(* event; the event that ends a report makes one touch message of it.      *)
(*                                                                         *)
(* The kernel reports what has changed on the panel, in reports that end   *)
(* with a SYN.  When its queue overruns it drops what is unread, and a SYN *)
(* of its own (SYN_DROPPED) stands for it, which the code takes for the    *)
(* end of a report.                                                        *)
(***************************************************************************)
EXTENDS Integers, Sequences

CONSTANTS
  Places,     \* where the panel can be touched, as it reports them
  QueueLen,   \* events the kernel keeps, at least those of one report
  None        \* no message

ASSUME TouchAssumption ==
  /\ Places \subseteq [x : 0..255, y : 0..255]
  /\ [x |-> 0, y |-> 0] \in Places
  /\ QueueLen \in Nat /\ QueueLen >= 4
  /\ None \notin [action : {"DOWN", "UP", "MOVE"}, X : Nat, Y : Nat]

VARIABLES
  finger,     \* on the panel: whether it is touched, and where last
  reports,    \* how many reports it made
  kernel,     \* the events that wait to be read
  dropped,    \* whether the kernel has dropped any
  event       \* the static of the code

panel == <<finger, reports, kernel, dropped>>
touchVars == <<panel, event>>

Events == [code : {"SYN", "KEY", "ABS_X", "ABS_Y"}, value : 0..255]

Ev(c, v) == [code |-> c, value |-> v]

Syn == Ev("SYN", 0)

(* From the range of the panel to that of the screen.                      *)
Scaled(v, size) == (v * size) \div 255

TouchTypeOK ==
  /\ finger \in [down : BOOLEAN, at : Places]
  /\ reports \in Nat
  /\ kernel \in Seq(Events) /\ Len(kernel) <= QueueLen
  /\ dropped \in BOOLEAN
  /\ event \in [NeedsReport : BOOLEAN, NewButton : BOOLEAN, OldButton : BOOLEAN,
                X : 0..800, Y : 0..480]

(* TOUCH_init                                                              *)
TouchInit ==
  /\ finger = [down |-> FALSE, at |-> [x |-> 0, y |-> 0]]
  /\ reports = 0
  /\ kernel = <<>>
  /\ dropped = FALSE
  /\ event = [NeedsReport |-> FALSE, NewButton |-> FALSE, OldButton |-> FALSE, X |-> 0, Y |-> 0]

-----------------------------------------------------------------------------
(* The kernel.                                                             *)

(* What has changed.                                                       *)
Report(now) ==
  LET Key == IF now.down = finger.down THEN <<>> ELSE <<Ev("KEY", IF now.down THEN 1 ELSE 0)>>
      Abs(c, old, new) == IF old = new THEN <<>> ELSE <<Ev(c, new)>>
  IN Key \o Abs("ABS_X", finger.at.x, now.at.x) \o Abs("ABS_Y", finger.at.y, now.at.y) \o <<Syn>>

(* The panel is touched, or the finger moves on it, or leaves it.          *)
Moves(now) ==
  /\ now # finger
  /\ now.down \/ finger.down
  /\ ~now.down => now.at = finger.at
  /\ finger' = now /\ reports' = reports + 1
  /\ IF Len(kernel) + Len(Report(now)) <= QueueLen
     THEN kernel' = kernel \o Report(now) /\ UNCHANGED dropped
     ELSE /\ \E k \in 2..Len(Report(now)) :
               kernel' = <<Syn>> \o SubSeq(Report(now), k, Len(Report(now)))
          /\ dropped' = TRUE

Touched == \E now \in [down : BOOLEAN, at : Places] : Moves(now)

-----------------------------------------------------------------------------
(* TOUCH_getAction                                                         *)

(* Mutant: every report of a pressed button is one that it went down.      *)
ActionOfButton(e) == IF e.NewButton THEN "DOWN" ELSE IF e.OldButton THEN "UP" ELSE "MOVE"

Action(e) ==
  IF e.NewButton = e.OldButton THEN "MOVE" ELSE IF e.NewButton THEN "DOWN" ELSE "UP"

(* processEvent: the message; its numbers have one or two bytes each.      *)
Message(e) == [action |-> Action(e), X |-> e.X, Y |-> e.Y]

Reported(e) ==
  [NeedsReport |-> FALSE, NewButton |-> e.NewButton, OldButton |-> e.NewButton, X |-> e.X, Y |-> e.Y]

(* Mutant: a change of place alone is not told.                            *)
ChangedButton(e, button, x, y) ==
  [NeedsReport |-> e.NeedsReport \/ button # e.NewButton, NewButton |-> button,
   OldButton |-> e.OldButton, X |-> x, Y |-> y]

(* A part of a report, which is yet to be told.                            *)
Changed(e, button, x, y) ==
  [NeedsReport |-> TRUE, NewButton |-> button, OldButton |-> e.OldButton, X |-> x, Y |-> y]

(* What an event makes of event.                                           *)
Folded(ev, e) ==
  IF ev.code = "KEY" THEN Changed(e, ev.value # 0, e.X, e.Y)
  ELSE IF ev.code = "ABS_X" THEN Changed(e, e.NewButton, Scaled(ev.value, 800), e.Y)
  ELSE IF ev.code = "ABS_Y" THEN Changed(e, e.NewButton, e.X, Scaled(ev.value, 480))
  ELSE IF e.NeedsReport THEN Reported(e) ELSE e

(* The message of an event, None if it makes none.                         *)
Made(ev, e) == IF ev.code = "SYN" /\ e.NeedsReport THEN Message(e) ELSE None

GetAction(m) ==
  \/ kernel = <<>> /\ m = None /\ UNCHANGED touchVars
  \/ /\ kernel # <<>> /\ m = Made(Head(kernel), event)
     /\ kernel' = Tail(kernel)
     /\ event' = Folded(Head(kernel), event)
     /\ UNCHANGED <<finger, reports, dropped>>
=============================================================================
