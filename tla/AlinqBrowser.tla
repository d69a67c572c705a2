---------------------------- MODULE AlinqBrowser ----------------------------
(***************************************************************************)
(* The browser of the phone's media (android_browser.c) over the requests  *)
(* of AlinqCommands: a root with the groups, below a group its items, below*)
(* an item its tracks.  One thread navigates; others use the requests at   *)
(* the same time.                                                          *)
(*                                                                         *)
(* iCurrentItemIndex, which is only stored for others, is left out.        *)
(*                                                                         *)
(* A count is kept as what was counted: the answer that brought it, None   *)
(* for 0, and Root for the fixed number of groups.                         *)
(***************************************************************************)
EXTENDS AlinqCommands

CONSTANTS
  ui,            \* the thread of the browser
  Groups,        \* the groups of aRootItems
  AllFiles,      \* the one without items, GROUP_ALL_FILES
  Items,         \* the indices of items and tracks
  Root,          \* NELEMS( aRootItems )
  NotSelected,   \* NOT_SELECTED
  OtherCalls     \* what the other threads ask for

ASSUME BrowserAssumption ==
  /\ ui \in Threads
  /\ AllFiles \in Groups
  /\ NotSelected \notin Groups \cup Items
  /\ Root \notin Answers \cup {None}
  /\ Groups \cup (Groups \X Items) \cup Items \subseteq Args
  /\ OtherCalls \subseteq Calls

VARIABLES
  iCurrentNodeType, iCurrentNodeIndex,
  iCurrentNodeNodesCount, iCurrentNodeItemsCount,
  iRootNodeIdx,
  assigns     \* the count that takes the result of the running call: "nodes", "items" or "none"

counts == <<iCurrentNodeNodesCount, iCurrentNodeItemsCount>>
node == <<iCurrentNodeType, iCurrentNodeIndex, iRootNodeIdx>>
vars == <<cmdVars, counts, node, assigns>>

Counts == Answers \cup {None, Root}

TypeOK ==
  /\ CmdTypeOK
  /\ iCurrentNodeType \in Groups \cup {NotSelected}
  /\ iCurrentNodeIndex \in Items \cup {NotSelected}
  /\ iCurrentNodeNodesCount \in Counts /\ iCurrentNodeItemsCount \in Counts \ {Root}
  /\ iRootNodeIdx \in Groups
  /\ assigns \in {"nodes", "items", "none"}

(* ABROWSER_Activate                                                       *)
Init ==
  /\ CmdInit
  /\ iCurrentNodeType = NotSelected /\ iCurrentNodeIndex = NotSelected
  /\ iCurrentNodeNodesCount = Root /\ iCurrentNodeItemsCount = None
  /\ iRootNodeIdx \in Groups
  /\ assigns = "none"

-----------------------------------------------------------------------------
(* The level of the browser.                                               *)
AtRoot == iCurrentNodeType = NotSelected
InGroup == ~AtRoot /\ iCurrentNodeIndex = NotSelected
InItem == ~AtRoot /\ iCurrentNodeIndex # NotSelected

(* The indices below a count.                                              *)
Below(count) == IF count = None THEN {} ELSE IF count = Root THEN Groups ELSE Items

(* The thread of the browser is between two calls.                         *)
Ready == bIsoAudioStreaming # "unset" /\ pc[ui] = "idle" /\ assigns = "none"

Calling(op, arg) == Begin(ui, [op |-> op, arg |-> arg])

(* The browser at its root, as browserSetNode leaves it.                   *)
ToRoot ==
  /\ iCurrentNodeType' = NotSelected /\ iCurrentNodeIndex' = NotSelected
  /\ iCurrentNodeNodesCount' = Root /\ iCurrentNodeItemsCount' = None

(* The group g is selected: of all files the items are counted, of the other
   groups the nodes.                                                          *)
ToGroup(g, itemsBefore) ==
  /\ iRootNodeIdx' = g
  /\ iCurrentNodeIndex' = NotSelected
  /\ iCurrentNodeType' = g
  /\ iCurrentNodeNodesCount' = IF g = AllFiles THEN None ELSE Root
  /\ iCurrentNodeItemsCount' = itemsBefore
  /\ assigns' = IF g = AllFiles THEN "items" ELSE "nodes"
  /\ Calling("SelectGroup", g)

SetNodeRoot ==
  /\ Ready
  /\ ToRoot
  /\ UNCHANGED <<cmdVars, iRootNodeIdx, assigns>>

(* From an item the root is passed and the group selected again.           *)
SetNodeLevelUp ==
  /\ Ready
  /\ \/ InGroup /\ ToRoot /\ UNCHANGED <<cmdVars, iRootNodeIdx, assigns>>
     \/ InItem /\ ToGroup(iRootNodeIdx, None)

SetNodeGroup ==
  /\ Ready /\ AtRoot
  /\ \E g \in Below(iCurrentNodeNodesCount) : ToGroup(g, iCurrentNodeItemsCount)

(* Mutant: the tracks of the item before stay if there is no answer.       *)
AssignsKeeps(count) == IF got[ui] = None THEN count ELSE got[ui]

Assigns(count) == got[ui]

SetNodeItem ==
  /\ Ready /\ InGroup
  /\ \E i \in Below(iCurrentNodeNodesCount) :
       /\ iCurrentNodeIndex' = i
       /\ Calling("SelectGroupItem", <<iCurrentNodeType, i>>)
  /\ iCurrentNodeNodesCount' = None
  /\ assigns' = "items"
  /\ UNCHANGED <<iCurrentNodeType, iRootNodeIdx, iCurrentNodeItemsCount>>

(* The call of browserSetNode has returned; 0 if it failed.                *)
SetNodeReturns ==
  /\ pc[ui] = "idle"
  /\ \/ /\ assigns = "nodes"
        /\ iCurrentNodeNodesCount' = Assigns(iCurrentNodeNodesCount)
        /\ iCurrentNodeItemsCount' = None
     \/ /\ assigns = "items"
        /\ iCurrentNodeItemsCount' = Assigns(iCurrentNodeItemsCount)
        /\ UNCHANGED iCurrentNodeNodesCount
  /\ assigns' = "none"
  /\ got' = [got EXCEPT ![ui] = None]
  /\ UNCHANGED <<CmdMutex, bIsoAudioStreaming, pipe, pc, call, todo, tries, node>>

GetItem ==
  /\ Ready
  /\ \E i \in Below(iCurrentNodeItemsCount) : Calling("GetTrackName", i)
  /\ UNCHANGED <<node, counts, assigns>>

SetItem ==
  /\ Ready
  /\ \E i \in Below(iCurrentNodeItemsCount) : Calling("SelectCurrentTrack", i)
  /\ UNCHANGED <<node, counts, assigns>>

(* Names of groups are a table.                                            *)
GetNode ==
  /\ Ready /\ InGroup
  /\ \E i \in Below(iCurrentNodeNodesCount) : Calling("GetGroupItemName", <<iCurrentNodeType, i>>)
  /\ UNCHANGED <<node, counts, assigns>>

-----------------------------------------------------------------------------
(* ACOMMAND_Activate, before anything else.                                *)
Starts ==
  /\ bIsoAudioStreaming = "unset"
  /\ Calling("Activate", AllFiles)
  /\ UNCHANGED <<node, counts, assigns>>

Browse ==
  \/ SetNodeRoot \/ SetNodeLevelUp \/ SetNodeGroup \/ SetNodeItem \/ SetNodeReturns
  \/ GetItem \/ SetItem \/ GetNode

Other ==
  /\ \E t \in Threads \ {ui}, c \in OtherCalls : Begin(t, c)
  /\ UNCHANGED <<node, counts, assigns>>

Runs(t) == Step(t) /\ UNCHANGED <<node, counts, assigns>>

Next == Starts \/ Browse \/ Other \/ \E t \in Threads : Runs(t)

Spec == Init /\ [][Next]_vars

(* Every transfer ends, by its limit of time if not before.                *)
FairSpec == Spec /\ \A t \in Threads : WF_vars(Transfer(t) /\ Runs(t))

-----------------------------------------------------------------------------
(* The counts by which the browser lets indices through are those of the group it
   shows and of the item that is active on the phone, or 0 where a call failed:
   a failed or repeated selection never leaves the count of another node behind,
   as long as no answer was left in the pipe.                                 *)
CountsHonest ==
  Ready /\ lates = 0 =>
    /\ AtRoot => iCurrentNodeNodesCount = Root /\ iCurrentNodeItemsCount = None
    /\ InGroup => /\ {iCurrentNodeNodesCount, iCurrentNodeItemsCount}
                       \subseteq {None, [cmd |-> "GET_GROUP_ITEMS_COUNT", arg |-> iCurrentNodeType]}
                  /\ None \in {iCurrentNodeNodesCount, iCurrentNodeItemsCount}
    /\ InItem => /\ iCurrentNodeNodesCount = None
                 /\ iCurrentNodeItemsCount \in {None, [cmd |-> "GET_TRK_COUNT", arg |-> active]}
=============================================================================
