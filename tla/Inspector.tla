------------------------------ MODULE Inspector ------------------------------
(***************************************************************************)
(* What an operator reads and handles on the console: the spine of         *)
(* transmissions (transmission-spine.js), the inspector that opens on one  *)
(* of them (app.js openInspector) and the data pad it fills (data-pad.js), *)
(* with the boot screen in front of them (app.js runBoot, wireKeyboard).   *)
(*                                                                         *)
(* A step is one callback of the browser's event loop.  The rest of the    *)
(* page may give the spine any rows in order, add any row or clear it, at   *)
(* any time: lists are reloaded, events come, replays begin and end.  A    *)
(* packet is its id.  The pad's texts are left out: header and body are    *)
(* always written together, for one transmission.                          *)
(***************************************************************************)
EXTENDS Naturals, Sequences, FiniteSets, SequencesExt

CONSTANTS
  Ids,        \* transmissions
  WithRef,    \* those with a message_ref, whose message is fetched
  NumTabs,    \* tabs of the pad, the first is SUMMARY
  NumLines,   \* lines of the boot screen
  MaxCopies   \* bound: clipboard promises under way

ASSUME InspectorAssumption ==
  /\ Ids \subseteq Nat \ {0} /\ IsFiniteSet(Ids) /\ WithRef \subseteq Ids
  /\ NumTabs \in Nat \ {0} /\ NumLines \in Nat \ {0} /\ MaxCopies \in Nat

VARIABLES
  order,        \* spine: the packets, as rendered
  highlighted,  \* spine: the packets with the class is-selected
  selectedId,   \* spine: 0 if none
  placeholder,  \* whether the placeholder of an empty spine is visible
  inspections,  \* inspections whose message is being fetched
  shown,        \* pad: the transmission it was rendered for, 0 if none yet
  tab,          \* pad: current.tab
  open,         \* pad: the class open
  copying,      \* clipboard promises under way
  label,        \* text of the COPY button
  prevLabel,    \* its data-prev-label, "none" if it has none
  copyTimer,    \* whether flashCopy's timer is pending
  bootDone,
  overlay,      \* "shown", "leaving", "gone", or "none" if the page has none
  lines,        \* boot lines printed
  printing,     \* whether the timer that prints the next one is pending
  dismissals    \* pending timers of dismissBoot

spineVars == <<order, highlighted, selectedId, placeholder>>
padVars   == <<shown, tab, open>>
copyVars  == <<copying, label, prevLabel, copyTimer>>
bootVars  == <<bootDone, overlay, lines, printing, dismissals>>
vars      == <<spineVars, inspections, padVars, copyVars, bootVars>>

-----------------------------------------------------------------------------
Labels == {"COPY", "COPIED", "COPY FAILED"}

TypeOK ==
  /\ order \in Seq(Ids) /\ IsInjective(order)
  /\ highlighted \subseteq ToSet(order)
  /\ selectedId \in Ids \cup {0}
  /\ placeholder \in BOOLEAN
  /\ inspections \subseteq WithRef
  /\ shown \in Ids \cup {0} /\ tab \in 1..NumTabs /\ open \in BOOLEAN
  /\ copying \in 0..MaxCopies
  /\ label \in Labels /\ prevLabel \in Labels \cup {"none"} /\ copyTimer \in BOOLEAN
  /\ bootDone \in BOOLEAN /\ overlay \in {"shown", "leaving", "gone", "none"}
  /\ lines \in 0..NumLines /\ printing \in BOOLEAN /\ dismissals \in 0..2

\* The page is built.  With reduced motion the boot screen has all its lines
\* at once, otherwise they are printed one by one and a second timer stands by.
Init ==
  /\ order = <<>> /\ highlighted = {} /\ selectedId = 0 /\ placeholder = TRUE
  /\ inspections = {}
  /\ shown = 0 /\ tab = 1 /\ open = FALSE
  /\ copying = 0 /\ label = "COPY" /\ prevLabel = "none" /\ copyTimer = FALSE
  /\ \/ /\ bootDone = TRUE /\ overlay = "none"
        /\ lines = 0 /\ printing = FALSE /\ dismissals = 0
     \/ /\ bootDone = FALSE /\ overlay = "shown"
        /\ lines = NumLines /\ printing = FALSE /\ dismissals = 1
     \/ /\ bootDone = FALSE /\ overlay = "shown"
        /\ lines = 1 /\ printing = TRUE /\ dismissals = 1

-----------------------------------------------------------------------------
(* The spine.                                                              *)

\* What it is rebuilt from: rows in ascending order.
Lists == {l \in UNION {[1..n -> Ids] : n \in 0..Cardinality(Ids)} :
            \A i, j \in DOMAIN l : i < j => l[i] < l[j]}

\* The highlight comes back if the selected transmission is in the list.
RenderAll(list) ==
  /\ order' = list
  /\ highlighted' = ToSet(list) \cap {selectedId}
  /\ placeholder' = (list = <<>>)
  /\ UNCHANGED <<selectedId, inspections, padVars, copyVars, bootVars>>

\* Wrong on purpose (PlaceholderHonest): the placeholder is left to the caller.
AddUnderPlaceholder(id) ==
  /\ IF id \in ToSet(order)
     THEN UNCHANGED order
     ELSE order' = Append(order, id)
  /\ UNCHANGED <<highlighted, selectedId, placeholder, inspections, padVars, copyVars,
                 bootVars>>

\* Wrong on purpose (HighlightSurvives): the packet that takes the place of
\* another does not take over its class.
AddAfresh(id) ==
  /\ IF id \in ToSet(order)
     THEN highlighted' = highlighted \ {id} /\ UNCHANGED <<order, placeholder>>
     ELSE order' = Append(order, id) /\ placeholder' = FALSE /\ UNCHANGED highlighted
  /\ UNCHANGED <<selectedId, inspections, padVars, copyVars, bootVars>>

\* A packet that is there is replaced in place, another is appended.
Add(id) ==
  /\ IF id \in ToSet(order)
     THEN UNCHANGED <<order, placeholder>>
     ELSE order' = Append(order, id) /\ placeholder' = FALSE
  /\ UNCHANGED <<highlighted, selectedId, inspections, padVars, copyVars, bootVars>>

Clear ==
  /\ order' = <<>> /\ highlighted' = {} /\ selectedId' = 0 /\ placeholder' = TRUE
  /\ UNCHANGED <<inspections, padVars, copyVars, bootVars>>

\* Wrong on purpose (OneReticle): the one selected before stays marked.
SelectAnother(id) ==
  /\ selectedId' = id
  /\ highlighted' = highlighted \cup (ToSet(order) \cap {id})
  /\ UNCHANGED <<order, placeholder>>

Select(id) ==
  /\ selectedId' = id
  /\ highlighted' = ToSet(order) \cap {id}
  /\ UNCHANGED <<order, placeholder>>

-----------------------------------------------------------------------------
(* The inspector and its pad.                                              *)

\* The pad opens, or stays open, on another transmission and its first tab.
Render(id) == shown' = id /\ tab' = 1 /\ open' = TRUE

\* A click or Enter on a packet.  Of two fetches of the same message, one is
\* kept.
Inspect(id) ==
  /\ id \in ToSet(order)
  /\ Select(id)
  /\ IF id \in WithRef
     THEN inspections' = inspections \cup {id} /\ UNCHANGED padVars
     ELSE Render(id) /\ UNCHANGED inspections
  /\ UNCHANGED <<copyVars, bootVars>>

\* The message is there, or an error is shown in its place, whatever has been
\* selected, cleared or closed in the meantime.
InspectionLands(id) ==
  /\ id \in inspections
  /\ inspections' = inspections \ {id}
  /\ Render(id)
  /\ UNCHANGED <<spineVars, copyVars, bootVars>>

\* Wrong on purpose (TypeOK): End goes one too far.
KeyTabPastEnd ==
  /\ open
  /\ tab' \in {1, (tab % NumTabs) + 1, ((tab + NumTabs - 2) % NumTabs) + 1, NumTabs + 1}
  /\ UNCHANGED <<spineVars, inspections, shown, open, copyVars, bootVars>>

\* Home, Right or Down, Left or Up, End, with the focus on the active tab.
KeyTab ==
  /\ open
  /\ tab' \in {1, (tab % NumTabs) + 1, ((tab + NumTabs - 2) % NumTabs) + 1, NumTabs}
  /\ UNCHANGED <<spineVars, inspections, shown, open, copyVars, bootVars>>

ClickTab ==
  /\ open
  /\ tab' \in 1..NumTabs
  /\ UNCHANGED <<spineVars, inspections, shown, open, copyVars, bootVars>>

ClosePad ==
  /\ open
  /\ open' = FALSE
  /\ UNCHANGED <<spineVars, inspections, shown, tab, copyVars, bootVars>>

-----------------------------------------------------------------------------
(* COPY.                                                                   *)

\* Wrong on purpose (CopyLabelReturns): the label of the moment is remembered.
FlashCopyAgain(ok) ==
  /\ prevLabel' = label
  /\ label' = IF ok THEN "COPIED" ELSE "COPY FAILED"
  /\ copyTimer' = TRUE

\* flashCopy(): the first label is the one that is remembered; there is one
\* timer.
FlashCopy(ok) ==
  /\ prevLabel' = IF prevLabel = "none" THEN label ELSE prevLabel
  /\ label' = IF ok THEN "COPIED" ELSE "COPY FAILED"
  /\ copyTimer' = TRUE

\* The clipboard is asked, or there is none and the fallback answers at once.
ClickCopy ==
  /\ open
  /\ \/ copying < MaxCopies /\ copying' = copying + 1
        /\ UNCHANGED <<label, prevLabel, copyTimer>>
     \/ \E ok \in BOOLEAN : FlashCopy(ok) /\ UNCHANGED copying
  /\ UNCHANGED <<spineVars, inspections, padVars, bootVars>>

\* If the clipboard refuses, the fallback may still copy.
CopyLands ==
  /\ copying > 0
  /\ copying' = copying - 1
  /\ \E ok \in BOOLEAN : FlashCopy(ok)
  /\ UNCHANGED <<spineVars, inspections, padVars, bootVars>>

CopyTimerDue ==
  /\ copyTimer
  /\ copyTimer' = FALSE
  /\ label' = IF prevLabel = "none" THEN "COPY" ELSE prevLabel
  /\ UNCHANGED <<spineVars, inspections, padVars, copying, prevLabel, bootVars>>

-----------------------------------------------------------------------------
(* The boot screen and the keyboard.                                       *)

\* Wrong on purpose (BootEnds): done, but the overlay is not taken away.
DismissOnly == bootDone' = TRUE /\ UNCHANGED overlay

\* dismissBoot(): once; the overlay is hidden 600 ms later.
Dismiss ==
  IF bootDone
  THEN UNCHANGED <<bootDone, overlay>>
  ELSE bootDone' = TRUE /\ overlay' = "leaving"

\* step() of runBoot(): a line, or, after the last one, a timer to dismiss.
BootStep ==
  /\ printing
  /\ IF bootDone
     THEN printing' = FALSE /\ UNCHANGED <<lines, dismissals>>
     ELSE IF lines < NumLines
     THEN lines' = lines + 1 /\ UNCHANGED <<printing, dismissals>>
     ELSE printing' = FALSE /\ dismissals' = dismissals + 1 /\ UNCHANGED lines
  /\ UNCHANGED <<spineVars, inspections, padVars, copyVars, bootDone, overlay>>

DismissDue ==
  /\ dismissals > 0
  /\ dismissals' = dismissals - 1
  /\ Dismiss
  /\ UNCHANGED <<spineVars, inspections, padVars, copyVars, lines, printing>>

OverlayGoes ==
  /\ overlay = "leaving"
  /\ overlay' = "gone"
  /\ UNCHANGED <<spineVars, inspections, padVars, copyVars, bootDone, lines, printing,
                 dismissals>>

\* The skip button, or Enter or Space on the overlay.
SkipBoot ==
  /\ overlay \in {"shown", "leaving"}
  /\ Dismiss
  /\ UNCHANGED <<spineVars, inspections, padVars, copyVars, lines, printing, dismissals>>

Escape ==
  /\ \/ ~bootDone /\ Dismiss /\ UNCHANGED open
     \/ bootDone /\ open' = FALSE /\ UNCHANGED <<bootDone, overlay>>
  /\ UNCHANGED <<spineVars, inspections, shown, tab, copyVars, lines, printing, dismissals>>

-----------------------------------------------------------------------------
\* What the rest of the page does to the spine.
Page ==
  \/ \E list \in Lists : RenderAll(list)
  \/ \E id \in Ids : Add(id)
  \/ Clear

Pad == KeyTab \/ ClickTab \/ ClosePad \/ ClickCopy \/ CopyLands \/ CopyTimerDue

Boot == BootStep \/ DismissDue \/ OverlayGoes \/ SkipBoot

Next ==
  \/ Page
  \/ \E id \in Ids : Inspect(id) \/ InspectionLands(id)
  \/ Pad
  \/ Boot
  \/ Escape

Spec == Init /\ [][Next]_vars

\* Timers fire.  A copy sets the one of the label anew (clearTimeout), so that of
\* this timer it is assumed as well that nobody goes on copying, each time within
\* 1.4 seconds, for ever.
Fairness ==
  /\ WF_vars(CopyTimerDue)
  /\ WF_vars(DismissDue)
  /\ WF_vars(OverlayGoes)

FairSpec == Spec /\ Fairness
-----------------------------------------------------------------------------
(* Properties.                                                             *)

\* At most one packet is marked, and it is the one that was selected last,
\* though packets are rebuilt and replaced under the mark (transmission-spine.js
\* 508-511, 528-538, 571-599).
OneReticle == highlighted \subseteq {selectedId}

\* A mark does not get lost while its packet is on the spine, but to another
\* selection: not by a reload, not by a row that comes a second time
\* (transmission-spine.js 508: "restore selection highlight if still present").
HighlightSurvives ==
  [][\A id \in highlighted : id \in ToSet(order') =>
       id \in highlighted' \/ selectedId' # selectedId]_vars

\* The placeholder is seen exactly if the spine is empty, whoever filled or
\* emptied it (transmission-spine.js 432-447).
PlaceholderHonest == placeholder <=> order = <<>>

\* However copies overlap, the button gets its label back (data-pad.js 838-852).
CopyLabelReturns == label # "COPY" ~> label = "COPY"

\* app.js 1160: "never trap the operator behind the boot screen".
BootEnds == <>(overlay \in {"gone", "none"})

-----------------------------------------------------------------------------
(* The inductive invariants behind the properties.                         *)

\* What the spine shows, and what of it is marked.
SpineInv ==
  /\ order \in Seq(Ids) /\ IsInjective(order)
  /\ highlighted \subseteq ToSet(order)
  /\ selectedId \in Ids \cup {0}
  /\ placeholder \in BOOLEAN
  /\ OneReticle
  /\ PlaceholderHonest

Flags ==
  /\ open \in BOOLEAN /\ copyTimer \in BOOLEAN
  /\ bootDone \in BOOLEAN /\ printing \in BOOLEAN

PadInv ==
  /\ inspections \subseteq WithRef
  /\ shown \in Ids \cup {0} /\ tab \in 1..NumTabs

\* A button that says something else has a timer that gives it its label back.
CopyInv ==
  /\ copying \in 0..MaxCopies
  /\ label \in Labels /\ prevLabel \in {"none", "COPY"}
  /\ label # "COPY" => copyTimer /\ prevLabel = "COPY"

\* A boot screen that is there has a timer that takes it away.
BootInv ==
  /\ lines \in 0..NumLines
  /\ overlay \in {"shown", "leaving", "gone", "none"}
  /\ overlay = "shown" <=> ~bootDone
  /\ dismissals \in 0..2
  /\ printing => dismissals < 2
  /\ ~bootDone => dismissals > 0
=============================================================================
