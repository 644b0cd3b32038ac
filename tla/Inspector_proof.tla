--------------------------- MODULE Inspector_proof ---------------------------
(***************************************************************************)
(* Theorems about Inspector, for any transmissions, tabs and boot lines:   *)
(* the spine, its mark and its placeholder, and the timers that are left.  *)
(***************************************************************************)
EXTENDS Inspector, FiniteSetTheorems, TLAPS

(* The spine.                                                              *)

LEMMA ListsAreSequences ==
  ASSUME NEW l \in Lists
  PROVE  l \in Seq(Ids) /\ IsInjective(l)
<1>1. PICK n \in Nat : l \in [1..n -> Ids]
  BY InspectorAssumption, FS_CardinalityType DEF Lists, InspectorAssumption
<1>2. \A i, j \in 1..n : i < j => l[i] < l[j]
  BY <1>1 DEF Lists
<1>3. \A i, j \in 1..n : l[i] = l[j] => i = j
  <2> SUFFICES ASSUME NEW i \in 1..n, NEW j \in 1..n, i < j
               PROVE  l[i] # l[j]
    BY <1>1
  <2>1. l[i] < l[j] /\ l[i] \in Nat /\ l[j] \in Nat
    BY <1>1, <1>2, InspectorAssumption DEF InspectorAssumption
  <2>2. QED
    BY <2>1
<1>4. IsInjective(l)
  BY <1>1, <1>3 DEF IsInjective
<1>5. QED
  BY <1>1, <1>4

\* A packet more at the end of the spine.
LEMMA AppendPacket ==
  ASSUME NEW s \in Seq(Ids), IsInjective(s), NEW id \in Ids, id \notin ToSet(s)
  PROVE  /\ Append(s, id) \in Seq(Ids) /\ Append(s, id) # <<>>
         /\ IsInjective(Append(s, id))
         /\ ToSet(Append(s, id)) = ToSet(s) \cup {id}
<1> DEFINE t == Append(s, id)
<1>1. /\ t \in Seq(Ids) /\ Len(t) = Len(s) + 1 /\ Len(s) \in Nat
      /\ \A i \in 1..Len(s) : t[i] = s[i]
      /\ t[Len(s) + 1] = id
  OBVIOUS
<1>2. DOMAIN t = 1..(Len(s) + 1) /\ DOMAIN s = 1..Len(s)
  BY <1>1
<1> HIDE DEF t
<1>3. t # <<>>
  BY <1>1
<1>4. \A i \in 1..Len(s) : s[i] # id
  BY <1>2 DEF ToSet
<1>5. IsInjective(t)
  BY <1>1, <1>2, <1>4 DEF IsInjective
<1>6. ToSet(t) = ToSet(s) \cup {id}
  BY <1>1, <1>2 DEF ToSet
<1>7. QED
  BY <1>1, <1>3, <1>5, <1>6 DEF t

LEMMA EmptySpine == <<>> \in Seq(Ids) /\ IsInjective(<<>>) /\ ToSet(<<>>) = {}
  BY DEF IsInjective, ToSet

\* Steps that do not touch the spine.
PadOrBoot ==
  \/ (\E id \in Ids : InspectionLands(id))
  \/ Pad \/ Boot \/ Escape

LEMMA SpineUntouched ==
  ASSUME PadOrBoot \/ UNCHANGED vars
  PROVE  UNCHANGED spineVars
  BY DEF PadOrBoot, InspectionLands, Pad, KeyTab, ClickTab, ClosePad, ClickCopy, CopyLands,
     CopyTimerDue, Boot, BootStep, DismissDue, OverlayGoes, SkipBoot, Escape, vars

LEMMA SpineInit == Init => SpineInv
  BY EmptySpine DEF Init, SpineInv, OneReticle, PlaceholderHonest

LEMMA RenderAllKeeps ==
  ASSUME SpineInv, NEW list \in Lists, RenderAll(list)
  PROVE  SpineInv'
  BY ListsAreSequences DEF RenderAll, SpineInv, OneReticle, PlaceholderHonest

LEMMA AddKeeps ==
  ASSUME SpineInv, NEW id \in Ids, Add(id)
  PROVE  SpineInv'
<1>1. CASE id \in ToSet(order)
  BY <1>1 DEF Add, SpineInv, OneReticle, PlaceholderHonest
<1>2. CASE id \notin ToSet(order)
  <2>1. order' = Append(order, id) /\ ~placeholder' /\ placeholder' \in BOOLEAN
        /\ UNCHANGED <<highlighted, selectedId>>
    BY <1>2 DEF Add
  <2>2. QED
    BY <1>2, <2>1, AppendPacket DEF SpineInv, OneReticle, PlaceholderHonest
<1>3. QED
  BY <1>1, <1>2

LEMMA ClearKeeps ==
  ASSUME SpineInv, Clear
  PROVE  SpineInv'
  BY EmptySpine DEF Clear, SpineInv, OneReticle, PlaceholderHonest

LEMMA InspectKeeps ==
  ASSUME SpineInv, NEW id \in Ids, Inspect(id)
  PROVE  SpineInv'
  BY DEF Inspect, Select, SpineInv, OneReticle, PlaceholderHonest

LEMMA SpineNext ==
  ASSUME SpineInv, [Next]_vars
  PROVE  SpineInv'
<1>1. CASE UNCHANGED spineVars
  BY <1>1 DEF spineVars, SpineInv, OneReticle, PlaceholderHonest
<1>2. QED
  BY <1>1, SpineUntouched, RenderAllKeeps, AddKeeps, ClearKeeps, InspectKeeps
  DEF Next, Page, PadOrBoot

\* The spine, its mark and its placeholder go together, whatever lists come, in
\* whatever order (transmission-spine.js 480-616).
THEOREM SpineInvariance == Spec => []SpineInv
  BY SpineInit, SpineNext, PTL DEF Spec

\* At most one packet is marked, the one selected last, whatever is rebuilt or
\* replaced under the mark (transmission-spine.js 508-511, 528-538, 571-599).
THEOREM AtMostOneReticle == Spec => []OneReticle
<1>1. SpineInv => OneReticle
  BY DEF SpineInv
<1>2. QED
  BY <1>1, SpineInvariance, PTL

\* The placeholder is seen exactly if the spine is empty, whoever filled or
\* emptied it (transmission-spine.js 432-447).
THEOREM PlaceholderTellsTruth == Spec => []PlaceholderHonest
<1>1. SpineInv => PlaceholderHonest
  BY DEF SpineInv
<1>2. QED
  BY <1>1, SpineInvariance, PTL

\* A mark is lost to another selection or with its packet, never to a reload or
\* to a row that comes a second time (transmission-spine.js 508-511, 530-534).
THEOREM MarksSurvive == Spec => HighlightSurvives
<1> DEFINE Survives == \A id \in highlighted : id \in ToSet(order') =>
                         id \in highlighted' \/ selectedId' # selectedId
<1>1. SpineInv /\ [Next]_vars => [Survives]_vars
  <2> SUFFICES ASSUME SpineInv, Next PROVE Survives
    OBVIOUS
  <2>1. ASSUME NEW list \in Lists, RenderAll(list) PROVE Survives
    BY <2>1 DEF RenderAll, SpineInv, OneReticle
  <2>2. CASE Clear
    BY <2>2, EmptySpine DEF Clear
  <2>3. ASSUME NEW id \in Ids, Inspect(id) PROVE Survives
    BY <2>3 DEF Inspect, Select, SpineInv, OneReticle
  <2>4. CASE UNCHANGED highlighted
    BY <2>4
  <2>5. QED
    BY <2>1, <2>2, <2>3, <2>4, SpineUntouched DEF Next, Page, PadOrBoot, Add, spineVars
<1>2. QED
  BY <1>1, SpineInvariance, PTL DEF Spec, HighlightSurvives

-----------------------------------------------------------------------------
(* The pad, its COPY button and the boot screen.                           *)

LEMMA Counts ==
  /\ NumTabs \in Nat /\ NumTabs >= 1
  /\ NumLines \in Nat /\ NumLines >= 1
  /\ MaxCopies \in Nat /\ WithRef \subseteq Ids
<1>1. NumTabs # 0 /\ NumLines # 0
  BY InspectorAssumption DEF InspectorAssumption
<1>2. QED
  BY <1>1, InspectorAssumption DEF InspectorAssumption

LEMMA PadInit == Init => Flags /\ PadInv /\ CopyInv /\ BootInv
<1> SUFFICES ASSUME Init PROVE Flags /\ PadInv /\ CopyInv /\ BootInv
  OBVIOUS
<1>1. Flags
  BY DEF Init, Flags
<1>2. PadInv
  BY Counts DEF Init, PadInv
<1>3. CopyInv
  BY Counts DEF Init, CopyInv, Labels
<1>4. BootInv
  BY Counts DEF Init, BootInv
<1>5. QED
  BY <1>1, <1>2, <1>3, <1>4

LEMMA FlagsNext ==
  ASSUME Flags, [Next]_vars
  PROVE  Flags'
<1>1. CASE UNCHANGED <<open, copyTimer, bootDone, printing>>
  BY <1>1 DEF Flags
<1>2. CASE \E id \in Ids : Inspect(id) \/ InspectionLands(id)
  BY <1>2 DEF Inspect, InspectionLands, Render, padVars, copyVars, bootVars, Flags
<1>3. CASE ClosePad \/ ClickCopy \/ CopyLands \/ CopyTimerDue
  BY <1>3 DEF ClosePad, ClickCopy, CopyLands, CopyTimerDue, FlashCopy, copyVars, bootVars,
     padVars, Flags
<1>4. CASE Boot \/ Escape
  BY <1>4 DEF Boot, BootStep, DismissDue, OverlayGoes, SkipBoot, Escape, Dismiss, copyVars,
     padVars, Flags
<1>5. CASE UNCHANGED vars \/ Page \/ KeyTab \/ ClickTab
  <2>1. UNCHANGED <<open, copyTimer, bootDone, printing>>
    BY <1>5 DEF vars, Page, RenderAll, Add, Clear, KeyTab, ClickTab, padVars, copyVars, bootVars
  <2>2. QED
    BY <1>1, <2>1
<1>6. QED
  BY <1>2, <1>3, <1>4, <1>5 DEF Next, Pad

\* The remainder of a division counts the tabs round.
LEMMA TabsGoRound ==
  ASSUME NEW t \in 1..NumTabs
  PROVE  /\ (t % NumTabs) + 1 \in 1..NumTabs
         /\ ((t + NumTabs - 2) % NumTabs) + 1 \in 1..NumTabs
<1>1. NumTabs \in Nat /\ NumTabs > 0
  BY Counts
<1>2. \A n \in Nat : n % NumTabs \in 0..(NumTabs - 1)
  BY <1>1
<1>3. t \in Nat /\ t + NumTabs - 2 \in Int /\ t + NumTabs - 2 >= 0 - 0
  BY <1>1
<1>4. QED
  BY <1>1, <1>2, <1>3

LEMMA PadNext ==
  ASSUME PadInv, [Next]_vars
  PROVE  PadInv'
<1>1. CASE UNCHANGED <<inspections, padVars>>
  BY <1>1 DEF padVars, PadInv
<1>2. ASSUME NEW id \in Ids, Inspect(id) PROVE PadInv'
  BY <1>2, Counts DEF Inspect, Render, padVars, PadInv
<1>3. ASSUME NEW id \in Ids, InspectionLands(id) PROVE PadInv'
  BY <1>3, Counts DEF InspectionLands, Render, PadInv
<1>4. CASE KeyTab
  BY <1>4, TabsGoRound, Counts DEF KeyTab, PadInv
<1>5. CASE ClickTab
  BY <1>5 DEF ClickTab, PadInv
<1>6. CASE ClosePad \/ Escape
  BY <1>6 DEF ClosePad, Escape, PadInv
<1>7. CASE UNCHANGED vars \/ Page \/ ClickCopy \/ CopyLands \/ CopyTimerDue \/ Boot
  <2>1. UNCHANGED <<inspections, padVars>>
    BY <1>7 DEF vars, Page, RenderAll, Add, Clear, ClickCopy, CopyLands, CopyTimerDue,
       Boot, BootStep, DismissDue, OverlayGoes, SkipBoot
  <2>2. QED
    BY <1>1, <2>1
<1>8. QED
  BY <1>2, <1>3, <1>4, <1>5, <1>6, <1>7 DEF Next, Pad

LEMMA CopyNext ==
  ASSUME CopyInv, [Next]_vars
  PROVE  CopyInv'
<1>1. CASE UNCHANGED copyVars
  BY <1>1 DEF copyVars, CopyInv
<1>2. ASSUME NEW ok \in BOOLEAN, FlashCopy(ok), copying' \in 0..MaxCopies
      PROVE  CopyInv'
  <2>1. label' \in {"COPIED", "COPY FAILED"} /\ copyTimer'
    BY <1>2 DEF FlashCopy
  <2>2. prevLabel' = "COPY"
    BY <1>2 DEF FlashCopy, CopyInv
  <2>3. QED
    BY <1>2, <2>1, <2>2 DEF CopyInv, Labels
<1>3. CASE ClickCopy
  <2>1. CASE copying < MaxCopies /\ copying' = copying + 1 /\ UNCHANGED <<label, prevLabel, copyTimer>>
    BY <2>1, Counts DEF CopyInv
  <2>2. QED
    BY <1>2, <1>3, <2>1 DEF ClickCopy, CopyInv
<1>4. CASE CopyLands
  <2>1. copying' \in 0..MaxCopies
    BY <1>4, Counts DEF CopyLands, CopyInv
  <2>2. QED
    BY <1>2, <1>4, <2>1 DEF CopyLands
<1>5. CASE CopyTimerDue
  BY <1>5 DEF CopyTimerDue, CopyInv, Labels
<1>6. CASE \/ Page \/ KeyTab \/ ClickTab \/ ClosePad \/ Boot \/ Escape \/ UNCHANGED vars
           \/ \E id \in Ids : Inspect(id) \/ InspectionLands(id)
  <2>1. UNCHANGED copyVars
    BY <1>6 DEF vars, Page, RenderAll, Add, Clear, KeyTab, ClickTab, ClosePad, Boot, BootStep,
       DismissDue, OverlayGoes, SkipBoot, Escape, Inspect, InspectionLands
  <2>2. QED
    BY <1>1, <2>1
<1>7. QED
  BY <1>3, <1>4, <1>5, <1>6 DEF Next, Pad

LEMMA BootNext ==
  ASSUME BootInv, [Next]_vars
  PROVE  BootInv'
<1>1. CASE UNCHANGED bootVars
  BY <1>1 DEF bootVars, BootInv
<1>2. CASE BootStep
  <2>1. UNCHANGED <<bootDone, overlay>> /\ printing
    BY <1>2 DEF BootStep
  <2>2. CASE bootDone
    BY <1>2, <2>1, <2>2 DEF BootStep, BootInv
  <2>3. CASE ~bootDone /\ lines < NumLines
    BY <1>2, <2>1, <2>3, Counts DEF BootStep, BootInv
  <2>4. CASE ~bootDone /\ ~(lines < NumLines)
    BY <1>2, <2>1, <2>4 DEF BootStep, BootInv
  <2>5. QED
    BY <2>2, <2>3, <2>4
<1>3. CASE DismissDue
  BY <1>3 DEF DismissDue, Dismiss, BootInv
<1>4. CASE OverlayGoes
  BY <1>4 DEF OverlayGoes, BootInv
<1>5. CASE SkipBoot
  BY <1>5 DEF SkipBoot, Dismiss, BootInv
<1>6. CASE Escape
  BY <1>6 DEF Escape, Dismiss, BootInv
<1>7. CASE Page \/ Pad \/ UNCHANGED vars \/ \E id \in Ids : Inspect(id) \/ InspectionLands(id)
  <2>1. UNCHANGED bootVars
    BY <1>7 DEF vars, Page, RenderAll, Add, Clear, Pad, KeyTab, ClickTab, ClosePad, ClickCopy,
       CopyLands, CopyTimerDue, Inspect, InspectionLands
  <2>2. QED
    BY <1>1, <2>1
<1>8. QED
  BY <1>2, <1>3, <1>4, <1>5, <1>6, <1>7 DEF Next, Boot

\* What CopyLabelReturns rests on: as long as the button says something else, a
\* timer is pending that will put COPY back (data-pad.js 838-852).
THEOREM LabelHasTimer == Spec => []CopyInv
<1>1. Init => CopyInv
  BY PadInit
<1>2. QED
  BY <1>1, CopyNext, PTL DEF Spec

\* What BootEnds rests on: a boot screen that nobody has dismissed has a timer
\* pending that will (app.js 1115-1162: "never trap the operator").
THEOREM BootScreenHasTimer == Spec => []BootInv
<1>1. Init => BootInv
  BY PadInit
<1>2. QED
  BY <1>1, BootNext, PTL DEF Spec

\* Types, for any number of tabs, boot lines and copies (data-pad.js 722-737).
THEOREM TypesCorrect == Spec => []TypeOK
<1>1. Init => Flags /\ PadInv
  BY PadInit
<1>2. Spec => [](Flags /\ PadInv)
  BY <1>1, FlagsNext, PadNext, PTL DEF Spec
<1>3. SpineInv /\ Flags /\ PadInv /\ CopyInv /\ BootInv => TypeOK
  BY DEF SpineInv, Flags, PadInv, CopyInv, BootInv, TypeOK, Labels
<1>4. QED
  BY <1>2, <1>3, SpineInvariance, LabelHasTimer, BootScreenHasTimer, PTL
=============================================================================
