----------------------------- MODULE JsonViewer -----------------------------
(***************************************************************************)
(* The collapsible JSON viewer of the data pad (data-pad.js, serialize and *)
(* buildJsonViewer).  A value is written as lines; an object or an array   *)
(* opens a group with one line and closes it with another; a click on the  *)
(* opening line hides or shows the rows of the group.  What a scalar or a  *)
(* key looks like is left out.                                             *)
(***************************************************************************)
EXTENDS Naturals, Sequences, SequencesExt

CONSTANT
  Value       \* [scalar, items]: a scalar, or the values of an array or object

VARIABLES
  collapsed,  \* the groups whose opening line has the class collapsed
  hidden      \* the rows that are hidden, by line

vars == <<collapsed, hidden>>

-----------------------------------------------------------------------------
\* serialize(): the kinds of the lines of a value.
RECURSIVE Serialize(_)
Serialize(value) ==
  IF value.scalar THEN <<"scalar">>
  ELSE IF value.items = <<>> THEN <<"empty">>
  ELSE <<"open">>
       \o FoldLeft(LAMBDA out, item : out \o Serialize(item), <<>>, value.items)
       \o <<"close">>

\* The walk over the lines: the groups that are open now, how many there were,
\* and for each line so far the group it opens (0 if none) and those it is in.
Walk(acc, kind) ==
  LET groupId == acc.groupId + (IF kind = "open" THEN 1 ELSE 0)
      stack   == CASE kind = "open"  -> Append(acc.stack, groupId)
                   [] kind = "close" -> Front(acc.stack)
                   [] OTHER          -> acc.stack
      line    == [opens  |-> IF kind = "open" THEN groupId ELSE 0,
                  groups |-> ToSet(stack)]
  IN  [groupId |-> groupId, stack |-> stack, lines |-> Append(acc.lines, line)]

Lines == FoldLeft(Walk, [groupId |-> 0, stack |-> <<>>, lines |-> <<>>], Serialize(Value)).lines

Rows(group) == {i \in DOMAIN Lines : group \in Lines[i].groups}

-----------------------------------------------------------------------------
Init == collapsed = {} /\ hidden = {}

\* A click, Enter or Space on an opening line that is to be seen.
Toggle(i) ==
  LET group == Lines[i].opens
  IN  /\ group # 0 /\ i \notin hidden
      /\ IF group \in collapsed
         THEN collapsed' = collapsed \ {group} /\ hidden' = hidden \ Rows(group)
         ELSE collapsed' = collapsed \cup {group} /\ hidden' = hidden \cup Rows(group)

Next == \E i \in DOMAIN Lines : Toggle(i)

Spec == Init /\ [][Next]_vars
-----------------------------------------------------------------------------
\* A collapsed group is seen, and can be expanded again, unless it is within
\* another one: its opening line does not hide itself (data-pad.js 204-205: the
\* rows of a group are the "inner rows"; 231: "except the opener's own line").
CollapsedCanBeExpanded ==
  \A i \in DOMAIN Lines :
    /\ Lines[i].opens \in collapsed
    /\ Lines[i].groups \cap collapsed \subseteq {Lines[i].opens}
    => i \notin hidden
=============================================================================
