\* Everything can be collapsed, after which nothing is left to click on.
CONSTANTS
  Value <- MCValue

SPECIFICATION Spec
INVARIANTS
  CollapsedCanBeExpanded
CHECK_DEADLOCK FALSE
