\* What app.js says of the alert: never without a contact.
CONSTANTS
  Script <- MCShortScript
  MaxRows = 2
  MaxClicks = 2

SPECIFICATION Spec
INVARIANTS
  AlertHasContact
CHECK_DEADLOCK FALSE
