CONSTANTS
  Unset = Unset
  None = None
  Rules <- MCRules
  Limits <- MCLimits
  MaxErrors = 2
  MaxEdits = 2
SPECIFICATION Spec
INVARIANTS DryRunSendsNothing
CHECK_DEADLOCK FALSE
