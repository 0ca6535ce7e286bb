CONSTANTS
  Unset = Unset
  None = None
  Rules <- MCRules
  Limits <- MCLimits
  MaxErrors = 2
  MaxEdits = 3
SPECIFICATION Spec
INVARIANTS
  MainnetNeedsThreeChanges OrdersAreConfirmed ReportIsTrue ReleasedOnExit
CHECK_DEADLOCK FALSE
