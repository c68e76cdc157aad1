CONSTANTS
  Widths = {1, 2}
  MaxLen = 12
  Inputs <- MCInputs
SPECIFICATION Spec
INVARIANTS RoundTrip OverrunByOne GrowthOfLiterals
CHECK_DEADLOCK FALSE
