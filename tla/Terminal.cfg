CONSTANTS
  CR = 13
  Lines <- ThreeLines
  INITIAL_COUNTER = 2
  \* DC1, a CR with its parity bit, and all ones.
  OutputChars = {17, 141, 255}
  MaxTyped = 2
  MaxOutputs = 2
SPECIFICATION FairSpec
INVARIANTS TypeOK StatusIsTrue PrintsTheOutput
PROPERTIES ImplementsPipe Delivered
CHECK_DEADLOCK FALSE
