CONSTANTS
  MaxFrags = 3
  MaxUnits = 2
  Others <- FragmentedMessages

SPECIFICATION Spec

INVARIANT OnlyVideo
