SPECIFICATION Spec
CONSTANTS
  Scrambles <- MCScrambles
  Distance <- MCDistance
  TableDepth = 1
  StatesLength = 30
  ScrambleLength = 3
INVARIANTS
  TypeOK
  SolutionIsOptimal
  DepthIsJustified
  BoundsAreExact
  StackIsAPath
  SymmetriesAreOfTheTop
PROPERTY SearchAdvances
CHECK_DEADLOCK FALSE
