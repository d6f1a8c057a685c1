SPECIFICATION FairSpec
CONSTANTS
  UDSliceSortedCoordinateLength = 28
  EdgeOrientationCoordinateLength = 8
  CornerOrientationCoordinateLength = 4
  CanonicalPermutationLength = 10
  SymmetryLength = 6
  Multiply <- MCMultiply
  SymmetryConjugate <- MCSymmetryConjugate
  SymmetryProduct <- MCSymmetryProduct
  MoveConjugate <- MCMoveConjugate
  FarthestDistance = 10
  KilledAfter = {0, 18}
  CutAfter = {0, 4}
INVARIANTS TypeOK TableIsExact CountIsExact BoundIsReal BoundIsNear
PROPERTIES TableIsReady RealReturns
CHECK_DEADLOCK FALSE
