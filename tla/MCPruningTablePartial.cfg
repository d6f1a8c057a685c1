SPECIFICATION Spec
CONSTANTS
  UDSliceSortedCoordinateLength = 28
  EdgeOrientationCoordinateLength = 4
  CornerOrientationCoordinateLength = 1
  CanonicalPermutationLength = 10
  SymmetryLength = 6
  Multiply <- MCMultiply
  SymmetryConjugate <- MCSymmetryConjugate
  SymmetryProduct <- MCSymmetryProduct
  MoveConjugate <- MCMoveConjugate
  FarthestDistance = 10
  KilledAfter = {0, 1, 2, 3, 4, 5, 6, 7, 8}
  CutAfter = {0}
INVARIANT RealIsReal
CHECK_DEADLOCK FALSE
