SPECIFICATION MCSpec
CONSTANTS
  Scrambles <- MCScrambles
  MaxTurns = 2
  LaterMoves = {1, 6, 14}
  Coords <- MCCoords
  Garbage = 7
INVARIANTS CoordinatesFollow SolvedIsSeen ReadsAreWritten InverseIsRight
CHECK_DEADLOCK FALSE
