SPECIFICATION Spec
CONSTANTS
  p1 = p1
  p2 = p2
  c1 = c1
  c2 = c2
  cube1 = cube1
  cube2 = cube2
  NULL = NULL
  Program = {p1, p2}
  Client = {c1, c2}
  ProgramOf <- TwoPrograms
  CubeOf <- TwoCubes
  Worker = {w1, w2}
  BacklogLimit = 2
  FdLimit = 4
  MayBeKilled = TRUE
  MaxRequests = 2
INVARIANTS
  SolvesTheReceivedCube
