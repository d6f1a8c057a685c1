SPECIFICATION FairSpec
CONSTANTS
  r1 = r1
  r2 = r2
  r3 = r3
  r4 = r4
  cube1 = cube1
  cube2 = cube2
  cube3 = cube3
  NULL = NULL
  Request = {r1, r2, r3, r4}
  CubeOf <- MCCubeOf
  Thread = {t1, t2}
  Address = {a1, a2, a3}
INVARIANTS
  AnswersAreOwn
  MemoryIsSafe
PROPERTY EveryCallIsAnswered
