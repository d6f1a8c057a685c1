SPECIFICATION FairSpec
CONSTANTS
  Worker = {w1, w2, w3}
  Socket = {s1, s2}
  Node = {n1, n2, n3}
  Lead = Lead
  LeadLast = LeadLast
  NULL = NULL
INVARIANTS
  TypeOK
  MutualExclusion
  PointersAreSafe
  ExactlyOneHolder
  ListIsConsistent
  ListIsIntact
PROPERTIES
  EveryClientIsServed
  ImplementsQueue
